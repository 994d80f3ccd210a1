------------------------ MODULE CheckpointRefinement ------------------------
(***************************************************************************)
(* CheckpointTransaction implements CheckpointSwap.  The startup files are *)
(* copied, not moved, and no part of the swap (see AutomaticRollback       *)
(* RestoresFiles in CheckpointClaims).                                     *)
(***************************************************************************)
EXTENDS CheckpointInvariants

CONSTANT InTransit  \* what the node is while it is no state at all

ASSUME InTransitAssumption == InTransit \notin [Moved -> Data]

\* Commands that move state; at most one at a time does.
Movers == {p \in Commands : pc[p] \in ActivePcs}

Moving == IF Movers = {} THEN NoBackup ELSE bk[CHOOSE p \in Movers : TRUE]

\* An install was cut off, and nothing has touched what it left.
Unsettled == \E b \in Backups \ compromised : receipt[b] = "installing"

OnMoved(state) == [i \in Moved |-> state[i]]

Node == IF Movers # {} \/ Unsettled THEN InTransit ELSE OnMoved(live)
Base == [b \in Backups |-> OnMoved(snapshot[b])]

Swap ==
  INSTANCE CheckpointSwap WITH
    Items     <- Moved,
    Installed <- Moved \ Children,
    node      <- Node,
    status    <- receipt,
    base      <- Base,
    spoilt    <- compromised,
    mover     <- Moving

\* However its file-system calls interleave with other commands, programs and
\* failures, checkpoint.py swaps the node's state for a checkpoint and back
\* as one step would: whoever looks while no command moves state and no
\* install lies interrupted sees the state an install or a rollback completed,
\* with what programs have created since.
ImplementsSwap == Swap!Spec
=============================================================================
