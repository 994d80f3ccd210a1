--------------------------- MODULE CheckpointSwap ---------------------------
(***************************************************************************)
(* What the checkpoint transaction promises: a node's state is swapped for *)
(* a checkpoint, or a swap is undone, in one step.  Between the step that  *)
(* announces a swap and the step that ends it nobody can rely on the state *)
(* (it is InTransit), and an install that is cut off leaves it there until *)
(* a rollback.                                                             *)
(*                                                                         *)
(* A backup is spoilt when something other than its own install and one    *)
(* uninterrupted rollback has touched it; of a spoilt backup nothing is    *)
(* promised.  CheckpointRefinement shows that checkpoint.py, killed and    *)
(* interleaved at every file-system call, implements this.                 *)
(***************************************************************************)
EXTENDS Integers

CONSTANTS
  Items,         \* the replaceable paths
  Installed,     \* the items a checkpoint brings; of the others it has none
  Backups,       \* what can be rolled back
  NoBackup,
  Data,          \* what an item can contain: see CheckpointTransaction
  Absent, Fresh,
  InTransit

VARIABLES
  node,    \* node[i]: content of item i; or InTransit
  status,  \* status[b]: what the receipt of backup b says
  base,    \* base[b]: the state the b-th install found
  spoilt,  \* backups of which nothing is promised
  mover    \* the backup whose install or rollback is under way, or NoBackup

vars == <<node, status, base, spoilt, mover>>

States == [Items -> Data]

Init ==
  /\ node \in States
  /\ status = [b \in Backups |-> "absent"]
  /\ base \in [Backups -> States]
  /\ spoilt = {}
  /\ mover = NoBackup

Interrupted == {b \in Backups : status[b] = "installing"}

\* Whoever moves state next spoils the other interrupted installs.
Take(b) ==
  /\ mover = NoBackup
  /\ mover' = b
  /\ node' = InTransit
  /\ spoilt' = spoilt \cup (Interrupted \ {b})

\* An install announces itself, with what it found.
Announce(b) ==
  /\ status[b] = "absent"
  /\ b \notin spoilt
  /\ status' = [status EXCEPT ![b] = "installing"]
  /\ base' = [base EXCEPT ![b] = base'[b]]
  /\ base'[b] \in States
  /\ node # InTransit => base'[b] = node
  /\ Take(b)

\* A rollback of b begins.
Open(b) == Take(b) /\ UNCHANGED <<status, base>>

\* The mover is through.
Settle(b, outcome) ==
  /\ mover = b
  /\ mover' = NoBackup
  /\ node' \in States
  /\ status' = [status EXCEPT ![b] = outcome]
  /\ UNCHANGED <<base, spoilt>>

\* The node is the checkpoint's, entirely.
Commit(b) ==
  /\ status[b] = "installing"
  /\ Settle(b, "installed")
  /\ \A i \in Items : node'[i] = IF i \in Installed THEN b ELSE Absent

\* Everything the install found is back, and nothing of the checkpoint left.
Restored(b) ==
  \A i \in Items : /\ base[b][i] # Absent => node'[i] = base[b][i]
                   /\ node'[i] # b

Abort(b) ==
  /\ status[b] = "installing"
  /\ Settle(b, "automatically-rolled-back")
  /\ Restored(b)

Undo(b) ==
  /\ Settle(b, "rolled-back")
  /\ b \notin spoilt /\ status[b] \in {"installing", "installed"} => Restored(b)

\* The mover is cut off.  An interrupted install keeps the node in transit,
\* an interrupted rollback of a finished install spoils it.
CutOff(b) ==
  /\ mover = b
  /\ mover' = NoBackup
  /\ spoilt' = IF status[b] = "installed" THEN spoilt \cup {b} ELSE spoilt
  /\ IF status[b] = "installing" /\ b \notin spoilt THEN node' = InTransit
                                                    ELSE node' \in States
  /\ UNCHANGED <<status, base>>

\* A backup is deleted, but never an interrupted install's.
Discard(b) ==
  /\ status[b] \notin {"absent", "installing"}
  /\ status' = [status EXCEPT ![b] = "absent"]
  /\ spoilt' = spoilt \cup {b}
  /\ UNCHANGED <<node, base, mover>>

\* A deletion is cut off and leaves something behind, under another name.
Leave(b, c) ==
  /\ status[b] \notin {"absent", "installing"}
  /\ status[c] = "absent"
  /\ status' = [status EXCEPT ![b] = "absent", ![c] = status[b]]
  /\ spoilt' = spoilt \cup {b, c}
  /\ UNCHANGED <<node, base, mover>>

\* A program creates what it does not find.
Use ==
  /\ node # InTransit
  /\ node' \in States
  /\ \A i \in Items : node'[i] # node[i] => node[i] = Absent /\ node'[i] = Fresh
  /\ UNCHANGED <<status, base, spoilt, mover>>

Next ==
  \/ Use
  \/ \E b \in Backups :
       \/ Announce(b) \/ Open(b)   \/ Commit(b) \/ Abort(b)
       \/ Undo(b)     \/ CutOff(b) \/ Discard(b)
       \/ \E c \in Backups : Leave(b, c)

Spec == Init /\ [][Next]_vars
=============================================================================
