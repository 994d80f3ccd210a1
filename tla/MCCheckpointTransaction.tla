---------------------- MODULE MCCheckpointTransaction ----------------------
(***************************************************************************)
(* Small instances of CheckpointTransaction for TLC.                       *)
(***************************************************************************)
EXTENDS CheckpointClaims, CheckpointRefinement, TLC

CONSTANTS c1, c2

MCOwns == [q \in Programs |-> IF q \in LockTaking THEN Children ELSE RethItems]

\* A node that ran from genesis, and one that began from a checkpoint.
SyncedItems  == RethItems \cup Children
EveryItem    == Items
MCInitialItems == {SyncedItems, EveryItem}
MCEveryItem  == {EveryItem}

\* A node installed but never started.
MCNewNode    == {{}}

\* Where a deletion is cut off: anywhere, when it has dealt with everything
\* but Reth's trees, nowhere.
MCAnywhere   == SUBSET Items
MCRethLeft   == {RethItems}
MCNowhere    == {}

MCChildren == {"state", "journal"}
MCChild    == {"state"}

Symmetry == Permutations(Commands)
=============================================================================
