----------------------- MODULE CheckpointTransaction -----------------------
(***************************************************************************)
(* The checkpoint transaction of tools/seismic_node/checkpoint.py: the     *)
(* commands `checkpoint install`, `checkpoint rollback` and `checkpoint    *)
(* delete-backup`, run by any number of operators at once, while node      *)
(* programs start and stop and any command may be killed or hit an I/O     *)
(* error between two file-system calls.                                    *)
(*                                                                         *)
(* Every replaceable path is an item.  The content of an item is reduced   *)
(* to its lineage: nothing there, a tree or file left half written or half *)
(* removed, what the node had at first, what a node program created on an  *)
(* empty path, or what the checkpoint of install b put there (lineage b).  *)
(* A running program changes its data and keeps their lineage.             *)
(*                                                                         *)
(* One step is one file-system call on one item: rename(2), the opening    *)
(* and the closing of a copy, the first and the last unlink of a removal,  *)
(* an atomic replace.  Directory operations are assumed to reach the disk  *)
(* in order, so a power loss is a kill.                                    *)
(***************************************************************************)
EXTENDS Integers, FiniteSets

CONSTANTS
  Commands,     \* CLI processes; each runs one command after another
  Programs,     \* node programs
  LockTaking,   \* the programs that hold the Summit lock while they run
  Owns,         \* Owns[q]: the items program q creates when they are missing
  Children,     \* entries of the Summit data directory, lock file excepted
  Operations,   \* the commands operators issue: install, rollback, delete
  InitialItems, \* the sets of items a node may have before its first command
  Leavings,     \* the sets of items a deletion that is cut off may leave whole
  MaxInstalls,  \* bound on the installs issued
  MaxMishaps,   \* bound on kills and I/O errors
  Absent, Torn, Original, Fresh, \* contents of an item; see above
  Nobody        \* owner of a free lock

RethItems     == {"reth_db", "reth_static_files"}
PrivateFiles  == {"checkpoint_config", "weak_subjectivity"}
OtherItems    == {"checkpoint"} \cup PrivateFiles
Flagged       == RethItems \cup OtherItems  \* items with a "previous" flag
Items         == Flagged \cup Children
Moved         == Items \ PrivateFiles       \* renamed; the others are copied

Installs      == 1 .. MaxInstalls           \* b: the backup of the b-th install
Leftover(b)   == b + MaxInstalls            \* what a cut-off deletion leaves of b
Backups       == 1 .. 2 * MaxInstalls
NoBackup      == 0
Data          == {Absent, Torn, Original, Fresh} \cup Backups

ASSUME BoundsAssumption == MaxInstalls \in Nat /\ MaxMishaps \in Nat

ASSUME ItemsAssumption ==
  /\ Children \cap Flagged = {}
  /\ InitialItems \subseteq SUBSET Items
  /\ Operations \subseteq {"install", "rollback", "delete"}

ASSUME DataAssumption ==
  /\ \A d \in {Absent, Torn, Original, Fresh} : d \notin Backups
  /\ Absent \notin {Torn, Original, Fresh}
  /\ Torn \notin {Original, Fresh}
  /\ Original # Fresh

\* Summit programs own the Summit data directory, the others Reth's.
ASSUME ProgramsAssumption ==
  /\ LockTaking \subseteq Programs
  /\ Owns \in [Programs -> SUBSET Items]
  /\ \A q \in LockTaking : Owns[q] \subseteq Children
  /\ \A q \in Programs \ LockTaking : Owns[q] \subseteq RethItems
  /\ Nobody \notin Commands \cup Programs
  /\ Commands \cap Programs = {}

VARIABLES
  live,        \* live[i]: content of item i at its configured path
  saved,       \* saved[b][i]: content of item i in backup b
  receipt,     \* receipt[b]: state in b's rollback-manifest.json, if any
  previous,    \* previous[b]: items the receipt flags as existing before
  lock,        \* holder of .summit-process.lock
  running,     \* programs systemd does not report stopped
  pc,          \* pc[p]: where command p is
  op,          \* op[p]: which command p runs
  bk,          \* bk[p]: the backup p works on
  seen,        \* seen[p]: receipt state p holds in memory
  todo,        \* todo[p]: items left in the current loop of p
  installs,    \* installs issued so far
  mishaps,     \* kills and I/O errors so far
  \* History, read by the properties only.
  snapshot,    \* snapshot[b]: live state when receipt b was written
  compromised  \* backups that something other than their own install and
               \* one uninterrupted rollback has touched

disk    == <<live, saved, receipt, previous>>
process == <<pc, op, bk, seen, todo>>
world   == <<lock, running>>
bounds  == <<installs, mishaps>>
history == <<snapshot, compromised>>
vars    == <<disk, process, world, bounds, history>>

-----------------------------------------------------------------------------
(* The states of a receipt and the program counters. *)

ReceiptStates == {"absent", "installing", "installed", "rolled-back",
                  "automatically-rolled-back"}

BackupPcs  == {"backup_reth", "backup_summit", "backup_rest"}
InstallPcs == BackupPcs \cup {"install", "seal_install"}
RestorePcs == {"restore_reth", "wipe", "restore_summit", "restore_rest",
               "move_back", "seal_restore"}
LockedPcs  == {"locked", "cleared"} \cup InstallPcs \cup RestorePcs
Pcs        == {"idle", "prepared", "checked", "confirm_delete"} \cup LockedPcs

TypeOK ==
  /\ live \in [Items -> Data]
  /\ saved \in [Backups -> [Items -> Data]]
  /\ receipt \in [Backups -> ReceiptStates]
  /\ previous \in [Backups -> SUBSET Flagged]
  /\ lock \in Commands \cup Programs \cup {Nobody}
  /\ running \in SUBSET Programs
  /\ pc \in [Commands -> Pcs]
  /\ op \in [Commands -> {"none", "install", "rollback", "delete"}]
  /\ bk \in [Commands -> Backups \cup {NoBackup}]
  /\ seen \in [Commands -> ReceiptStates]
  /\ todo \in [Commands -> SUBSET Items]
  /\ installs \in 0 .. MaxInstalls
  /\ mishaps \in 0 .. MaxMishaps
  /\ snapshot \in [Backups -> [Items -> Data]]
  /\ compromised \in SUBSET Backups

Nothing == [i \in Items |-> Absent]

Init ==
  /\ \E present \in InitialItems :
       live = [i \in Items |-> IF i \in present THEN Original ELSE Absent]
  /\ saved = [b \in Backups |-> Nothing]
  /\ receipt = [b \in Backups |-> "absent"]
  /\ previous = [b \in Backups |-> {}]
  /\ lock = Nobody
  /\ running = {}
  /\ pc = [p \in Commands |-> "idle"]
  /\ op = [p \in Commands |-> "none"]
  /\ bk = [p \in Commands |-> NoBackup]
  /\ seen = [p \in Commands |-> "absent"]
  /\ todo = [p \in Commands |-> {}]
  /\ installs = 0
  /\ mishaps = 0
  /\ snapshot = [b \in Backups |-> Nothing]
  /\ compromised = {}

-----------------------------------------------------------------------------
(* Control flow shared by the commands. *)

\* The order in which a loop visits the flagged items.
BackupOrder  == [reth_db |-> 1, reth_static_files |-> 2, checkpoint |-> 3,
                 checkpoint_config |-> 4, weak_subjectivity |-> 5]
InstallOrder == [BackupOrder EXCEPT !.checkpoint_config = 6]

\* p's loop is at item i.  Directory entries come in no particular order.
At(p, labels, i) ==
  /\ pc[p] \in labels
  /\ i \in todo[p]
  /\ \A j \in todo[p] \cap Flagged :
       IF pc[p] = "install" THEN InstallOrder[i] <= InstallOrder[j]
                            ELSE BackupOrder[i] <= BackupOrder[j]

Goto(p, label, work) ==
  /\ pc' = [pc EXCEPT ![p] = label]
  /\ todo' = [todo EXCEPT ![p] = work]

ItemDone(p, i) == Goto(p, pc[p], todo[p] \ {i})

\* Mutant: the descriptor is inherited and the lock outlives the command.
EndCommandKeepsLock(p) ==
  /\ Goto(p, "idle", {})
  /\ op' = [op EXCEPT ![p] = "none"]
  /\ bk' = [bk EXCEPT ![p] = NoBackup]
  /\ seen' = [seen EXCEPT ![p] = "absent"]
  /\ lock' = lock

\* The process ends; the kernel drops its lock with its descriptors.
EndCommand(p) ==
  /\ Goto(p, "idle", {})
  /\ op' = [op EXCEPT ![p] = "none"]
  /\ bk' = [bk EXCEPT ![p] = NoBackup]
  /\ seen' = [seen EXCEPT ![p] = "absent"]
  /\ lock' = IF lock = p THEN Nobody ELSE lock

\* p stops without finishing; an installed backup half restored is marked.
Stop(p) ==
  /\ EndCommand(p)
  /\ compromised' =
       IF pc[p] \in RestorePcs /\ receipt[bk[p]] = "installed"
       THEN compromised \cup {bk[p]} ELSE compromised

\* Mutant: the automatic restore leaves Reth to the operator.
RaiseSkipsReth(p) ==
  IF pc[p] \in InstallPcs
  THEN /\ Goto(p, "wipe", {})
       /\ UNCHANGED <<op, bk, seen, lock, compromised>>
  ELSE Stop(p)

\* An exception: an install with a receipt goes on to restore it.
Raise(p) ==
  IF pc[p] \in InstallPcs
  THEN /\ Goto(p, "restore_reth", RethItems)
       /\ UNCHANGED <<op, bk, seen, lock, compromised>>
  ELSE Stop(p)

PreviousExists(p, i) == i \in previous[bk[p]]
InBackup(p, i)       == saved[bk[p]][i] # Absent

\* Interrupted installs whose state another transaction is about to move.
OtherInterrupted(b)  == {c \in Backups \ {b} : receipt[c] = "installing"}

-----------------------------------------------------------------------------
(* Commands up to the point where they may change state. *)

\* Inputs validated, archive staged, install confirmed.  Nothing has moved.
StartInstall(p) ==
  /\ pc[p] = "idle"
  /\ "install" \in Operations
  /\ installs < MaxInstalls
  /\ installs' = installs + 1
  /\ Goto(p, "prepared", {})
  /\ op' = [op EXCEPT ![p] = "install"]
  /\ bk' = [bk EXCEPT ![p] = installs + 1]
  /\ UNCHANGED <<disk, seen, world, mishaps, history>>

\* Reads the receipt, checks eligibility, asks for confirmation.
StartRollback(p, b) ==
  /\ pc[p] = "idle"
  /\ "rollback" \in Operations
  /\ receipt[b] \in {"installed", "installing"}
  /\ Goto(p, "prepared", {})
  /\ op' = [op EXCEPT ![p] = "rollback"]
  /\ bk' = [bk EXCEPT ![p] = b]
  /\ seen' = [seen EXCEPT ![p] = receipt[b]]
  /\ UNCHANGED <<disk, world, bounds, history>>

RequireServicesStopped(p) ==
  /\ pc[p] \in {"prepared", "locked"}
  /\ running = {}
  /\ Goto(p, IF pc[p] = "prepared" THEN "checked" ELSE "cleared", {})
  /\ UNCHANGED <<disk, op, bk, seen, world, bounds, history>>

RefuseRunningServices(p) ==
  /\ pc[p] \in {"prepared", "locked"}
  /\ running # {}
  /\ EndCommand(p)
  /\ UNCHANGED <<disk, running, bounds, history>>

\* Mutant: a second holder is not refused.
AcquireSharedLock(p) ==
  /\ pc[p] = "checked"
  /\ lock' = p
  /\ Goto(p, "locked", {})
  /\ UNCHANGED <<disk, op, bk, seen, running, bounds, history>>

AcquireSummitLock(p) ==
  /\ pc[p] = "checked"
  /\ lock = Nobody
  /\ lock' = p
  /\ Goto(p, "locked", {})
  /\ UNCHANGED <<disk, op, bk, seen, running, bounds, history>>

RefuseHeldLock(p) ==
  /\ pc[p] = "checked"
  /\ lock # Nobody
  /\ EndCommand(p)
  /\ UNCHANGED <<disk, running, bounds, history>>

-----------------------------------------------------------------------------
(* checkpoint install: create_backup, backup_current_state,                *)
(* install_new_state, update_receipt.                                      *)

CreateBackup(p) ==
  /\ pc[p] = "cleared"
  /\ op[p] = "install"
  /\ receipt' = [receipt EXCEPT ![bk[p]] = "installing"]
  /\ previous' = [previous EXCEPT ![bk[p]] = {i \in Flagged : live[i] # Absent}]
  /\ seen' = [seen EXCEPT ![p] = "installing"]
  /\ Goto(p, "backup_reth", RethItems)
  /\ snapshot' = [snapshot EXCEPT ![bk[p]] = live]
  /\ compromised' = compromised \cup OtherInterrupted(bk[p])
  /\ UNCHANGED <<live, saved, op, bk, world, bounds>>

\* move_path from the live path into the backup.
MoveToBackup(p, i) ==
  /\ At(p, BackupPcs, i)
  /\ i \in Moved
  /\ PreviousExists(p, i) \/ i \in Children
  /\ saved' = [saved EXCEPT ![bk[p]][i] = live[i]]
  /\ live' = [live EXCEPT ![i] = Absent]
  /\ ItemDone(p, i)
  /\ UNCHANGED <<receipt, previous, op, bk, seen, world, bounds, history>>

\* shutil.copy2: the copy is opened, and later holds the whole file.
BeginCopy(p, i) ==
  /\ At(p, {"backup_rest"}, i)
  /\ i \in PrivateFiles
  /\ PreviousExists(p, i)
  /\ ~InBackup(p, i)
  /\ saved' = [saved EXCEPT ![bk[p]][i] = Torn]
  /\ UNCHANGED <<live, receipt, previous, process, world, bounds, history>>

FinishCopy(p, i) ==
  /\ At(p, {"backup_rest"}, i)
  /\ i \in PrivateFiles
  /\ InBackup(p, i)
  /\ saved' = [saved EXCEPT ![bk[p]][i] = live[i]]
  /\ ItemDone(p, i)
  /\ UNCHANGED <<live, receipt, previous, op, bk, seen, world, bounds, history>>

SkipMissing(p, i) ==
  /\ At(p, {"backup_reth", "backup_rest"}, i)
  /\ ~PreviousExists(p, i)
  /\ ItemDone(p, i)
  /\ UNCHANGED <<disk, op, bk, seen, world, bounds, history>>

\* move_path out of the stage, or atomic_write of a startup file.
InstallItem(p, i) ==
  /\ At(p, {"install"}, i)
  /\ i \in Moved => live[i] = Absent
  /\ live' = [live EXCEPT ![i] = bk[p]]
  /\ ItemDone(p, i)
  /\ UNCHANGED <<saved, receipt, previous, op, bk, seen, world, bounds, history>>

\* move_path refuses a destination that exists.
RefuseInstallItem(p, i) ==
  /\ At(p, {"install"}, i)
  /\ i \in Moved
  /\ live[i] # Absent
  /\ Raise(p)
  /\ UNCHANGED <<disk, running, bounds, snapshot>>

MarkInstalled(p) ==
  /\ pc[p] = "seal_install"
  /\ receipt' = [receipt EXCEPT ![bk[p]] = "installed"]
  /\ EndCommand(p)
  /\ UNCHANGED <<live, saved, previous, running, bounds, history>>

-----------------------------------------------------------------------------
(* restore_backup, run by `checkpoint rollback` and by a failed install.   *)

BeginRollback(p) ==
  /\ pc[p] = "cleared"
  /\ op[p] = "rollback"
  /\ Goto(p, "restore_reth", RethItems)
  /\ compromised' = compromised \cup OtherInterrupted(bk[p])
  /\ UNCHANGED <<disk, op, bk, seen, world, bounds, snapshot>>

\* Mutant: live items go whether or not the backup can replace them.
RemovesAlways(p, i) == TRUE

\* The live item goes when the backup replaces it or nothing preceded it.
Removes(p, i) == InBackup(p, i) \/ ~PreviousExists(p, i)

\* The restore has found i in the backup: it removes the live item, and what
\* it saw is not looked at again.
Replaces(p, i) == pc[p] # "wipe" /\ InBackup(p, i)

\* remove_path on a tree: some of it goes first ...
BeginRemove(p, i) ==
  /\ \/ At(p, {"restore_reth", "restore_rest"}, i) /\ i \in Moved /\ Removes(p, i)
     \/ At(p, {"wipe"}, i)
  /\ live[i] \notin {Absent, Torn}
  /\ live' = [live EXCEPT ![i] = Torn]
  /\ Goto(p, IF Replaces(p, i) THEN "move_back" ELSE pc[p], todo[p])
  /\ UNCHANGED <<saved, receipt, previous, op, bk, seen, world, bounds, history>>

\* ... then the rest.  Of what is not there remove_path takes nothing.
FinishRemove(p, i) ==
  /\ \/ At(p, {"restore_reth", "restore_rest"}, i) /\ i \in Moved /\ Removes(p, i)
     \/ At(p, {"wipe", "move_back"}, i)
  /\ \/ live[i] = Torn
     \/ live[i] = Absent /\ Replaces(p, i) /\ pc[p] # "move_back"
  /\ live' = [live EXCEPT ![i] = Absent]
  /\ IF Replaces(p, i) \/ pc[p] = "move_back"
     THEN Goto(p, "move_back", todo[p]) ELSE ItemDone(p, i)
  /\ UNCHANGED <<saved, receipt, previous, op, bk, seen, world, bounds, history>>

\* move_path from the backup to the live path.
MoveBack(p, i) ==
  /\ At(p, {"restore_summit", "move_back"}, i)
  /\ i \in Moved
  /\ InBackup(p, i)
  /\ live[i] = Absent
  /\ live' = [live EXCEPT ![i] = saved[bk[p]][i]]
  /\ saved' = [saved EXCEPT ![bk[p]][i] = Absent]
  /\ Goto(p, IF pc[p] # "move_back" THEN pc[p]
             ELSE IF i \in RethItems THEN "restore_reth" ELSE "restore_rest",
          todo[p] \ {i})
  /\ UNCHANGED <<receipt, previous, op, bk, seen, world, bounds, history>>

\* remove_path is done, and move_path finds the destination or no source.
CannotMove(p, i) ==
  /\ At(p, {"restore_summit", "move_back"}, i)
  /\ pc[p] = "move_back" => live[i] # Torn
  /\ live[i] # Absent \/ ~InBackup(p, i)

\* Mutant: a conflict is passed over, and the receipt sealed in the end.
PassOverMoveBack(p, i) ==
  /\ CannotMove(p, i)
  /\ Goto(p, IF pc[p] # "move_back" THEN pc[p]
             ELSE IF i \in RethItems THEN "restore_reth" ELSE "restore_rest",
          todo[p] \ {i})
  /\ UNCHANGED <<disk, op, bk, seen, world, bounds, history>>

RefuseMoveBack(p, i) ==
  /\ CannotMove(p, i)
  /\ Raise(p)
  /\ UNCHANGED <<disk, running, bounds, snapshot>>

\* atomic_write of a saved startup file, or its removal.
RestoreFile(p, i) ==
  /\ At(p, {"restore_rest"}, i)
  /\ i \in PrivateFiles
  /\ Removes(p, i)
  /\ live' = [live EXCEPT ![i] = saved[bk[p]][i]]
  /\ ItemDone(p, i)
  /\ UNCHANGED <<saved, receipt, previous, op, bk, seen, world, bounds, history>>

LeaveItem(p, i) ==
  /\ At(p, {"restore_reth", "restore_rest"}, i)
  /\ ~InBackup(p, i)
  /\ PreviousExists(p, i) \/ (i \in Moved /\ live[i] = Absent)
  /\ ItemDone(p, i)
  /\ UNCHANGED <<disk, op, bk, seen, world, bounds, history>>

\* Mutant: a receipt state no other command knows.
MarkRestoredMisspelt(p) ==
  /\ pc[p] = "seal_restore"
  /\ receipt' = [receipt EXCEPT ![bk[p]] = "rolled_back"]
  /\ EndCommand(p)
  /\ UNCHANGED <<live, saved, previous, running, bounds, history>>

\* update_receipt creates the backup directory again if it has gone.
MarkRestored(p) ==
  /\ pc[p] = "seal_restore"
  /\ receipt' = [receipt EXCEPT ![bk[p]] =
       IF op[p] = "install" THEN "automatically-rolled-back" ELSE "rolled-back"]
  /\ EndCommand(p)
  /\ UNCHANGED <<live, saved, previous, running, bounds, history>>

-----------------------------------------------------------------------------
(* Leaving one loop for the next; directory listings are taken here. *)

\* Mutant: the Summit directory is not emptied before the install.
NextPcSkipsSummit ==
          [backup_reth  |-> "backup_rest",   backup_summit  |-> "backup_rest",
           backup_rest  |-> "install",       install        |-> "seal_install",
           restore_reth |-> "wipe",          wipe           |-> "restore_summit",
           restore_rest |-> "seal_restore",  restore_summit |-> "restore_rest"]

NextPc == [backup_reth  |-> "backup_summit", backup_summit  |-> "backup_rest",
           backup_rest  |-> "install",       install        |-> "seal_install",
           restore_reth |-> "wipe",          wipe           |-> "restore_summit",
           restore_rest |-> "seal_restore",  restore_summit |-> "restore_rest"]

\* Mutant: remove_new_summit_state with its condition the wrong way round.
ListingSwapped(p, label) ==
  CASE label = "backup_summit"  -> {c \in Children : live[c] # Absent}
    [] label = "wipe"           -> {c \in Children : live[c] # Absent /\
                                                     seen[p] = "installing"}
    [] label = "restore_summit" -> {c \in Children : InBackup(p, c)}
    [] label \in {"backup_rest", "restore_rest"} -> OtherItems
    [] label = "install"        -> Flagged
    [] OTHER                    -> {}

Listing(p, label) ==
  CASE label = "backup_summit"  -> {c \in Children : live[c] # Absent}
    [] label = "wipe"           -> {c \in Children : live[c] # Absent /\
                                                     seen[p] # "installing"}
    [] label = "restore_summit" -> {c \in Children : InBackup(p, c)}
    [] label \in {"backup_rest", "restore_rest"} -> OtherItems
    [] label = "install"        -> Flagged
    [] OTHER                    -> {}

NextLoop(p) ==
  /\ pc[p] \in DOMAIN NextPc
  /\ todo[p] = {}
  /\ Goto(p, NextPc[pc[p]], Listing(p, NextPc[pc[p]]))
  /\ UNCHANGED <<disk, op, bk, seen, world, bounds, history>>

-----------------------------------------------------------------------------
(* checkpoint delete-backup: no lock, no check of the services. *)

\* Mutant: an interrupted install's backup may be deleted.
StartDeleteInterrupted(p, b) ==
  /\ pc[p] = "idle"
  /\ "delete" \in Operations
  /\ receipt[b] # "absent"
  /\ Goto(p, "confirm_delete", {})
  /\ op' = [op EXCEPT ![p] = "delete"]
  /\ bk' = [bk EXCEPT ![p] = b]
  /\ seen' = [seen EXCEPT ![p] = receipt[b]]
  /\ UNCHANGED <<disk, world, bounds, history>>

StartDelete(p, b) ==
  /\ pc[p] = "idle"
  /\ "delete" \in Operations
  /\ receipt[b] \in {"installed", "rolled-back", "automatically-rolled-back"}
  /\ Goto(p, "confirm_delete", {})
  /\ op' = [op EXCEPT ![p] = "delete"]
  /\ bk' = [bk EXCEPT ![p] = b]
  /\ seen' = [seen EXCEPT ![p] = receipt[b]]
  /\ UNCHANGED <<disk, world, bounds, history>>

\* The rename takes the whole backup away from its name.
DeleteBackup(p) ==
  /\ pc[p] = "confirm_delete"
  /\ receipt[bk[p]] # "absent"
  /\ receipt' = [receipt EXCEPT ![bk[p]] = "absent"]
  /\ saved' = [saved EXCEPT ![bk[p]] = Nothing]
  /\ compromised' = compromised \cup {bk[p]}
  /\ EndCommand(p)
  /\ UNCHANGED <<live, previous, running, bounds, snapshot>>

\* The deletion is cut off: rmtree has taken all of some items and a part of
\* one tree, and what is left has its receipt, under a name of its own.
\* Bound: one such directory for each backup; deleting it is not cut off.
CutDeletion(p) ==
  /\ mishaps < MaxMishaps
  /\ mishaps' = mishaps + 1
  /\ pc[p] = "confirm_delete"
  /\ bk[p] \in Installs
  /\ receipt[bk[p]] # "absent"
  /\ receipt[Leftover(bk[p])] = "absent"
  /\ \A r \in Commands : bk[r] # Leftover(bk[p])
  /\ receipt' = [receipt EXCEPT ![bk[p]] = "absent",
                               ![Leftover(bk[p])] = receipt[bk[p]]]
  /\ previous' = [previous EXCEPT ![Leftover(bk[p])] = previous[bk[p]]]
  /\ \E left \in Leavings, cut \in Moved :
       saved' = [saved EXCEPT ![bk[p]] = Nothing, ![Leftover(bk[p])] =
                   [i \in Items |-> IF i \in left THEN saved[bk[p]][i]
                                   ELSE IF i = cut /\ InBackup(p, i) THEN Torn
                                   ELSE Absent]]
  /\ compromised' = compromised \cup {bk[p], Leftover(bk[p])}
  /\ EndCommand(p)
  /\ UNCHANGED <<live, running, installs, snapshot>>

RefuseDelete(p) ==
  /\ pc[p] = "confirm_delete"
  /\ receipt[bk[p]] = "absent"
  /\ EndCommand(p)
  /\ UNCHANGED <<disk, running, bounds, history>>

-----------------------------------------------------------------------------
(* Node programs, failures, and the specification. *)

\* A Summit program takes the lock or does not run; Reth has no lock.
StartProgram(q) ==
  /\ q \notin running
  /\ IF q \in LockTaking THEN lock = Nobody /\ lock' = q ELSE lock' = lock
  /\ running' = running \cup {q}
  /\ live' = [i \in Items |->
                IF i \in Owns[q] /\ live[i] = Absent THEN Fresh ELSE live[i]]
  /\ UNCHANGED <<saved, receipt, previous, process, bounds, history>>

StopProgram(q) ==
  /\ q \in running
  /\ running' = running \ {q}
  /\ lock' = IF lock = q THEN Nobody ELSE lock
  /\ UNCHANGED <<disk, process, bounds, history>>

\* An I/O error inside the try block of an install that has a receipt.
IoError(p) ==
  /\ mishaps < MaxMishaps
  /\ mishaps' = mishaps + 1
  /\ pc[p] \in InstallPcs
  /\ Raise(p)
  /\ UNCHANGED <<disk, running, installs, snapshot>>

\* SIGKILL, power loss, Ctrl-C (which no handler catches), a declined
\* confirmation, or an I/O error anywhere else.
Kill(p) ==
  /\ mishaps < MaxMishaps
  /\ mishaps' = mishaps + 1
  /\ pc[p] # "idle"
  /\ Stop(p)
  /\ UNCHANGED <<disk, running, installs, snapshot>>

ItemStep(p, i) ==
  \/ MoveToBackup(p, i)  \/ BeginCopy(p, i)      \/ FinishCopy(p, i)
  \/ SkipMissing(p, i)   \/ InstallItem(p, i)    \/ RefuseInstallItem(p, i)
  \/ BeginRemove(p, i)   \/ FinishRemove(p, i)   \/ MoveBack(p, i)
  \/ RefuseMoveBack(p, i) \/ RestoreFile(p, i)   \/ LeaveItem(p, i)

\* The next system call of a command that has begun.
CommandStep(p) ==
  \/ RequireServicesStopped(p) \/ RefuseRunningServices(p)
  \/ AcquireSummitLock(p)      \/ RefuseHeldLock(p)
  \/ CreateBackup(p)           \/ BeginRollback(p)
  \/ NextLoop(p)               \/ \E i \in Items : ItemStep(p, i)
  \/ MarkInstalled(p)          \/ MarkRestored(p)
  \/ DeleteBackup(p)           \/ RefuseDelete(p)

Operator(p) ==
  \/ StartInstall(p)
  \/ \E b \in Backups : StartRollback(p, b) \/ StartDelete(p, b)

Next ==
  \/ \E p \in Commands : \/ Operator(p) \/ CommandStep(p)
                          \/ IoError(p)  \/ Kill(p)        \/ CutDeletion(p)
  \/ \E q \in Programs : StartProgram(q) \/ StopProgram(q)

Spec == Init /\ [][Next]_vars

\* A command that has begun keeps running: nothing in it blocks.
FairSpec == Spec /\ \A p \in Commands : WF_vars(CommandStep(p))

-----------------------------------------------------------------------------
(* Properties. *)

\* While a command holds itself entitled to move state (it is past
\* acquire_summit_lock), no other command is, and no Summit program runs.
LockExclusion ==
  \A p \in Commands : pc[p] \in LockedPcs =>
    /\ \A r \in Commands \ {p} : pc[r] \notin LockedPcs
    /\ running \cap LockTaking = {}

\* Everything that existed when receipt b was written, and was moved rather
\* than copied, is back at its path, and nothing of checkpoint b is left.
Restored(b) ==
  /\ \A i \in Moved : snapshot[b][i] # Absent => live[i] = snapshot[b][i]
  /\ \A i \in Items : live[i] # b

\* install_checkpoint writes "installed" only over one complete matching set:
\* every live item is checkpoint b's, no old Summit state is left beside it,
\* and the backup holds every previous item whole.
InstalledIsMatched ==
  [][\A b \in Installs :
       receipt'[b] = "installed" /\ receipt[b] # "installed" =>
         /\ \A i \in Flagged : live[i] = b
         /\ \A c \in Children : live[c] = Absent
         /\ saved[b] = snapshot[b]]_vars

\* A failed install that reports "automatically-rolled-back" has restored
\* the state it found, whatever the step that failed.
AutomaticRollbackRestores ==
  [][\A b \in Installs :
       receipt'[b] = "automatically-rolled-back" /\ receipt[b] # receipt'[b]
         => Restored(b)]_vars

\* A rollback that reports "rolled-back" has restored the state of before the
\* install, from a finished and from an interrupted install alike, provided
\* nothing but that install and this rollback touched the backup.
RollbackRestores ==
  [][\A b \in Backups \ compromised :
       receipt[b] \in {"installing", "installed"} /\ receipt'[b] = "rolled-back"
         => Restored(b)]_vars

\* A restore of an untouched backup, by the receipt still in force, finds what
\* it is about to move back, and nothing in its way, once it has removed what
\* it replaces, but what a program has created since: Reth's trees, or Summit
\* entries after an interruption.
RestoreIsUnobstructed ==
  \A p \in Commands, i \in Items :
    At(p, {"restore_summit", "move_back"}, i)
      /\ bk[p] \notin compromised /\ seen[p] = receipt[bk[p]] =>
        /\ InBackup(p, i)
        /\ live[i] # Absent /\ (pc[p] = "move_back" => live[i] # Torn) =>
             live[i] = Fresh /\ (i \in RethItems \/ seen[p] = "installing")

\* Until another transaction moves state, an interrupted install has lost
\* nothing: every renamed item is whole, at its path or in the backup.
InterruptedInstallIsRecoverable ==
  \A b \in Backups \ compromised : receipt[b] = "installing" =>
    \A i \in Moved : snapshot[b][i] # Absent =>
      snapshot[b][i] \in {live[i], saved[b][i]}

\* A receipt never returns to a state rollback accepts once it has left it,
\* and an interrupted-install backup is never deleted, however old the
\* receipt a command still holds in memory.
ReceiptLifecycle ==
  [][\A b \in Backups :
       /\ receipt[b] = "installing" =>
            receipt'[b] \in ReceiptStates \ {"absent"}
       /\ receipt[b] \in {"rolled-back", "automatically-rolled-back"} =>
            receipt'[b] \notin {"installing", "installed"}
       /\ receipt[b] = "installed" =>
            receipt'[b] \notin {"installing", "automatically-rolled-back"}]_vars

\* Every command ends, having released the lock: no refusal, conflict or
\* vanished backup leaves one stuck.
CommandsFinish ==
  \A p \in Commands : pc[p] # "idle" ~> pc[p] = "idle" /\ lock # p
=============================================================================
