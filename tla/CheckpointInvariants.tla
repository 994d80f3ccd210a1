----------------------- MODULE CheckpointInvariants ------------------------
(***************************************************************************)
(* The inductive invariant behind the theorems of                          *)
(* CheckpointTransactionProofs, in named parts.                            *)
(***************************************************************************)
EXTENDS CheckpointTransaction

PreparePcs == {"prepared", "checked", "locked", "cleared"}
ActivePcs  == InstallPcs \cup RestorePcs

\* Where command p can be, and what its loop may still visit.
Control(p) ==
  /\ op[p] = "none" <=> pc[p] = "idle"
  /\ op[p] = "none" <=> bk[p] = NoBackup
  /\ op[p] = "delete" <=> pc[p] = "confirm_delete"
  /\ pc[p] \in InstallPcs => op[p] = "install"
  /\ op[p] = "install" /\ pc[p] \in ActivePcs => seen[p] = "installing"
  /\ op[p] = "rollback" => seen[p] \in {"installing", "installed"}
  /\ pc[p] \in {"backup_reth", "restore_reth"} => todo[p] \subseteq RethItems
  /\ pc[p] \in {"backup_summit", "wipe", "restore_summit"} =>
       todo[p] \subseteq Children
  /\ pc[p] \in {"backup_rest", "restore_rest"} => todo[p] \subseteq OtherItems
  /\ pc[p] = "install" => todo[p] \subseteq Flagged
  /\ pc[p] = "move_back" =>
       \/ todo[p] \subseteq RethItems /\ todo[p] # {}
       \/ todo[p] \subseteq OtherItems /\ "checkpoint" \in todo[p]
  /\ pc[p] = "wipe" /\ seen[p] = "installing" => todo[p] = {}
  /\ pc[p] = "seal_restore" => todo[p] = {}

ControlInv == \A p \in Commands : Control(p)

\* The lock belongs to the one command past acquire_summit_lock, or to the
\* one Summit program that runs.
LockInv ==
  /\ \A p \in Commands : pc[p] \in LockedPcs => lock = p
  /\ \A q \in running \cap LockTaking : lock = q

\* Nothing of backup b exists yet.
Unborn(b) ==
  /\ receipt[b] = "absent"
  /\ saved[b] = Nothing
  /\ b \notin compromised
  /\ \A i \in Items : /\ live[i] # b
                      /\ \A c \in Backups : saved[c][i] # b /\ snapshot[c][i] # b

\* A backup belongs to one install, which alone knows it until it exists.
BirthInv ==
  /\ \A b \in Installs : b > installs =>
       Unborn(b) /\ \A p \in Commands : bk[p] # b
  /\ \A p \in Commands : op[p] = "install" =>
       /\ bk[p] \in Installs
       /\ pc[p] \in PreparePcs => Unborn(bk[p])
  /\ \A p \in Commands : \A r \in Commands \ {p} :
       op[p] = "install" /\ bk[r] = bk[p] =>
         pc[p] \notin PreparePcs /\ op[r] # "install"

\* What a command remembers of a receipt, against what the receipt says.
ReceiptInv ==
  \A p \in Commands :
    /\ op[p] = "install" /\ pc[p] \in ActivePcs =>
         receipt[bk[p]] = "installing" /\ bk[p] \notin compromised
    /\ op[p] = "delete" => receipt[bk[p]] # "installing"
    /\ op[p] = "rollback" /\ seen[p] = "installed" =>
         receipt[bk[p]] # "installing"

\* While a command moves state, no other interrupted install is intact.
OtherInv ==
  \A p \in Commands, b \in Backups :
    pc[p] \in ActivePcs /\ b # bk[p] /\ receipt[b] = "installing" =>
      b \in compromised

\* Where checkpoint data can be, and what the receipt's flags mean.
ChildInv ==
  \A c \in Children :
    /\ live[c] \notin Backups
    /\ \A b \in Backups : saved[b][c] \notin Backups /\ snapshot[b][c] \notin Backups

FlagInv ==
  \A b \in Backups \ compromised : receipt[b] \in {"installing", "installed"} =>
    /\ \A i \in Items : snapshot[b][i] # b /\ saved[b][i] # b
    /\ \A i \in Flagged : i \in previous[b] <=> snapshot[b][i] # Absent

\* Item i is still to be backed up by install p.
Pending(p, i) ==
  /\ pc[p] \in BackupPcs
  /\ \/ i \in todo[p]
     \/ pc[p] = "backup_reth" /\ i \notin RethItems
     \/ pc[p] = "backup_summit" /\ i \in OtherItems

\* Item i has been put in place by install p.
InPlace(p, i) ==
  /\ i \in Flagged
  /\ pc[p] = "seal_install" \/ (pc[p] = "install" /\ i \notin todo[p])

\* How far install p has come with item i.
InstallProgress(p, i) ==
  /\ InPlace(p, i) => live[i] = bk[p]
  /\ ~InPlace(p, i) => live[i] # bk[p]
  /\ ~Pending(p, i) => /\ saved[bk[p]][i] = snapshot[bk[p]][i]
                       /\ i \in Children => live[i] = Absent
  /\ i \in Moved /\ Pending(p, i) =>
       /\ saved[bk[p]][i] = Absent
       /\ snapshot[bk[p]][i] # Absent \/ i \in Children =>
            live[i] = snapshot[bk[p]][i]
  /\ i \in PrivateFiles /\ ~InPlace(p, i) => live[i] = snapshot[bk[p]][i]
  /\ i \in PrivateFiles /\ Pending(p, i) =>
       \/ saved[bk[p]][i] = Absent
       \/ saved[bk[p]][i] = Torn /\ snapshot[bk[p]][i] # Absent

InstallInv ==
  \A p \in Commands : pc[p] \in InstallPcs =>
    \A i \in Items : InstallProgress(p, i)

\* What an interrupted install leaves to restore from.
Recoverable(b, i) ==
  /\ i \in Moved =>
       /\ saved[b][i] \in {Absent, snapshot[b][i]}
       /\ snapshot[b][i] # Absent => snapshot[b][i] \in {live[i], saved[b][i]}
  /\ i \in Flagged /\ live[i] = b => i \notin previous[b] \/ saved[b][i] # Absent

InterruptedInv ==
  \A b \in Backups \ compromised : receipt[b] = "installing" =>
    \A i \in Items : Recoverable(b, i)

\* A finished install's backup is whole until a rollback of it begins.
InstalledInv ==
  \A b \in Backups \ compromised :
    receipt[b] = "installed"
      /\ (\A p \in Commands : bk[p] = b => pc[p] \notin RestorePcs)
    => saved[b] = snapshot[b]

\* Item i is still to be restored by p.
Undealt(p, i) ==
  \/ i \in todo[p] /\ pc[p] # "wipe"
  \/ pc[p] \in {"restore_reth", "wipe"} /\ i \notin RethItems
  \/ pc[p] = "restore_summit" /\ i \in OtherItems
  \/ pc[p] = "move_back" /\ todo[p] \subseteq RethItems /\ i \notin RethItems

\* How far the restore of an untouched backup has come with item i.
RestoreProgress(p, i) ==
  /\ ~Undealt(p, i) =>
       /\ live[i] # bk[p]
       /\ i \in Moved /\ snapshot[bk[p]][i] # Absent =>
            live[i] = snapshot[bk[p]][i]
  /\ receipt[bk[p]] = "installed" /\ (i \in PrivateFiles \/ Undealt(p, i)) =>
       saved[bk[p]][i] = snapshot[bk[p]][i]
  /\ At(p, {"move_back"}, i) => InBackup(p, i)

RestoreInv ==
  \A p \in Commands :
    pc[p] \in RestorePcs /\ bk[p] \notin compromised
      /\ receipt[bk[p]] \in {"installing", "installed"} =>
    \A i \in Items : RestoreProgress(p, i)

IndInv ==
  /\ TypeOK         /\ ControlInv    /\ LockInv     /\ BirthInv
  /\ ReceiptInv     /\ OtherInv      /\ ChildInv    /\ FlagInv
  /\ InstallInv     /\ InterruptedInv
  /\ InstalledInv   /\ RestoreInv

-----------------------------------------------------------------------------
(* More of the same, which IndInv does not need.                           *)

\* The ways of the items restore p is to move back are free ...
Way(p) ==
  /\ pc[p] = "wipe" /\ seen[p] = "installed" =>
       \A c \in Children \ todo[p] : live[c] = Absent
  /\ pc[p] = "restore_summit" /\ seen[p] = "installed" =>
       \A c \in todo[p] : live[c] = Absent
  /\ pc[p] = "restore_summit" /\ bk[p] \notin compromised =>
       \A c \in todo[p] : InBackup(p, c)
  /\ \A i \in Items : At(p, {"move_back"}, i) =>
       /\ live[i] \in {Absent, Torn} \/ (live[i] = Fresh /\ i \in RethItems)
       /\ bk[p] \notin compromised => InBackup(p, i)

WayInv == \A p \in Commands : Way(p)

\* ... after an interrupted install up to what Summit has created.
EntryInv ==
  \A b \in Backups \ compromised : receipt[b] = "installing" =>
    \A c \in Children : saved[b][c] # Absent => live[c] \in {Absent, Fresh}

\* Startup files are found as they were, as far as their copies are whole.
FileInv ==
  \A b \in Backups \ compromised : receipt[b] = "installing" =>
    \A i \in PrivateFiles :
      /\ saved[b][i] \in {Absent, Torn, snapshot[b][i]}
      /\ live[i] \in {snapshot[b][i], saved[b][i], b}
      /\ i \in previous[b] /\ saved[b][i] = Absent => live[i] = snapshot[b][i]

\* A restore that is through with a startup file has written its copy back.
FilesBack(p) ==
  pc[p] \in RestorePcs /\ bk[p] \notin compromised =>
    \A i \in PrivateFiles :
      ~Undealt(p, i) /\ Removes(p, i) => live[i] = saved[bk[p]][i]

RestInv == WayInv /\ EntryInv /\ FileInv /\ \A p \in Commands : FilesBack(p)

\* Where an interrupted install found nothing there is its own, or what Reth,
\* started since, has created.
FoundAbsentInv ==
  \A b \in Backups \ compromised : receipt[b] = "installing" =>
    \A i \in Flagged \cap Moved : i \notin previous[b] =>
      live[i] \in {Absent, Torn, b} \/ (live[i] = Fresh /\ i \in RethItems)

-----------------------------------------------------------------------------
(* How far a command is from its end.                                      *)

StageOf == [idle           |-> 0,  confirm_delete |-> 1,  seal_restore |-> 1,
            restore_rest   |-> 2,  restore_summit |-> 3,  wipe         |-> 4,
            restore_reth   |-> 5,  seal_install   |-> 6,  install      |-> 7,
            backup_rest    |-> 8,  backup_summit  |-> 9,  backup_reth  |-> 10,
            cleared        |-> 11, locked         |-> 12, checked      |-> 13,
            prepared       |-> 14]

\* An item that makes way for its predecessor belongs to the loop that found
\* it.
Stage(p) ==
  IF pc[p] # "move_back" THEN StageOf[pc[p]]
  ELSE IF todo[p] \cap RethItems # {} THEN StageOf["restore_reth"]
  ELSE StageOf["restore_rest"]

\* How often p's loop has still to come to item i: to copy it, or to remove it
\* (an empty path may be filled by a program until then).
Phase(p, i) ==
  IF pc[p] \in BackupPcs THEN IF InBackup(p, i) THEN 0 ELSE 1
  ELSE IF pc[p] = "move_back" THEN IF live[i] = Torn THEN 1 ELSE 0
  ELSE IF pc[p] \notin {"restore_reth", "wipe", "restore_rest"} THEN 0
  ELSE IF live[i] = Absent THEN 3
  ELSE IF live[i] = Torn THEN 1 ELSE 2

\* p comes closer to its end: in a later stage, with fewer items, or with the
\* same items of which one is further on.  The order is well-founded as long as
\* Summit's directory is finite.
Closer(p) ==
  \/ Stage(p)' < Stage(p)
  \/ /\ Stage(p)' = Stage(p)
     /\ \/ todo'[p] \subseteq todo[p] /\ todo'[p] # todo[p]
        \/ /\ todo'[p] = todo[p]
           /\ \A i \in todo[p] : Phase(p, i)' <= Phase(p, i)
           /\ \E i \in todo[p] : Phase(p, i)' < Phase(p, i)

NoFarther(p) ==
  /\ Stage(p)' = Stage(p)
  /\ todo'[p] = todo[p]
  /\ \A i \in todo[p] : Phase(p, i)' <= Phase(p, i)

\* The code has something to do for p: its guards, at each place.
HasStep(p) ==
  \/ pc[p] \in {"prepared", "checked", "locked", "confirm_delete",
               "seal_install", "seal_restore"}
  \/ pc[p] = "cleared" /\ op[p] \in {"install", "rollback"}
  \/ pc[p] \in DOMAIN NextPc /\ todo[p] = {}
  \/ \E i \in Items :
       /\ At(p, DOMAIN NextPc \cup {"move_back"}, i)
       /\ pc[p] \in {"backup_reth", "restore_reth", "restore_summit", "move_back"} =>
            i \in Moved
       /\ pc[p] = "backup_summit" => i \in Children
       /\ pc[p] = "wipe" => live[i] # Absent

\* The listing that is wiped is gone through once.
ListedInv ==
  \A p \in Commands : pc[p] = "wipe" => \A c \in todo[p] : live[c] # Absent
=============================================================================
