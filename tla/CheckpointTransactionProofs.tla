-------------------- MODULE CheckpointTransactionProofs --------------------
(***************************************************************************)
(* Theorems about CheckpointTransaction, for any number of commands,       *)
(* programs, installs, kills and Summit directory entries.                 *)
(***************************************************************************)
EXTENDS CheckpointInvariants, TLAPS

-----------------------------------------------------------------------------
(* Facts about the sets and the control flow. *)

\* How the sets of items of checkpoint.py's layout relate.
LEMMA ItemFacts ==
  /\ RethItems \subseteq Flagged /\ OtherItems \subseteq Flagged
  /\ PrivateFiles \subseteq OtherItems
  /\ Flagged = RethItems \cup OtherItems
  /\ RethItems \cap OtherItems = {}
  /\ Items = Flagged \cup Children /\ Children \cap Flagged = {}
  /\ Moved = Items \ PrivateFiles
  /\ RethItems \subseteq Moved /\ Children \subseteq Moved
  /\ "checkpoint" \in Moved /\ "checkpoint" \in OtherItems
  BY ItemsAssumption
  DEF RethItems, PrivateFiles, OtherItems, Flagged, Items, Moved

\* How the sets of program counters relate, and where loops lead.
LEMMA PcFacts ==
  /\ InstallPcs \subseteq LockedPcs /\ RestorePcs \subseteq LockedPcs
  /\ LockedPcs \subseteq Pcs
  /\ InstallPcs \cap RestorePcs = {}
  /\ BackupPcs \subseteq InstallPcs
  /\ DOMAIN NextPc \subseteq LockedPcs
  /\ \A l \in DOMAIN NextPc : NextPc[l] \in LockedPcs
  BY DEF Pcs, LockedPcs, InstallPcs, RestorePcs, BackupPcs, NextPc

\* A loop visits items only.
LEMMA ListingType ==
  ASSUME NEW p \in Commands, NEW l
  PROVE  Listing(p, l) \in SUBSET Items
  BY ItemFacts DEF Listing

\* Every named content is a content.
LEMMA DataFacts ==
  /\ Absent \in Data /\ Torn \in Data /\ Original \in Data /\ Fresh \in Data
  /\ Backups \subseteq Data
  BY DEF Data

\* What is left of a deletion is a backup, and not an install's.
LEMMA InstallsAreBackups ==
  /\ Installs \subseteq Backups
  /\ \A b \in Installs : /\ Leftover(b) \in Backups
                         /\ Leftover(b) \notin Installs /\ Leftover(b) # b
  BY BoundsAssumption DEF Installs, Backups, Leftover

\* An empty backup has a content, Absent, for every item.
LEMMA NothingType == Nothing \in [Items -> Data]
  BY DataFacts DEF Nothing

-----------------------------------------------------------------------------
(* Type correctness. *)

\* Moving to a label keeps the control variables typed.
LEMMA GotoType ==
  ASSUME TypeOK, NEW p \in Commands, NEW l \in Pcs, NEW w \in SUBSET Items,
         Goto(p, l, w)
  PROVE  /\ pc' \in [Commands -> Pcs]
         /\ todo' \in [Commands -> SUBSET Items]
  BY DEF TypeOK, Goto

\* The end of a process keeps the control variables typed.
LEMMA EndCommandType ==
  ASSUME TypeOK, NEW p \in Commands, EndCommand(p)
  PROVE  /\ pc' \in [Commands -> Pcs]
         /\ todo' \in [Commands -> SUBSET Items]
         /\ op' \in [Commands -> {"none", "install", "rollback", "delete"}]
         /\ bk' \in [Commands -> Backups \cup {NoBackup}]
         /\ seen' \in [Commands -> ReceiptStates]
         /\ lock' \in Commands \cup Programs \cup {Nobody}
<1>1. "idle" \in Pcs /\ {} \in SUBSET Items /\ "absent" \in ReceiptStates
  BY DEF Pcs, ReceiptStates
<1>2. Goto(p, "idle", {})
  BY DEF EndCommand
<1>3. pc' \in [Commands -> Pcs] /\ todo' \in [Commands -> SUBSET Items]
  BY <1>1, <1>2, GotoType
<1>. QED
  BY <1>1, <1>3 DEF TypeOK, EndCommand

\* A command that is not idle works on a backup.
LEMMA WorksOnBackup ==
  ASSUME TypeOK, ControlInv, NEW p \in Commands, pc[p] # "idle"
  PROVE  bk[p] \in Backups
  BY DEF TypeOK, ControlInv, Control

\* Stop and Raise leave the control variables well-typed.
LEMMA StopType ==
  ASSUME TypeOK, ControlInv, NEW p \in Commands, pc[p] # "idle",
         Stop(p) \/ Raise(p)
  PROVE  /\ pc' \in [Commands -> Pcs]
         /\ todo' \in [Commands -> SUBSET Items]
         /\ op' \in [Commands -> {"none", "install", "rollback", "delete"}]
         /\ bk' \in [Commands -> Backups \cup {NoBackup}]
         /\ seen' \in [Commands -> ReceiptStates]
         /\ lock' \in Commands \cup Programs \cup {Nobody}
         /\ compromised' \in SUBSET Backups
<1>1. CASE Stop(p)
  <2>1. compromised' \in SUBSET Backups
    BY <1>1, WorksOnBackup DEF Stop, TypeOK
  <2>. QED
    BY <1>1, <2>1, EndCommandType DEF Stop
<1>2. CASE ~Stop(p)
  <2>1. pc[p] \in InstallPcs /\ Goto(p, "restore_reth", RethItems)
        /\ UNCHANGED <<op, bk, seen, lock, compromised>>
    BY <1>2 DEF Raise
  <2>2. "restore_reth" \in Pcs /\ RethItems \in SUBSET Items
    BY PcFacts, ItemFacts DEF RestorePcs
  <2>. QED
    BY <2>1, <2>2, GotoType DEF TypeOK
<1>. QED
  BY <1>1, <1>2

\* One step of one command touches no other command's variables.
OthersUnchanged(p) ==
  \A r \in Commands \ {p} :
    /\ pc'[r] = pc[r] /\ op'[r] = op[r] /\ bk'[r] = bk[r]
    /\ seen'[r] = seen[r] /\ todo'[r] = todo[r]

\* Every step of a command but the end of a deletion that is cut off.
ActsAlone(p) == Operator(p) \/ CommandStep(p) \/ IoError(p) \/ Kill(p)

\* Moving a command leaves the other commands where they are.
LEMMA GotoFrame ==
  ASSUME TypeOK, NEW p \in Commands, NEW l, NEW w, Goto(p, l, w)
  PROVE  \A r \in Commands \ {p} : pc'[r] = pc[r] /\ todo'[r] = todo[r]
  BY DEF TypeOK, Goto

\* The end or the failure of a command leaves the others alone.
LEMMA EndFrame ==
  ASSUME TypeOK, NEW p \in Commands, EndCommand(p) \/ Stop(p) \/ Raise(p)
  PROVE  OthersUnchanged(p)
  BY GotoFrame DEF TypeOK, EndCommand, Stop, Raise, OthersUnchanged

\* No step of a command changes another command's own variables.
LEMMA CommandFrame ==
  ASSUME TypeOK, NEW p \in Commands, ActsAlone(p)
  PROVE  OthersUnchanged(p)
<1>1. CASE Operator(p)
  BY <1>1, GotoFrame DEF Operator, StartInstall, StartRollback, StartDelete,
     OthersUnchanged, TypeOK
<1>2. CASE IoError(p) \/ Kill(p)
  BY <1>2, EndFrame DEF IoError, Kill
<1>3. CASE \E i \in Items : ItemStep(p, i)
  BY <1>3, GotoFrame, EndFrame DEF ItemStep, MoveToBackup, BeginCopy, FinishCopy,
     SkipMissing, InstallItem, RefuseInstallItem, BeginRemove, FinishRemove,
     MoveBack, RefuseMoveBack, RestoreFile, LeaveItem, ItemDone, process,
     OthersUnchanged
<1>4. CASE /\ CommandStep(p)
           /\ ~\E i \in Items : ItemStep(p, i)
  BY <1>4, GotoFrame, EndFrame DEF CommandStep, RequireServicesStopped,
     RefuseRunningServices, AcquireSummitLock, RefuseHeldLock, CreateBackup,
     BeginRollback, NextLoop, MarkInstalled, MarkRestored, DeleteBackup,
     RefuseDelete, OthersUnchanged, TypeOK
<1>. QED
  BY <1>1, <1>2, <1>3, <1>4 DEF ActsAlone

-----------------------------------------------------------------------------
(* Type correctness and control, step by step.                             *)

\* The start of a command (its pre-checks) preserves the types.
LEMMA OperatorType ==
  ASSUME TypeOK, NEW p \in Commands, Operator(p)
  PROVE  TypeOK'
<1>1. "prepared" \in Pcs /\ "confirm_delete" \in Pcs /\ {} \in SUBSET Items
  BY DEF Pcs
<1>2. CASE StartInstall(p)
  <2>1. installs + 1 \in Backups /\ installs' \in 0 .. MaxInstalls
    BY <1>2, BoundsAssumption DEF StartInstall, TypeOK, Backups
  <2>. QED
    BY <1>1, <1>2, <2>1, GotoType
    DEF StartInstall, TypeOK, disk, world, history
<1>3. CASE \E b \in Backups : StartRollback(p, b) \/ StartDelete(p, b)
  <2>1. PICK b \in Backups : StartRollback(p, b) \/ StartDelete(p, b)
    BY <1>3
  <2>2. pc' \in [Commands -> Pcs] /\ todo' \in [Commands -> SUBSET Items]
    BY <1>1, <2>1, GotoType DEF StartRollback, StartDelete
  <2>3. receipt[b] \in ReceiptStates
    BY DEF TypeOK
  <2>4. /\ op' \in [Commands -> {"none", "install", "rollback", "delete"}]
        /\ bk' \in [Commands -> Backups \cup {NoBackup}]
        /\ seen' \in [Commands -> ReceiptStates]
        /\ UNCHANGED <<disk, world, bounds, history>>
    BY <2>1, <2>3 DEF StartRollback, StartDelete, TypeOK
  <2>. QED
    BY <2>2, <2>4 DEF TypeOK, disk, world, bounds, history
<1>. QED
  BY <1>2, <1>3 DEF Operator

\* The start of a command preserves the control invariant.
LEMMA OperatorControl ==
  ASSUME TypeOK, ControlInv, NEW p \in Commands, Operator(p)
  PROVE  ControlInv'
<1>1. NoBackup \notin Backups /\ (StartInstall(p) => installs + 1 \in Backups)
  BY BoundsAssumption DEF StartInstall, TypeOK, Backups, NoBackup
<1>2. Control(p)'
  BY <1>1 DEF Operator, StartInstall, StartRollback, StartDelete, Goto, TypeOK,
     ControlInv, Control, InstallPcs, BackupPcs, RestorePcs, ActivePcs
<1>3. OthersUnchanged(p)
  BY CommandFrame DEF ActsAlone
<1>. QED
  BY <1>2, <1>3 DEF ControlInv, Control, OthersUnchanged

\* Finishing an item keeps the control variables typed.
LEMMA ItemDoneType ==
  ASSUME TypeOK, NEW p \in Commands, NEW i \in Items, ItemDone(p, i)
  PROVE  /\ pc' \in [Commands -> Pcs]
         /\ todo' \in [Commands -> SUBSET Items]
<1>1. pc[p] \in Pcs /\ todo[p] \ {i} \in SUBSET Items
  BY DEF TypeOK
<1>. QED
  BY <1>1, GotoType DEF ItemDone

\* What a removal leaves of its item, and where the restore goes: to what it
\* has found in the backup, on with that, or nowhere else.
LEMMA RemoveEffect ==
  ASSUME TypeOK, NEW p \in Commands, NEW i \in Items,
         BeginRemove(p, i) \/ FinishRemove(p, i)
  PROVE  /\ UNCHANGED <<saved, receipt, previous, op, bk, seen, world, bounds, history>>
         /\ live'[i] \in {Absent, Torn} /\ i \in todo[p]
         /\ \/ /\ pc[p] \in {"restore_reth", "restore_rest"} /\ pc'[p] = "move_back"
               /\ todo'[p] = todo[p] /\ i \in Moved /\ InBackup(p, i)
            \/ /\ At(p, {"move_back"}, i) /\ pc'[p] = "move_back" /\ todo'[p] = todo[p]
            \/ /\ pc[p] \in {"restore_reth", "restore_rest"} /\ pc'[p] = pc[p]
               /\ i \in Moved /\ ~InBackup(p, i) /\ ~PreviousExists(p, i)
               /\ \/ BeginRemove(p, i) /\ todo'[p] = todo[p]
                  \/ FinishRemove(p, i) /\ todo'[p] = todo[p] \ {i}
            \/ /\ pc[p] = "wipe" /\ pc'[p] = "wipe"
               /\ \/ BeginRemove(p, i) /\ todo'[p] = todo[p]
                  \/ FinishRemove(p, i) /\ todo'[p] = todo[p] \ {i}
<1>. USE DEF TypeOK, Goto, At, Removes, Replaces
<1>1. CASE BeginRemove(p, i)
  BY <1>1 DEF BeginRemove
<1>2. CASE FinishRemove(p, i)
  BY <1>2 DEF FinishRemove, ItemDone
<1>. QED
  BY <1>1, <1>2

\* Nothing is removed but what can be renamed.
LEMMA RemovesMoved ==
  ASSUME TypeOK, ControlInv, NEW p \in Commands, NEW i \in Items,
         BeginRemove(p, i) \/ FinishRemove(p, i)
  PROVE  i \in Moved
<1>1. CASE pc[p] = "wipe"
  BY <1>1, RemoveEffect, ItemFacts DEF ControlInv, Control
<1>2. CASE At(p, {"move_back"}, i)
  <2>1. CASE todo[p] \subseteq RethItems
    BY <1>2, <2>1, ItemFacts DEF At
  <2>2. CASE "checkpoint" \in todo[p]
    <3>1. "checkpoint" \in Flagged
      BY DEF Flagged, OtherItems
    <3>2. BackupOrder[i] <= BackupOrder["checkpoint"]
      BY <1>2, <2>2, <3>1 DEF At
    <3>3. i \notin PrivateFiles
      BY <3>2 DEF BackupOrder, PrivateFiles
    <3>. QED
      BY <3>3 DEF Moved
  <2>. QED
    BY <1>2, <2>1, <2>2 DEF At, ControlInv, Control
<1>. QED
  BY <1>1, <1>2, RemoveEffect

\* A file-system call on one item preserves the types.
LEMMA ItemType ==
  ASSUME TypeOK, ControlInv, NEW p \in Commands, NEW i \in Items, ItemStep(p, i)
  PROVE  TypeOK'
<1>. USE DEF TypeOK
<1>b. pc[p] # "idle" /\ bk[p] \in Backups
  <2>1. pc[p] # "idle"
    BY DEF ItemStep, MoveToBackup, BeginCopy, FinishCopy, SkipMissing,
       InstallItem, RefuseInstallItem, BeginRemove, FinishRemove, MoveBack,
       RefuseMoveBack, CannotMove, RestoreFile, LeaveItem, At, BackupPcs
  <2>. QED
    BY <2>1, WorksOnBackup
<1>d. Torn \in Data /\ Absent \in Data /\ bk[p] \in Data
      /\ saved[bk[p]][i] \in Data /\ live[i] \in Data
  BY <1>b, DataFacts
<1>1. CASE MoveToBackup(p, i)
  BY <1>1, <1>b, <1>d, ItemDoneType DEF MoveToBackup, world, bounds, history
<1>2. CASE BeginCopy(p, i)
  BY <1>2, <1>b, <1>d DEF BeginCopy, process, world, bounds, history
<1>3. CASE FinishCopy(p, i)
  BY <1>3, <1>b, <1>d, ItemDoneType DEF FinishCopy, world, bounds, history
<1>4. CASE SkipMissing(p, i) \/ LeaveItem(p, i)
  BY <1>4, ItemDoneType DEF SkipMissing, LeaveItem, disk, world, bounds, history
<1>5. CASE InstallItem(p, i)
  BY <1>5, <1>b, <1>d, ItemDoneType DEF InstallItem, world, bounds, history
<1>6. CASE RefuseInstallItem(p, i) \/ RefuseMoveBack(p, i)
  BY <1>6, <1>b, StopType
  DEF RefuseInstallItem, RefuseMoveBack, disk, bounds
<1>7. CASE BeginRemove(p, i) \/ FinishRemove(p, i)
  <2>1. "move_back" \in Pcs /\ pc[p] \in Pcs /\ todo[p] \in SUBSET Items
    BY PcFacts DEF RestorePcs
  <2>2. pc' \in [Commands -> Pcs] /\ todo' \in [Commands -> SUBSET Items]
    BY <1>7, <2>1, GotoType, ItemDoneType DEF BeginRemove, FinishRemove
  <2>3. live' \in [Items -> Data]
    BY <1>7, <1>d DEF BeginRemove, FinishRemove
  <2>. QED
    BY <1>7, <2>2, <2>3, RemoveEffect DEF world, bounds, history
<1>9. CASE MoveBack(p, i)
  <2>1. /\ pc[p] \in Pcs /\ "restore_reth" \in Pcs /\ "restore_rest" \in Pcs
        /\ todo[p] \ {i} \in SUBSET Items
    BY PcFacts DEF RestorePcs
  <2>2. pc' \in [Commands -> Pcs] /\ todo' \in [Commands -> SUBSET Items]
    BY <1>9, <2>1, GotoType DEF MoveBack
  <2>. QED
    BY <1>9, <1>b, <1>d, <2>2 DEF MoveBack, world, bounds, history
<1>10. CASE RestoreFile(p, i)
  BY <1>10, <1>d, ItemDoneType DEF RestoreFile, world, bounds, history
<1>. QED
  BY <1>1, <1>2, <1>3, <1>4, <1>5, <1>6, <1>7, <1>9, <1>10 DEF ItemStep

\* A system call of a command preserves the types.
LEMMA CommandStepType ==
  ASSUME TypeOK, ControlInv, NEW p \in Commands, CommandStep(p)
  PROVE  TypeOK'
<1>. USE DEF TypeOK
<1>0. /\ {"checked", "cleared", "locked", "backup_reth", "restore_reth"} \subseteq Pcs
      /\ {} \in SUBSET Items /\ RethItems \in SUBSET Items
  BY PcFacts, ItemFacts DEF Pcs, LockedPcs, InstallPcs, BackupPcs, RestorePcs
<1>1. CASE RequireServicesStopped(p)
  <2>1. pc' \in [Commands -> Pcs] /\ todo' \in [Commands -> SUBSET Items]
    BY <1>0, <1>1, GotoType DEF RequireServicesStopped
  <2>. QED
    BY <1>1, <2>1 DEF RequireServicesStopped, disk, world, bounds, history
<1>2. CASE RefuseRunningServices(p) \/ RefuseHeldLock(p) \/ RefuseDelete(p)
  BY <1>2, EndCommandType
  DEF RefuseRunningServices, RefuseHeldLock, RefuseDelete, disk, bounds, history
<1>3. CASE AcquireSummitLock(p)
  <2>1. pc' \in [Commands -> Pcs] /\ todo' \in [Commands -> SUBSET Items]
    BY <1>0, <1>3, GotoType DEF AcquireSummitLock
  <2>. QED
    BY <1>3, <2>1 DEF AcquireSummitLock, disk, bounds, history
<1>4. CASE CreateBackup(p)
  <2>1. pc' \in [Commands -> Pcs] /\ todo' \in [Commands -> SUBSET Items]
    BY <1>0, <1>4, GotoType DEF CreateBackup
  <2>2. "installing" \in ReceiptStates /\ compromised' \in SUBSET Backups
        /\ {i \in Flagged : live[i] # Absent} \in SUBSET Flagged
    BY <1>4 DEF CreateBackup, OtherInterrupted, ReceiptStates
  <2>. QED
    BY <1>4, <2>1, <2>2 DEF CreateBackup, world, bounds
<1>5. CASE BeginRollback(p)
  <2>1. pc' \in [Commands -> Pcs] /\ todo' \in [Commands -> SUBSET Items]
    BY <1>0, <1>5, GotoType DEF BeginRollback
  <2>2. compromised' \in SUBSET Backups
    BY <1>5 DEF BeginRollback, OtherInterrupted
  <2>. QED
    BY <1>5, <2>1, <2>2 DEF BeginRollback, disk, world, bounds
<1>6. CASE NextLoop(p)
  <2>1. NextPc[pc[p]] \in Pcs /\ Listing(p, NextPc[pc[p]]) \in SUBSET Items
    BY <1>6, PcFacts, ListingType DEF NextLoop
  <2>2. pc' \in [Commands -> Pcs] /\ todo' \in [Commands -> SUBSET Items]
    BY <1>6, <2>1, GotoType DEF NextLoop
  <2>. QED
    BY <1>6, <2>2 DEF NextLoop, disk, world, bounds, history
<1>7. CASE MarkInstalled(p) \/ MarkRestored(p)
  <2>1. {"installed", "rolled-back", "automatically-rolled-back"}
          \subseteq ReceiptStates
    BY DEF ReceiptStates
  <2>2. receipt' \in [Backups -> ReceiptStates]
    BY <1>7, <2>1 DEF MarkInstalled, MarkRestored
  <2>. QED
    BY <1>7, <2>2, EndCommandType DEF MarkInstalled, MarkRestored, bounds, history
<1>8. CASE DeleteBackup(p)
  <2>1. bk[p] \in Backups /\ "absent" \in ReceiptStates
    BY <1>8, WorksOnBackup DEF DeleteBackup, ReceiptStates
  <2>. QED
    BY <1>8, <2>1, EndCommandType, NothingType DEF DeleteBackup, bounds
<1>9. CASE \E i \in Items : ItemStep(p, i)
  BY <1>9, ItemType
<1>. QED
  BY <1>1, <1>2, <1>3, <1>4, <1>5, <1>6, <1>7, <1>8, <1>9 DEF CommandStep

\* An I/O error or a kill preserves the types.
LEMMA FailureType ==
  ASSUME TypeOK, ControlInv, NEW p \in Commands, IoError(p) \/ Kill(p)
  PROVE  TypeOK'
<1>. USE DEF TypeOK
<1>1. pc[p] # "idle"
  BY DEF IoError, Kill, InstallPcs, BackupPcs
<1>2. mishaps' \in 0 .. MaxMishaps /\ UNCHANGED <<disk, running, installs, snapshot>>
  BY BoundsAssumption DEF IoError, Kill
<1>3. Stop(p) \/ Raise(p)
  BY DEF IoError, Kill
<1>. QED
  BY <1>1, <1>2, <1>3, StopType DEF disk

\* The start or stop of a node program preserves the types.
LEMMA ProgramType ==
  ASSUME TypeOK, NEW q \in Programs, StartProgram(q) \/ StopProgram(q)
  PROVE  TypeOK'
<1>. USE DEF TypeOK
<1>1. CASE StartProgram(q)
  BY <1>1, DataFacts, ProgramsAssumption
  DEF StartProgram, process, bounds, history
<1>2. CASE StopProgram(q)
  BY <1>2 DEF StopProgram, disk, process, bounds, history
<1>. QED
  BY <1>1, <1>2

\* A command that ended satisfies its control invariant.
LEMMA EndControl ==
  ASSUME TypeOK, NEW p \in Commands, EndCommand(p)
  PROVE  Control(p)'
  BY DEF EndCommand, Goto, TypeOK, Control, ActivePcs, InstallPcs, BackupPcs,
     RestorePcs

\* A command that raised satisfies its control invariant, whether it ended
\* or restores its backup.
LEMMA RaiseControl ==
  ASSUME TypeOK, ControlInv, NEW p \in Commands, Stop(p) \/ Raise(p)
  PROVE  Control(p)'
<1>1. CASE Stop(p)
  BY <1>1, EndControl DEF Stop
<1>2. CASE ~Stop(p)
  BY <1>2 DEF Raise, Goto, TypeOK, ControlInv, Control, ActivePcs,
     InstallPcs, BackupPcs, RestorePcs
<1>. QED
  BY <1>1, <1>2

\* Finishing an item keeps a loop within its own kind of items.
LEMMA ItemDoneControl ==
  ASSUME TypeOK, ControlInv, NEW p \in Commands, NEW i \in Items,
         ItemDone(p, i), pc[p] # "move_back", UNCHANGED <<op, bk, seen>>
  PROVE  Control(p)'
  BY DEF ItemDone, Goto, TypeOK, ControlInv, Control

\* A file-system call on one item keeps the command's control invariant.
LEMMA ItemControl ==
  ASSUME TypeOK, ControlInv, NEW p \in Commands, NEW i \in Items, ItemStep(p, i)
  PROVE  Control(p)'
<1>1. CASE MoveToBackup(p, i) \/ FinishCopy(p, i) \/ SkipMissing(p, i)
             \/ InstallItem(p, i) \/ RestoreFile(p, i) \/ LeaveItem(p, i)
  <2>1. ItemDone(p, i) /\ pc[p] # "move_back" /\ UNCHANGED <<op, bk, seen>>
    BY <1>1 DEF MoveToBackup, FinishCopy, SkipMissing, InstallItem, RestoreFile,
       LeaveItem, At, BackupPcs
  <2>. QED
    BY <2>1, ItemDoneControl
<1>2. CASE BeginCopy(p, i)
  BY <1>2 DEF BeginCopy, process, ControlInv, Control
<1>3. CASE RefuseInstallItem(p, i) \/ RefuseMoveBack(p, i)
  BY <1>3, RaiseControl DEF RefuseInstallItem, RefuseMoveBack
<1>4. CASE BeginRemove(p, i) \/ FinishRemove(p, i)
  <2>1. UNCHANGED <<op, bk, seen>> /\ i \in todo[p]
    BY <1>4, RemoveEffect
  <2>2. CASE pc'[p] = pc[p]
    <3>1. todo'[p] \subseteq todo[p] /\ (pc[p] = "move_back" => todo'[p] = todo[p])
      BY <1>4, <2>2, RemoveEffect
    <3>2. pc[p] # "seal_restore" /\ pc[p] \notin InstallPcs
      BY <1>4, <2>2, RemoveEffect DEF At, InstallPcs, BackupPcs
    <3>. QED
      BY <2>1, <2>2, <3>1, <3>2 DEF TypeOK, ControlInv, Control
  <2>3. CASE pc'[p] # pc[p]
    <3>1. /\ pc'[p] = "move_back" /\ todo'[p] = todo[p] /\ i \in Moved
          /\ pc[p] \in {"restore_reth", "restore_rest"}
      BY <1>4, <2>3, RemoveEffect DEF At
    <3>2. \/ todo[p] \subseteq RethItems /\ todo[p] # {}
          \/ todo[p] \subseteq OtherItems /\ "checkpoint" \in todo[p]
      BY <2>1, <3>1 DEF Moved, OtherItems, ControlInv, Control
    <3>. QED
      BY <2>1, <3>1, <3>2 DEF TypeOK, ControlInv, Control, ActivePcs,
         InstallPcs, BackupPcs, RestorePcs
  <2>. QED
    BY <2>2, <2>3
<1>5. CASE MoveBack(p, i)
  <2>1. UNCHANGED <<op, bk, seen>> /\ i \in todo[p] /\ i \in Moved
        /\ pc[p] \in {"restore_reth", "restore_rest", "restore_summit", "move_back"}
    BY <1>5 DEF MoveBack, At
  <2>2. CASE pc[p] # "move_back"
    <3>1. Goto(p, pc[p], todo[p] \ {i})
      BY <1>5, <2>2 DEF MoveBack
    <3>. QED
      BY <2>1, <2>2, <3>1, ItemDoneControl DEF ItemDone
  <2>3. CASE pc[p] = "move_back" /\ i \in RethItems
    <3>1. todo[p] \subseteq RethItems
      BY <2>1, <2>3, ItemFacts DEF ControlInv, Control
    <3>2. Goto(p, "restore_reth", todo[p] \ {i})
      BY <1>5, <2>3 DEF MoveBack
    <3>. QED
      BY <2>1, <2>3, <3>1, <3>2 DEF Goto, TypeOK, ControlInv, Control, ActivePcs,
         InstallPcs, BackupPcs, RestorePcs
  <2>4. CASE pc[p] = "move_back" /\ i \notin RethItems
    <3>1. todo[p] \subseteq OtherItems
      BY <2>1, <2>4 DEF ControlInv, Control
    <3>2. Goto(p, "restore_rest", todo[p] \ {i})
      BY <1>5, <2>4 DEF MoveBack
    <3>. QED
      BY <2>1, <2>4, <3>1, <3>2 DEF Goto, TypeOK, ControlInv, Control, ActivePcs,
         InstallPcs, BackupPcs, RestorePcs
  <2>. QED
    BY <2>2, <2>3, <2>4
<1>. QED
  BY <1>1, <1>2, <1>3, <1>4, <1>5 DEF ItemStep

\* Each loop begins with items of its own kind only.
LEMMA ListingRange ==
  ASSUME NEW p \in Commands
  PROVE  /\ Listing(p, "backup_summit") \subseteq Children
         /\ Listing(p, "wipe") \subseteq Children
         /\ seen[p] = "installing" => Listing(p, "wipe") = {}
         /\ Listing(p, "restore_summit") \subseteq Children
         /\ Listing(p, "backup_rest") = OtherItems
         /\ Listing(p, "restore_rest") = OtherItems
         /\ Listing(p, "install") = Flagged
         /\ Listing(p, "seal_install") = {} /\ Listing(p, "seal_restore") = {}
  BY DEF Listing

\* A system call keeps the command's control invariant.
LEMMA CommandStepControl ==
  ASSUME TypeOK, ControlInv, NEW p \in Commands, CommandStep(p)
  PROVE  Control(p)'
<1>. USE DEF ActivePcs, InstallPcs, BackupPcs, RestorePcs
<1>1. CASE RequireServicesStopped(p)
  BY <1>1 DEF RequireServicesStopped, Goto, TypeOK, ControlInv, Control
<1>2. CASE RefuseRunningServices(p) \/ RefuseHeldLock(p) \/ RefuseDelete(p)
             \/ MarkInstalled(p) \/ MarkRestored(p) \/ DeleteBackup(p)
  BY <1>2, EndControl DEF RefuseRunningServices, RefuseHeldLock, RefuseDelete,
     MarkInstalled, MarkRestored, DeleteBackup
<1>3. CASE AcquireSummitLock(p)
  BY <1>3 DEF AcquireSummitLock, Goto, TypeOK, ControlInv, Control
<1>4. CASE CreateBackup(p)
  BY <1>4 DEF CreateBackup, Goto, TypeOK, ControlInv, Control
<1>5. CASE BeginRollback(p)
  BY <1>5 DEF BeginRollback, Goto, TypeOK, ControlInv, Control
<1>6. CASE NextLoop(p)
  BY <1>6, ListingRange DEF NextLoop, NextPc, Goto, TypeOK, ControlInv, Control
<1>7. CASE \E i \in Items : ItemStep(p, i)
  BY <1>7, ItemControl
<1>. QED
  BY <1>1, <1>2, <1>3, <1>4, <1>5, <1>6, <1>7 DEF CommandStep

\* Every step of a command preserves the types.
LEMMA ActsType ==
  ASSUME TypeOK, ControlInv, NEW p \in Commands, ActsAlone(p)
  PROVE  TypeOK'
  BY OperatorType, CommandStepType, FailureType DEF ActsAlone

\* Every step of a command preserves everyone's control invariant.
LEMMA ControlStep ==
  ASSUME TypeOK, ControlInv, NEW p \in Commands, ActsAlone(p)
  PROVE  ControlInv'
<1>1. CASE Operator(p)
  BY <1>1, OperatorControl
<1>2. CASE ~Operator(p)
  <2>1. Control(p)'
    BY <1>2, CommandStepControl, RaiseControl DEF ActsAlone, IoError, Kill
  <2>. QED
    BY <2>1, CommandFrame DEF ControlInv, Control, OthersUnchanged
<1>. QED
  BY <1>1, <1>2

-----------------------------------------------------------------------------
(* The lock.                                                               *)

\* What one step of a command may do to the lock.
KeepsLock(p) ==
  /\ lock' = lock
  /\ pc'[p] \in LockedPcs => pc[p] \in LockedPcs

TakesLock(p) == lock = Nobody /\ lock' = p

FreesLock(p) ==
  /\ pc'[p] \notin LockedPcs
  /\ lock' = IF lock = p THEN Nobody ELSE lock

\* The kernel drops the lock of a command that ends, and no other.
LEMMA EndFreesLock ==
  ASSUME TypeOK, NEW p \in Commands, EndCommand(p) \/ Stop(p)
  PROVE  FreesLock(p)
  BY DEF EndCommand, Stop, Goto, TypeOK, FreesLock, LockedPcs, InstallPcs,
     BackupPcs, RestorePcs

\* An exception keeps the lock for the automatic restore or drops it.
LEMMA RaiseLock ==
  ASSUME TypeOK, NEW p \in Commands, Stop(p) \/ Raise(p)
  PROVE  KeepsLock(p) \/ FreesLock(p)
<1>1. CASE Stop(p)
  BY <1>1, EndFreesLock
<1>2. CASE ~Stop(p)
  BY <1>2, PcFacts DEF Raise, KeepsLock
<1>. QED
  BY <1>1, <1>2

\* What a command can do to the lock: nothing, take it when it is free, or
\* drop its own.
LEMMA CommandLock ==
  ASSUME TypeOK, ControlInv, NEW p \in Commands, ActsAlone(p)
  PROVE  /\ running' = running
         /\ KeepsLock(p) \/ TakesLock(p) \/ FreesLock(p)
<1>1. CASE Operator(p)
  BY <1>1 DEF Operator, StartInstall, StartRollback, StartDelete, Goto, TypeOK,
     world, KeepsLock, LockedPcs, InstallPcs, BackupPcs, RestorePcs
<1>2. CASE IoError(p) \/ Kill(p)
  BY <1>2, RaiseLock DEF IoError, Kill
<1>3. CASE \E i \in Items : ItemStep(p, i)
  <2>1. PICK i \in Items : ItemStep(p, i)
    BY <1>3
  <2>2. CASE RefuseInstallItem(p, i) \/ RefuseMoveBack(p, i)
    BY <2>2, RaiseLock DEF RefuseInstallItem, RefuseMoveBack
  <2>3. CASE ~RefuseInstallItem(p, i) /\ ~RefuseMoveBack(p, i)
    <3>1. pc[p] \in LockedPcs
      BY <2>1, <2>3, PcFacts DEF ItemStep, MoveToBackup, BeginCopy, FinishCopy,
         SkipMissing, InstallItem, BeginRemove, FinishRemove, MoveBack,
         RestoreFile, LeaveItem, At, InstallPcs, BackupPcs, RestorePcs
    <3>2. UNCHANGED <<lock, running>>
      BY <2>1, <2>3 DEF ItemStep, MoveToBackup, BeginCopy, FinishCopy,
         SkipMissing, InstallItem, BeginRemove, FinishRemove, MoveBack,
         RestoreFile, LeaveItem, world
    <3>. QED
      BY <3>1, <3>2 DEF KeepsLock
  <2>. QED
    BY <2>2, <2>3
<1>4. CASE CommandStep(p) /\ ~\E i \in Items : ItemStep(p, i)
  <2>1. CASE RequireServicesStopped(p) \/ CreateBackup(p) \/ BeginRollback(p)
               \/ NextLoop(p)
    <3>1. UNCHANGED <<lock, running>>
      BY <2>1 DEF RequireServicesStopped, CreateBackup, BeginRollback, NextLoop,
         world
    <3>2. CASE RequireServicesStopped(p)
      BY <3>1, <3>2 DEF RequireServicesStopped, Goto, TypeOK, KeepsLock,
         LockedPcs, InstallPcs, BackupPcs, RestorePcs
    <3>3. CASE CreateBackup(p) \/ BeginRollback(p) \/ NextLoop(p)
      BY <3>1, <3>3, PcFacts DEF CreateBackup, BeginRollback, NextLoop, KeepsLock,
         LockedPcs
    <3>. QED
      BY <2>1, <3>2, <3>3
  <2>2. CASE AcquireSummitLock(p)
    BY <2>2 DEF AcquireSummitLock, TakesLock
  <2>3. CASE RefuseRunningServices(p) \/ RefuseHeldLock(p) \/ MarkInstalled(p)
               \/ MarkRestored(p) \/ DeleteBackup(p) \/ RefuseDelete(p)
    BY <2>3, EndFreesLock DEF RefuseRunningServices, RefuseHeldLock,
       MarkInstalled, MarkRestored, DeleteBackup, RefuseDelete
  <2>. QED
    BY <1>4, <2>1, <2>2, <2>3 DEF CommandStep
<1>. QED
  BY <1>1, <1>2, <1>3, <1>4 DEF ActsAlone

\* A command's step leaves the lock with the one that is past it.
LEMMA CommandLockInv ==
  ASSUME TypeOK, ControlInv, LockInv, NEW p \in Commands, ActsAlone(p)
  PROVE  LockInv'
<1>1. running' = running /\ (KeepsLock(p) \/ TakesLock(p) \/ FreesLock(p))
  BY CommandLock
<1>2. \A r \in Commands \ {p} : pc'[r] = pc[r]
  BY CommandFrame DEF OthersUnchanged
<1>. QED
  BY <1>1, <1>2, ProgramsAssumption
  DEF LockInv, KeepsLock, TakesLock, FreesLock, TypeOK

\* A node program's start or stop leaves the lock with its holder.
LEMMA ProgramLockInv ==
  ASSUME TypeOK, LockInv, NEW q \in Programs, StartProgram(q) \/ StopProgram(q)
  PROVE  LockInv'
<1>1. UNCHANGED pc
  BY DEF StartProgram, StopProgram, process
<1>2. CASE StartProgram(q) /\ q \in LockTaking
  BY <1>1, <1>2, ProgramsAssumption DEF StartProgram, LockInv, TypeOK
<1>3. CASE StartProgram(q) /\ q \notin LockTaking
  BY <1>1, <1>3 DEF StartProgram, LockInv
<1>4. CASE StopProgram(q)
  BY <1>1, <1>4, ProgramsAssumption DEF StopProgram, LockInv, TypeOK
<1>. QED
  BY <1>2, <1>3, <1>4

\* The lock invariant is mutual exclusion.
LEMMA LockInvImpliesExclusion == LockInv => LockExclusion
<1>. SUFFICES ASSUME LockInv, NEW p \in Commands, pc[p] \in LockedPcs
              PROVE  /\ \A r \in Commands \ {p} : pc[r] \notin LockedPcs
                     /\ running \cap LockTaking = {}
  BY DEF LockExclusion
<1>. QED
  BY ProgramsAssumption DEF LockInv

-----------------------------------------------------------------------------
(* A backup belongs to one install.                                        *)

\* What becomes of the backup a command works on when the command ends.
LEMMA EndOwner ==
  ASSUME TypeOK, NEW p \in Commands, Stop(p) \/ Raise(p) \/ EndCommand(p)
  PROVE  \/ bk'[p] = NoBackup /\ op'[p] = "none" /\ pc'[p] = "idle"
         \/ /\ pc[p] \in InstallPcs /\ pc'[p] = "restore_reth"
            /\ UNCHANGED <<op, bk, seen, compromised>>
  BY DEF Stop, Raise, EndCommand, Goto, TypeOK

\* compromised grows, by interrupted backups or by a half-restored one.
LEMMA EndCompromised ==
  ASSUME TypeOK, NEW p \in Commands, Stop(p) \/ Raise(p)
  PROVE  /\ compromised \subseteq compromised'
         /\ \A b \in compromised' \ compromised :
              b = bk[p] /\ receipt[b] = "installed" /\ pc[p] \in RestorePcs
                /\ pc'[p] = "idle"
  BY DEF Stop, Raise, EndCommand, Goto, TypeOK

\* A command that has taken no lock leaves the disk alone, unless it deletes.
LEMMA ItemPc ==
  ASSUME NEW p \in Commands, NEW i \in Items, ItemStep(p, i)
  PROVE  pc[p] \in ActivePcs /\ i \in todo[p]
  BY DEF ItemStep, MoveToBackup, BeginCopy, FinishCopy, SkipMissing, InstallItem,
     RefuseInstallItem, BeginRemove, FinishRemove, MoveBack, RefuseMoveBack,
     CannotMove, RestoreFile, LeaveItem, At, ActivePcs, InstallPcs, BackupPcs,
     RestorePcs

\* What an item step may change: item i, live or in the command's own backup.
LEMMA ItemEffect ==
  ASSUME TypeOK, ControlInv, NEW p \in Commands, NEW i \in Items, ItemStep(p, i)
  PROVE  /\ UNCHANGED <<receipt, previous, snapshot, installs>>
         /\ \A j \in Items \ {i} : live'[j] = live[j]
         /\ \A b \in Backups : \A j \in Items :
              b # bk[p] \/ j # i => saved'[b][j] = saved[b][j]
         /\ live'[i] \in {live[i], saved[bk[p]][i], Absent, Torn, bk[p]}
         /\ saved'[bk[p]][i] \in {saved[bk[p]][i], live[i], Absent, Torn}
         /\ live'[i] = bk[p] /\ live[i] # bk[p] /\ saved[bk[p]][i] # bk[p] =>
              pc[p] = "install"
<1>. USE DEF TypeOK
<1>b. bk[p] \in Backups
  <2>1. pc[p] # "idle"
    BY ItemPc DEF ActivePcs, InstallPcs, BackupPcs, RestorePcs
  <2>. QED
    BY <2>1, WorksOnBackup
<1>d. bk[p] \notin {Absent, Torn}
  BY <1>b, DataAssumption
<1>1. CASE MoveToBackup(p, i)
  BY <1>1, <1>b, <1>d DEF MoveToBackup, bounds, history
<1>2. CASE BeginCopy(p, i)
  BY <1>2, <1>b DEF BeginCopy, bounds, history
<1>3. CASE FinishCopy(p, i)
  BY <1>3, <1>b DEF FinishCopy, bounds, history
<1>4. CASE SkipMissing(p, i) \/ LeaveItem(p, i)
  BY <1>4 DEF SkipMissing, LeaveItem, disk, bounds, history
<1>5. CASE InstallItem(p, i)
  BY <1>5, <1>b DEF InstallItem, bounds, history, At
<1>6. CASE RefuseInstallItem(p, i) \/ RefuseMoveBack(p, i)
  BY <1>6 DEF RefuseInstallItem, RefuseMoveBack, disk, bounds
<1>7. CASE BeginRemove(p, i) \/ FinishRemove(p, i)
  BY <1>7, <1>d DEF BeginRemove, FinishRemove, bounds, history
<1>8. CASE MoveBack(p, i)
  BY <1>8, <1>b, <1>d DEF MoveBack, bounds, history
<1>9. CASE RestoreFile(p, i)
  BY <1>9 DEF RestoreFile, bounds, history
<1>. QED
  BY <1>1, <1>2, <1>3, <1>4, <1>5, <1>6, <1>7, <1>8, <1>9 DEF ItemStep

\* The steps that write a receipt, and what they write.
WritesReceipt(p, state) ==
  receipt' = [receipt EXCEPT ![bk[p]] = state]

\* The five ways update_receipt, create_backup and delete_backup change a
\* receipt.
LEMMA ReceiptEffect ==
  ASSUME TypeOK, ControlInv, NEW p \in Commands, ActsAlone(p)
  PROVE  \/ receipt' = receipt
         \/ CreateBackup(p) /\ WritesReceipt(p, "installing")
         \/ MarkInstalled(p) /\ WritesReceipt(p, "installed")
         \/ MarkRestored(p) /\ op[p] = "install"
              /\ WritesReceipt(p, "automatically-rolled-back")
         \/ MarkRestored(p) /\ op[p] # "install" /\ WritesReceipt(p, "rolled-back")
         \/ DeleteBackup(p) /\ WritesReceipt(p, "absent")
<1>1. CASE Operator(p)
  BY <1>1 DEF Operator, StartInstall, StartRollback, StartDelete, disk
<1>2. CASE IoError(p) \/ Kill(p)
  BY <1>2 DEF IoError, Kill, disk
<1>3. CASE \E i \in Items : ItemStep(p, i)
  BY <1>3, ItemEffect
<1>4. CASE CommandStep(p) /\ ~\E i \in Items : ItemStep(p, i)
  BY <1>4 DEF CommandStep, RequireServicesStopped, RefuseRunningServices,
     AcquireSummitLock, RefuseHeldLock, CreateBackup, BeginRollback, NextLoop,
     MarkInstalled, MarkRestored, DeleteBackup, RefuseDelete, disk, WritesReceipt
<1>. QED
  BY <1>1, <1>2, <1>3, <1>4 DEF ActsAlone

\* How a backup comes to be compromised.
LEMMA CompromisedEffect ==
  ASSUME TypeOK, ControlInv, NEW p \in Commands, ActsAlone(p)
  PROVE  /\ compromised \subseteq compromised'
         /\ \A b \in compromised' \ compromised :
              \/ (CreateBackup(p) \/ BeginRollback(p)) /\ b \in OtherInterrupted(bk[p])
              \/ /\ b = bk[p] /\ receipt[b] = "installed"
                 /\ pc[p] \in RestorePcs /\ pc'[p] = "idle"
              \/ b = bk[p] /\ DeleteBackup(p)
<1>1. CASE Operator(p)
  BY <1>1 DEF Operator, StartInstall, StartRollback, StartDelete, history
<1>2. CASE IoError(p) \/ Kill(p)
  BY <1>2, EndCompromised DEF IoError, Kill
<1>3. CASE \E i \in Items : ItemStep(p, i)
  <2>1. PICK i \in Items : ItemStep(p, i)
    BY <1>3
  <2>2. CASE RefuseInstallItem(p, i) \/ RefuseMoveBack(p, i)
    BY <2>2, EndCompromised DEF RefuseInstallItem, RefuseMoveBack
  <2>. QED
    BY <2>1, <2>2 DEF ItemStep, MoveToBackup, BeginCopy, FinishCopy,
       SkipMissing, InstallItem, BeginRemove, FinishRemove, MoveBack,
       RestoreFile, LeaveItem, history
<1>4. CASE CommandStep(p) /\ ~\E i \in Items : ItemStep(p, i)
  BY <1>4 DEF CommandStep, RequireServicesStopped, RefuseRunningServices,
     AcquireSummitLock, RefuseHeldLock, CreateBackup, BeginRollback, NextLoop,
     MarkInstalled, MarkRestored, DeleteBackup, RefuseDelete, history
<1>. QED
  BY <1>1, <1>2, <1>3, <1>4 DEF ActsAlone

\* A command keeps its backup until it ends, and gets one when it starts.
LEMMA OwnerEffect ==
  ASSUME TypeOK, ControlInv, NEW p \in Commands, ActsAlone(p)
  PROVE  \/ Operator(p)
         \/ bk'[p] = NoBackup /\ op'[p] = "none" /\ pc'[p] = "idle"
         \/ /\ bk'[p] = bk[p] /\ op'[p] = op[p]
            /\ pc'[p] \in PreparePcs =>
                 /\ pc[p] \in PreparePcs
                 /\ UNCHANGED <<disk, history, installs, seen>>
            /\ pc'[p] = "confirm_delete" => pc[p] = "confirm_delete"
            /\ pc[p] \in ActivePcs => pc'[p] \in ActivePcs /\ seen'[p] = seen[p]
            /\ pc'[p] \in ActivePcs /\ pc[p] \notin ActivePcs =>
                 CreateBackup(p) \/ BeginRollback(p)
<1>. USE DEF PreparePcs
<1>a. \A l \in ActivePcs : l \notin PreparePcs /\ l # "confirm_delete"
  BY DEF ActivePcs, InstallPcs, BackupPcs, RestorePcs
<1>2. CASE IoError(p) \/ Kill(p)
  BY <1>2, <1>a, EndOwner DEF IoError, Kill, ActivePcs, RestorePcs
<1>3. CASE \E i \in Items : ItemStep(p, i)
  <2>1. PICK i \in Items : ItemStep(p, i)
    BY <1>3
  <2>2. CASE RefuseInstallItem(p, i) \/ RefuseMoveBack(p, i)
    BY <2>2, <1>a, EndOwner
    DEF RefuseInstallItem, RefuseMoveBack, ActivePcs, RestorePcs
  <2>3. CASE ~RefuseInstallItem(p, i) /\ ~RefuseMoveBack(p, i)
    <3>1. UNCHANGED <<op, bk, seen>> /\ pc[p] \in ActivePcs
      BY <2>1, <2>3, ItemPc DEF ItemStep, MoveToBackup, BeginCopy, FinishCopy,
         SkipMissing, InstallItem, BeginRemove, FinishRemove, MoveBack,
         RestoreFile, LeaveItem, process
    <3>2. pc'[p] \in ActivePcs
      BY <2>1, <2>3, <3>1 DEF ItemStep, MoveToBackup, BeginCopy, FinishCopy,
         SkipMissing, InstallItem, BeginRemove, FinishRemove, MoveBack,
         RestoreFile, LeaveItem, ItemDone, Goto, TypeOK, process,
         ActivePcs, RestorePcs
    <3>. QED
      BY <1>a, <3>1, <3>2
  <2>. QED
    BY <2>2, <2>3
<1>4. CASE CommandStep(p) /\ ~\E i \in Items : ItemStep(p, i)
  <2>1. CASE RequireServicesStopped(p) \/ AcquireSummitLock(p)
    BY <2>1, <1>a DEF RequireServicesStopped, AcquireSummitLock, Goto, TypeOK,
       bounds
  <2>2. CASE CreateBackup(p) \/ BeginRollback(p)
    BY <2>2, <1>a DEF CreateBackup, BeginRollback, Goto, TypeOK, ActivePcs,
       InstallPcs, BackupPcs, RestorePcs
  <2>3. CASE NextLoop(p)
    <3>1. pc[p] \in ActivePcs /\ pc'[p] \in ActivePcs
      BY <2>3 DEF NextLoop, NextPc, Goto, TypeOK, ActivePcs, InstallPcs,
         BackupPcs, RestorePcs
    <3>. QED
      BY <2>3, <3>1, <1>a DEF NextLoop
  <2>4. CASE RefuseRunningServices(p) \/ RefuseHeldLock(p) \/ MarkInstalled(p)
               \/ MarkRestored(p) \/ DeleteBackup(p) \/ RefuseDelete(p)
    BY <2>4 DEF RefuseRunningServices, RefuseHeldLock, MarkInstalled,
       MarkRestored, DeleteBackup, RefuseDelete, EndCommand, Goto, TypeOK
  <2>. QED
    BY <1>4, <2>1, <2>2, <2>3, <2>4 DEF CommandStep
<1>. QED
  BY <1>2, <1>3, <1>4 DEF ActsAlone

\* Only an install changes what it remembers of its receipt.
LEMMA OwnerKeepsSeen ==
  ASSUME TypeOK, ControlInv, NEW p \in Commands, ActsAlone(p), ~Operator(p),
         op'[p] = op[p], op[p] \in {"rollback", "delete"}
  PROVE  seen'[p] = seen[p]
<1>1. ~EndCommand(p) /\ ~Stop(p)
  BY DEF EndCommand, Stop, TypeOK
<1>2. (IoError(p) \/ Kill(p)) => seen' = seen
  BY <1>1 DEF IoError, Kill, Raise
<1>3. (\E i \in Items : ItemStep(p, i)) => seen' = seen
  BY <1>1 DEF ItemStep, MoveToBackup, BeginCopy, FinishCopy, SkipMissing,
     InstallItem, RefuseInstallItem, BeginRemove, FinishRemove, MoveBack,
     RefuseMoveBack, RestoreFile, LeaveItem, Raise, process
<1>4. CommandStep(p) /\ ~(\E i \in Items : ItemStep(p, i)) => seen' = seen
  BY <1>1 DEF CommandStep, RequireServicesStopped, RefuseRunningServices,
     AcquireSummitLock, RefuseHeldLock, CreateBackup, BeginRollback, NextLoop,
     MarkInstalled, MarkRestored, DeleteBackup, RefuseDelete
<1>. QED
  BY <1>2, <1>3, <1>4 DEF ActsAlone

\* A command's step is one file-system call on one item, or leaves the live
\* paths alone.
LEMMA LiveSavedEffect ==
  ASSUME TypeOK, ControlInv, NEW p \in Commands, ActsAlone(p)
  PROVE  \/ /\ \E i \in Items : ItemStep(p, i)
            /\ UNCHANGED <<receipt, previous, snapshot, installs>>
         \/ /\ ~\E i \in Items : ItemStep(p, i)
            /\ live' = live
            /\ saved' = saved \/ DeleteBackup(p)
            /\ snapshot' = snapshot \/ CreateBackup(p)
            /\ previous' = previous \/ CreateBackup(p)
            /\ installs' = installs \/ StartInstall(p)
<1>1. CASE Operator(p)
  BY <1>1, ItemPc DEF Operator, StartInstall, StartRollback, StartDelete, disk,
     history, bounds, ActivePcs, InstallPcs, BackupPcs, RestorePcs
<1>2. CASE (IoError(p) \/ Kill(p)) /\ ~\E i \in Items : ItemStep(p, i)
  BY <1>2 DEF IoError, Kill, disk
<1>3. CASE \E i \in Items : ItemStep(p, i)
  BY <1>3, ItemEffect
<1>4. CASE CommandStep(p) /\ ~\E i \in Items : ItemStep(p, i)
  BY <1>4 DEF CommandStep, RequireServicesStopped, RefuseRunningServices,
     AcquireSummitLock, RefuseHeldLock, CreateBackup, BeginRollback, NextLoop,
     MarkInstalled, MarkRestored, DeleteBackup, RefuseDelete, disk, history,
     bounds
<1>. QED
  BY <1>1, <1>2, <1>3, <1>4 DEF ActsAlone

\* A backup that does not exist stays so under every other command's steps.
LEMMA UnbornStep ==
  ASSUME TypeOK, ControlInv, NEW p \in Commands, ActsAlone(p),
         NEW b \in Backups, Unborn(b), bk[p] # b
  PROVE  Unborn(b)'
<1>. USE DEF TypeOK
<1>1. receipt'[b] = "absent"
  BY ReceiptEffect DEF Unborn, WritesReceipt
<1>2. b \notin compromised'
  BY CompromisedEffect DEF Unborn, OtherInterrupted
<1>3. b \notin {Absent, Torn}
  BY DataAssumption
<1>4. /\ saved'[b] = Nothing
      /\ \A j \in Items : live'[j] # b /\ \A c \in Backups : saved'[c][j] # b
                                               /\ snapshot'[c][j] # b
  <2>1. CASE \E i \in Items : ItemStep(p, i)
    <3>1. PICK i \in Items : ItemStep(p, i)
      BY <2>1
    <3>2. saved' \in [Backups -> [Items -> Data]]
      BY <3>1, ItemType
    <3>3. bk[p] \in Backups
      BY <3>1, ItemPc, WorksOnBackup DEF ActivePcs, InstallPcs, BackupPcs, RestorePcs
    <3>4. \A j \in Items : saved'[b][j] = saved[b][j]
      BY <3>1, ItemEffect
    <3>5. saved'[b] = saved[b]
      BY <3>2, <3>4
    <3>6. \A j \in Items : live'[j] # b
      BY <3>1, <3>3, <1>3, ItemEffect DEF Unborn
    <3>7. \A c \in Backups : \A j \in Items : saved'[c][j] # b
      BY <3>1, <3>3, <1>3, ItemEffect DEF Unborn
    <3>. QED
      BY <3>1, <3>5, <3>6, <3>7, ItemEffect DEF Unborn
  <2>2. CASE ~\E i \in Items : ItemStep(p, i)
    <3>1. live' = live
      BY <2>2, LiveSavedEffect
    <3>2. saved'[b] = Nothing
          /\ \A c \in Backups : \A j \in Items : saved'[c][j] # b
      <4>1. CASE saved' = saved
        BY <4>1 DEF Unborn
      <4>2. CASE DeleteBackup(p)
        <5>1. \A c \in Backups : saved'[c] = saved[c] \/ saved'[c] = Nothing
          BY <4>2 DEF DeleteBackup
        <5>2. \A j \in Items : Nothing[j] # b
          BY <1>3 DEF Nothing
        <5>. QED
          BY <5>1, <5>2 DEF Unborn
      <4>. QED
        BY <2>2, <4>1, <4>2, LiveSavedEffect
    <3>3. \A c \in Backups : \A j \in Items : snapshot'[c][j] # b
      BY <2>2, LiveSavedEffect DEF Unborn, CreateBackup
    <3>. QED
      BY <3>1, <3>2, <3>3 DEF Unborn
  <2>. QED
    BY <2>1, <2>2
<1>. QED
  BY <1>1, <1>2, <1>4 DEF Unborn

\* A backup stays unborn until its own install creates it.
LEMMA CommandBirth ==
  ASSUME TypeOK, ControlInv, BirthInv, NEW p \in Commands, ActsAlone(p)
  PROVE  BirthInv'
<1>. USE DEF TypeOK
<1>f. OthersUnchanged(p)
  BY CommandFrame
<1>n. installs \in Int /\ NoBackup \notin Backups /\ Installs \subseteq Backups
      /\ \A b \in Backups : b \in Int /\ NoBackup # b
  BY BoundsAssumption, InstallsAreBackups DEF Backups, NoBackup
<1>o. (op[p] = "none" <=> pc[p] = "idle") /\ (op[p] = "none" <=> bk[p] = NoBackup)
  BY DEF ControlInv, Control
<1>1. CASE Operator(p)
  <2>0. pc[p] = "idle" /\ bk[p] = NoBackup /\ UNCHANGED <<disk, history>>
    BY <1>1, <1>o DEF Operator, StartInstall, StartRollback, StartDelete
  <2>u. \A b \in Backups : Unborn(b) => Unborn(b)'
    BY <2>0 DEF Unborn, disk, history
  <2>1. CASE StartInstall(p)
    <3>1. /\ installs' = installs + 1 /\ bk'[p] = installs + 1 /\ op'[p] = "install"
          /\ installs + 1 \in Installs /\ pc'[p] = "prepared"
      BY <2>1, BoundsAssumption DEF StartInstall, Goto, Installs
    <3>2. Unborn(installs + 1) /\ \A r \in Commands : bk[r] # installs + 1
      BY <3>1, <1>n DEF BirthInv
    <3>3. \A b \in Installs : b > installs' =>
            Unborn(b)' /\ \A r \in Commands : bk'[r] # b
      BY <1>f, <1>n, <2>u, <3>1 DEF BirthInv, OthersUnchanged
    <3>4. \A r \in Commands : op'[r] = "install" /\ pc'[r] \in PreparePcs =>
            Unborn(bk[r])'
      <4>1. \A r \in Commands \ {p} : op'[r] = "install" /\ pc'[r] \in PreparePcs =>
              Unborn(bk[r]) /\ bk[r] \in Backups /\ bk'[r] = bk[r]
        BY <1>f DEF BirthInv, OthersUnchanged, ControlInv, Control, PreparePcs
      <4>2. \A r \in Commands \ {p} : Unborn(bk[r]) /\ bk[r] \in Backups /\ bk'[r] = bk[r]
              => Unborn(bk[r])'
        BY <2>0 DEF Unborn, disk, history
      <4>3. Unborn(bk[p])'
        BY <2>0, <3>1, <3>2 DEF Unborn, disk, history
      <4>. QED
        BY <4>1, <4>2, <4>3
    <3>5. \A q \in Commands : \A r \in Commands \ {q} :
            op'[q] = "install" /\ bk'[r] = bk'[q] =>
              pc'[q] \notin PreparePcs /\ op'[r] # "install"
      BY <1>f, <3>1, <3>2 DEF BirthInv, OthersUnchanged
    <3>6. \A r \in Commands : op'[r] = "install" => bk'[r] \in Installs
      BY <1>f, <3>1 DEF BirthInv, OthersUnchanged
    <3>. QED
      BY <3>3, <3>4, <3>5, <3>6 DEF BirthInv
  <2>2. CASE \E b \in Backups : StartRollback(p, b) \/ StartDelete(p, b)
    <3>1. PICK b \in Backups : StartRollback(p, b) \/ StartDelete(p, b)
      BY <2>2
    <3>2. /\ installs' = installs /\ bk'[p] = b /\ op'[p] # "install"
          /\ receipt[b] # "absent"
      BY <3>1 DEF StartRollback, StartDelete, bounds
    <3>3. \A c \in Installs : c > installs' =>
            Unborn(c)' /\ \A r \in Commands : bk'[r] # c
      BY <1>f, <1>n, <2>u, <3>2 DEF BirthInv, OthersUnchanged, Unborn
    <3>4. \A r \in Commands : op'[r] = "install" /\ pc'[r] \in PreparePcs =>
            Unborn(bk[r])'
      BY <1>f, <2>0, <3>2 DEF BirthInv, OthersUnchanged, Unborn, disk, history
    <3>5. \A q \in Commands : \A r \in Commands \ {q} :
            op'[q] = "install" /\ bk'[r] = bk'[q] =>
              pc'[q] \notin PreparePcs /\ op'[r] # "install"
      BY <1>f, <3>2 DEF BirthInv, OthersUnchanged, Unborn
    <3>6. \A r \in Commands : op'[r] = "install" => bk'[r] \in Installs
      BY <1>f, <3>2 DEF BirthInv, OthersUnchanged
    <3>. QED
      BY <3>3, <3>4, <3>5, <3>6 DEF BirthInv
  <2>. QED
    BY <1>1, <2>1, <2>2 DEF Operator
<1>2. CASE ~Operator(p)
  <2>0. installs' = installs
    BY <1>2, LiveSavedEffect DEF Operator
  <2>o. \/ bk'[p] = NoBackup /\ op'[p] = "none"
        \/ /\ bk'[p] = bk[p] /\ op'[p] = op[p]
           /\ pc'[p] \in PreparePcs =>
                pc[p] \in PreparePcs /\ UNCHANGED <<disk, history>>
    BY <1>2, OwnerEffect
  <2>1. \A b \in Installs : b > installs' =>
          Unborn(b)' /\ \A r \in Commands : bk'[r] # b
    <3>1. \A b \in Installs : b > installs => Unborn(b) /\ bk[p] # b
      BY DEF BirthInv
    <3>2. \A b \in Installs : b > installs => Unborn(b)'
      BY <1>n, <3>1, UnbornStep
    <3>3. \A b \in Installs : b > installs => \A r \in Commands : bk'[r] # b
      BY <1>f, <1>n, <2>o DEF BirthInv, OthersUnchanged
    <3>. QED
      BY <2>0, <3>2, <3>3
  <2>2. \A r \in Commands : op'[r] = "install" /\ pc'[r] \in PreparePcs =>
          Unborn(bk[r])'
    <3>1. ASSUME NEW r \in Commands \ {p}, op'[r] = "install", pc'[r] \in PreparePcs
          PROVE  Unborn(bk[r])'
      <4>1. bk'[r] = bk[r] /\ op[r] = "install" /\ pc[r] \in PreparePcs
        BY <1>f, <3>1 DEF OthersUnchanged
      <4>2. Unborn(bk[r]) /\ bk[p] # bk[r] /\ bk[r] \in Backups
        BY <3>1, <4>1 DEF BirthInv, ControlInv, Control
      <4>3. \A b \in Backups : Unborn(b) /\ bk[p] # b => Unborn(b)'
        BY UnbornStep
      <4>4. \A b \in Backups : b = bk'[r] /\ Unborn(b)' => Unborn(bk[r])'
        BY DEF Unborn
      <4>. QED
        BY <4>1, <4>2, <4>3, <4>4
    <3>2. ASSUME op'[p] = "install", pc'[p] \in PreparePcs
          PROVE  Unborn(bk[p])'
      <4>1. /\ bk'[p] = bk[p] /\ op[p] = "install" /\ pc[p] \in PreparePcs
            /\ UNCHANGED <<disk, history>>
        BY <2>o, <3>2
      <4>2. Unborn(bk[p])
        BY <4>1 DEF BirthInv
      <4>. QED
        BY <4>1, <4>2 DEF Unborn, disk, history
    <3>. QED
      BY <3>1, <3>2
  <2>3. \A q \in Commands : \A r \in Commands \ {q} :
          op'[q] = "install" /\ bk'[r] = bk'[q] =>
            pc'[q] \notin PreparePcs /\ op'[r] # "install"
    <3>1. ASSUME NEW q \in Commands, NEW r \in Commands \ {q},
                 op'[q] = "install", bk'[r] = bk'[q]
          PROVE  pc'[q] \notin PreparePcs /\ op'[r] # "install"
      <4>1. bk'[q] # NoBackup
        BY <1>f, <2>o, <3>1 DEF OthersUnchanged, ControlInv, Control
      <4>2. bk'[q] = bk[q] /\ bk'[r] = bk[r] /\ op'[q] = op[q] /\ op'[r] = op[r]
            /\ (pc'[q] \in PreparePcs => pc[q] \in PreparePcs)
        BY <1>f, <2>o, <3>1, <4>1 DEF OthersUnchanged
      <4>. QED
        BY <3>1, <4>2 DEF BirthInv
    <3>. QED
      BY <3>1
  <2>4. \A r \in Commands : op'[r] = "install" => bk'[r] \in Installs
    BY <1>f, <2>o DEF BirthInv, OthersUnchanged
  <2>. QED
    BY <2>1, <2>2, <2>3, <2>4 DEF BirthInv
<1>. QED
  BY <1>1, <1>2

-----------------------------------------------------------------------------
(* What a command remembers of a receipt, and what the receipt says.       *)

\* A command that moves state is the only one past the lock.
LEMMA AloneInside ==
  ASSUME LockInv, NEW p \in Commands, NEW r \in Commands \ {p},
         pc[p] \in LockedPcs
  PROVE  pc[r] \notin LockedPcs
  BY DEF LockInv

\* Whoever moves state is past the lock.
LEMMA ActiveLocked == ActivePcs \subseteq LockedPcs
  BY PcFacts DEF ActivePcs

\* Only its own install makes a receipt say "installing", and a receipt that
\* a command is about to create does not exist.
LEMMA CreatesUnborn ==
  ASSUME ControlInv, BirthInv, NEW p \in Commands, CreateBackup(p)
  PROVE  /\ op[p] = "install" /\ pc[p] = "cleared" /\ pc[p] \in LockedPcs
         /\ Unborn(bk[p])
         /\ \A r \in Commands \ {p} : bk[r] # bk[p]
  BY DEF CreateBackup, BirthInv, PreparePcs, LockedPcs

\* What a command remembers of a receipt stays true of the receipt in force,
\* as far as it acts on it.
LEMMA CommandReceipt ==
  ASSUME TypeOK, ControlInv, LockInv, BirthInv, ReceiptInv,
         NEW p \in Commands, ActsAlone(p)
  PROVE  ReceiptInv'
<1>. USE DEF TypeOK
<1>f. OthersUnchanged(p)
  BY CommandFrame
<1>a. \A l \in ActivePcs : l # "idle" /\ l # "prepared" /\ l # "confirm_delete"
        /\ l # "cleared"
  BY DEF ActivePcs, InstallPcs, BackupPcs, RestorePcs
<1>1. ASSUME NEW r \in Commands \ {p}, op[r] = "install", pc[r] \in ActivePcs
      PROVE  receipt'[bk[r]] = "installing" /\ bk[r] \notin compromised'
  <2>1. /\ bk[r] \in Backups /\ pc[p] \notin LockedPcs
        /\ receipt[bk[r]] = "installing" /\ bk[r] \notin compromised
    BY <1>1, <1>a, WorksOnBackup, ActiveLocked, AloneInside DEF ReceiptInv
  <2>2. ~CreateBackup(p) /\ ~MarkInstalled(p) /\ ~MarkRestored(p) /\ ~BeginRollback(p)
    BY <2>1 DEF CreateBackup, MarkInstalled, MarkRestored, BeginRollback,
       LockedPcs, InstallPcs, RestorePcs
  <2>3. DeleteBackup(p) => bk[p] # bk[r]
    BY <2>1 DEF DeleteBackup, ReceiptInv, ControlInv, Control
  <2>4. receipt'[bk[r]] = "installing"
    BY <2>1, <2>2, <2>3, ReceiptEffect DEF WritesReceipt
  <2>5. bk[r] \notin compromised'
    BY <2>1, <2>2, <2>3, CompromisedEffect
  <2>. QED
    BY <2>4, <2>5
<1>2. ASSUME op'[p] = "install", pc'[p] \in ActivePcs
      PROVE  receipt'[bk'[p]] = "installing" /\ bk'[p] \notin compromised'
  <2>1. bk'[p] = bk[p] /\ op[p] = "install"
        /\ (pc[p] \in ActivePcs \/ CreateBackup(p) \/ BeginRollback(p))
    BY <1>2, <1>a, OwnerEffect DEF Operator, StartInstall, StartRollback,
       StartDelete, Goto
  <2>2. CASE CreateBackup(p)
    BY <2>1, <2>2, WorksOnBackup
    DEF CreateBackup, BirthInv, Unborn, PreparePcs, OtherInterrupted
  <2>3. CASE pc[p] \in ActivePcs
    <3>1. receipt[bk[p]] = "installing" /\ bk[p] \notin compromised
          /\ bk[p] \in Backups
      BY <1>a, <2>1, <2>3, WorksOnBackup DEF ReceiptInv
    <3>2. ~MarkInstalled(p) /\ ~MarkRestored(p) /\ ~DeleteBackup(p)
          /\ ~CreateBackup(p) /\ ~BeginRollback(p)
      BY <1>2, <1>a, <2>3 DEF MarkInstalled, MarkRestored, DeleteBackup,
         CreateBackup, BeginRollback, EndCommand, Goto
    <3>. QED
      BY <2>1, <3>1, <3>2, ReceiptEffect, CompromisedEffect
  <2>4. ~BeginRollback(p)
    BY <2>1 DEF BeginRollback
  <2>. QED
    BY <2>1, <2>2, <2>3, <2>4
\* The receipts of a delete, and of the rollback of a finished install.
<1>3. ASSUME NEW r \in Commands, NEW b \in Backups, bk'[r] = b,
             \/ op'[r] = "delete"
             \/ op'[r] = "rollback" /\ seen'[r] = "installed"
      PROVE  receipt'[b] # "installing"
  <2>1. receipt[b] # "installing"
    <3>1. CASE r # p
      BY <1>f, <1>3, <3>1 DEF OthersUnchanged, ReceiptInv
    <3>2. CASE r = p /\ Operator(p)
      BY <1>3, <3>2 DEF Operator, StartInstall, StartRollback, StartDelete
    <3>3. CASE r = p /\ ~Operator(p)
      <4>1. bk'[p] = bk[p] /\ op'[p] = op[p]
        BY <1>3, <3>3, OwnerEffect
      <4>2. op[p] = "rollback" => seen'[p] = seen[p]
        BY <1>3, <3>3, <4>1, OwnerKeepsSeen
      <4>. QED
        BY <1>3, <3>3, <4>1, <4>2 DEF ReceiptInv
    <3>. QED
      BY <3>1, <3>2, <3>3
  <2>2. CreateBackup(p) => bk[p] # b
    <3>1. SUFFICES ASSUME CreateBackup(p), bk[p] = b  PROVE FALSE
      OBVIOUS
    <3>2. op[p] = "install" /\ pc[p] \in PreparePcs /\ op'[p] = op[p] /\ bk'[p] = bk[p]
      BY <3>1 DEF CreateBackup, PreparePcs
    <3>. QED
      BY <1>3, <1>f, <3>1, <3>2 DEF BirthInv, OthersUnchanged
  <2>. QED
    BY <2>1, <2>2, ReceiptEffect DEF WritesReceipt
<1>4. \A r \in Commands : op'[r] \in {"delete", "rollback"} => bk'[r] \in Backups
  <2>1. ControlInv' /\ TypeOK'
    BY ControlStep, ActsType
  <2>. QED
    BY <2>1 DEF ControlInv, Control
<1>. QED
  BY <1>f, <1>1, <1>2, <1>3, <1>4 DEF ReceiptInv, OthersUnchanged

\* Whoever moves state has compromised every other interrupted install.
LEMMA CommandOther ==
  ASSUME TypeOK, ControlInv, LockInv, OtherInv, NEW p \in Commands, ActsAlone(p)
  PROVE  OtherInv'
<1>. USE DEF TypeOK
<1>f. OthersUnchanged(p)
  BY CommandFrame
<1>. SUFFICES ASSUME NEW r \in Commands, NEW b \in Backups,
                     pc'[r] \in ActivePcs, b # bk'[r], receipt'[b] = "installing"
              PROVE  b \in compromised'
  BY DEF OtherInv
<1>a. \A l \in ActivePcs : l # "idle" /\ l # "prepared" /\ l # "confirm_delete"
        /\ l # "cleared"
  BY DEF ActivePcs, InstallPcs, BackupPcs, RestorePcs
<1>1. CASE r # p
  <2>1. pc[r] \in ActivePcs /\ bk[r] = bk'[r] /\ pc[p] \notin LockedPcs
    BY <1>1, <1>f, ActiveLocked, AloneInside DEF OthersUnchanged
  <2>2. receipt[b] = "installing"
    BY <2>1, ReceiptEffect DEF WritesReceipt, CreateBackup, LockedPcs
  <2>. QED
    BY <2>1, <2>2, CompromisedEffect DEF OtherInv
<1>2. CASE r = p
  <2>1. bk'[p] = bk[p]
        /\ (pc[p] \in ActivePcs \/ CreateBackup(p) \/ BeginRollback(p))
    BY <1>2, <1>a, OwnerEffect DEF Operator, StartInstall, StartRollback,
       StartDelete, Goto
  <2>2. receipt[b] = "installing"
    BY <1>2, <2>1, ReceiptEffect DEF WritesReceipt
  <2>3. CASE CreateBackup(p) \/ BeginRollback(p)
    BY <1>2, <2>1, <2>2, <2>3 DEF CreateBackup, BeginRollback, OtherInterrupted
  <2>4. CASE pc[p] \in ActivePcs
    BY <1>2, <2>1, <2>2, <2>4, CompromisedEffect DEF OtherInv
  <2>. QED
    BY <2>1, <2>3, <2>4
<1>. QED
  BY <1>1, <1>2
=============================================================================
