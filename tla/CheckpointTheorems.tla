------------------------- MODULE CheckpointTheorems -------------------------
(***************************************************************************)
(* The inductive invariant of CheckpointTransaction and the properties     *)
(* that follow from it, for every value of the constants.                  *)
(***************************************************************************)
EXTENDS CheckpointRestoreProofs

\* The initial states satisfy the invariant.
LEMMA Initially == Init => IndInv
<1>. SUFFICES ASSUME Init PROVE IndInv
  OBVIOUS
<1>1. TypeOK
  BY BoundsAssumption, DataFacts, NothingType, ItemFacts
  DEF Init, TypeOK, Pcs, ReceiptStates
<1>2. \A p \in Commands : pc[p] \notin ActivePcs /\ pc[p] \notin LockedPcs
        /\ pc[p] \notin PreparePcs /\ pc[p] \notin InstallPcs /\ pc[p] \notin RestorePcs
  BY DEF Init, ActivePcs, LockedPcs, PreparePcs, InstallPcs, BackupPcs, RestorePcs
<1>3. ControlInv
  BY <1>2 DEF Init, ControlInv, Control, ActivePcs, InstallPcs, BackupPcs, RestorePcs
<1>4. LockInv /\ ReceiptInv /\ OtherInv /\ InstallInv /\ RestoreInv
  BY <1>2 DEF Init, LockInv, ReceiptInv, OtherInv, InstallInv, RestoreInv
<1>5. InterruptedInv /\ InstalledInv /\ FlagInv
  BY DEF Init, InterruptedInv, InstalledInv, FlagInv
<1>6. \A b \in Backups : b # Absent /\ b # Original
  BY DataAssumption
<1>7. ChildInv
  BY <1>6, ItemFacts DEF Init, ChildInv, Nothing
<1>8. \A b \in Backups : Unborn(b)
  BY <1>6 DEF Init, Unborn, Nothing
<1>9. NoBackup \notin Backups
  BY DEF NoBackup, Backups
<1>10. BirthInv
  BY <1>2, <1>8, <1>9, InstallsAreBackups DEF Init, BirthInv
<1>. QED
  BY <1>1, <1>3, <1>4, <1>5, <1>7, <1>10 DEF IndInv

\* The invariant is inductive.
LEMMA Step == IndInv /\ [Next]_vars => IndInv'
<1>. SUFFICES ASSUME IndInv, [Next]_vars PROVE IndInv'
  OBVIOUS
<1>. USE DEF IndInv
<1>1. ASSUME NEW p \in Commands, ActsAlone(p)
      PROVE  IndInv'
  <2>1. TypeOK' /\ ControlInv' /\ LockInv' /\ BirthInv'
    BY <1>1, ActsType, ControlStep, CommandLockInv, CommandBirth
  <2>2. ReceiptInv' /\ OtherInv' /\ ChildInv' /\ FlagInv' /\ InstallInv'
    BY <1>1, CommandReceipt, CommandOther, CommandChild, CommandFlag, CommandInstall
  <2>3. InterruptedInv' /\ InstalledInv' /\ RestoreInv'
    BY <1>1, CommandInterrupted, CommandInstalled, CommandRestore
  <2>. QED
    BY <2>1, <2>2, <2>3
<1>4. ASSUME NEW p \in Commands, CutDeletion(p)
      PROVE  IndInv'
  BY <1>4, CutDeletionStep
<1>2. ASSUME NEW q \in Programs, StartProgram(q) \/ StopProgram(q)
      PROVE  IndInv'
  <2>1. UNCHANGED <<saved, receipt, previous, process, bounds, history>>
    BY <1>2, ProgramEffect
  <2>2. TypeOK' /\ LockInv'
    BY <1>2, ProgramType, ProgramLockInv
  <2>3. ControlInv' /\ ReceiptInv' /\ OtherInv'
    BY <2>1 DEF ControlInv, Control, ReceiptInv, OtherInv, process, history
  <2>4. BirthInv'
    BY <1>2, ProgramBirth
  <2>5. ChildInv' /\ FlagInv' /\ InstallInv'
    BY <1>2, ProgramChild, ProgramFlag, ProgramInstall
  <2>6. InterruptedInv' /\ InstalledInv' /\ RestoreInv'
    BY <1>2, ProgramInterrupted, ProgramInstalled, ProgramRestore
  <2>. QED
    BY <2>2, <2>3, <2>4, <2>5, <2>6
<1>3. CASE UNCHANGED vars
  <2>1. UNCHANGED <<disk, process, world, bounds, history>>
    BY <1>3 DEF vars
  <2>2. TypeOK' /\ ControlInv' /\ LockInv' /\ BirthInv'
    BY <2>1 DEF TypeOK, ControlInv, Control, LockInv, BirthInv, Unborn, disk,
       process, world, bounds, history
  <2>3. ReceiptInv' /\ OtherInv' /\ ChildInv' /\ FlagInv' /\ InterruptedInv'
    BY <2>1 DEF ReceiptInv, OtherInv, ChildInv, FlagInv, InterruptedInv,
       Recoverable, disk, process, history
  <2>4. InstallInv' /\ InstalledInv' /\ RestoreInv'
    BY <2>1 DEF InstallInv, InstallProgress, Pending, InPlace, InstalledInv,
       RestoreInv, RestoreProgress, Undealt, At, InBackup, disk, process, history
  <2>. QED
    BY <2>2, <2>3, <2>4
<1>. QED
  BY <1>1, <1>2, <1>3, <1>4 DEF Next, ActsAlone

\* The whole invariant holds in every reachable state, whatever the number of
\* commands, programs, installs, failures and Summit directory entries.
THEOREM Invariance == Spec => []IndInv
  BY Initially, Step, PTL DEF Spec

-----------------------------------------------------------------------------
(* State properties.                                                       *)

\* Every variable keeps its type: in particular a receipt only ever holds one
\* of the states validate_rollback_receipt knows.
THEOREM TypeCorrectness == Spec => []TypeOK
<1>1. IndInv => TypeOK
  BY DEF IndInv
<1>. QED
  BY <1>1, Invariance, PTL

\* acquire_summit_lock keeps every other command and every Summit program out
\* until the command that took it ends.
THEOREM MutualExclusion == Spec => []LockExclusion
<1>1. IndInv => LockExclusion
  BY LockInvImpliesExclusion DEF IndInv
<1>. QED
  BY <1>1, Invariance, PTL

\* Wherever an install stops, each item it renamed is whole, at its path or
\* in the backup, until another transaction moves state.
THEOREM Recoverability == Spec => []InterruptedInstallIsRecoverable
<1>1. IndInv => InterruptedInstallIsRecoverable
  BY ItemFacts
  DEF IndInv, InterruptedInv, Recoverable, InterruptedInstallIsRecoverable, Moved
<1>. QED
  BY <1>1, Invariance, PTL

-----------------------------------------------------------------------------
(* Action properties.                                                      *)

\* The steps that give a receipt a new state.
LEMMA ReceiptSteps ==
  ASSUME IndInv, [Next]_vars, NEW b \in Backups, receipt'[b] # receipt[b]
  PROVE  \/ \E p \in Commands :
              /\ bk[p] = b
              /\ \/ CreateBackup(p) /\ receipt'[b] = "installing"
                 \/ MarkInstalled(p) /\ receipt'[b] = "installed"
                 \/ MarkRestored(p) /\ op[p] = "install"
                      /\ receipt'[b] = "automatically-rolled-back"
                 \/ MarkRestored(p) /\ op[p] # "install" /\ receipt'[b] = "rolled-back"
                 \/ (DeleteBackup(p) \/ CutDeletion(p)) /\ receipt'[b] = "absent"
         \/ b \notin Installs /\ receipt[b] = "absent" /\ receipt'[b] # "installing"
<1>. USE DEF IndInv
<1>1. ~UNCHANGED vars
  BY DEF vars, disk
<1>2. ~\E q \in Programs : StartProgram(q) \/ StopProgram(q)
  BY ProgramEffect
<1>3. PICK p \in Commands : ActsAlone(p) \/ CutDeletion(p)
  BY <1>1, <1>2 DEF Next, ActsAlone
<1>4. CASE ActsAlone(p)
  BY <1>4, ReceiptEffect DEF WritesReceipt, TypeOK
<1>5. CASE CutDeletion(p)
  <2>1. PICK d \in Installs, c \in Backups \ Installs :
          /\ d \in Backups /\ d = bk[p]
          /\ receipt[d] \notin {"absent", "installing"}
          /\ receipt' = [receipt EXCEPT ![d] = "absent", ![c] = receipt[d]]
          /\ receipt[c] = "absent"
    BY <1>5, CutEffect
  <2>2. b \in {c, d}
    BY <2>1 DEF TypeOK
  <2>. QED
    BY <1>5, <2>1, <2>2 DEF TypeOK
<1>. QED
  BY <1>3, <1>4, <1>5

\* "installed" is written only over one complete set that matches: Reth,
\* Summit and startup files all come from one checkpoint, beside a whole backup.
THEOREM InstalledMatches == Spec => InstalledIsMatched
<1>1. ASSUME IndInv, [Next]_vars, NEW b \in Installs,
             receipt'[b] = "installed", receipt[b] # "installed"
      PROVE  /\ \A i \in Flagged : live[i] = b
             /\ \A c \in Children : live[c] = Absent
             /\ saved[b] = snapshot[b]
  <2>. USE DEF IndInv
  <2>1. PICK p \in Commands : bk[p] = b /\ MarkInstalled(p)
    BY <1>1, ReceiptSteps, InstallsAreBackups
  <2>2. pc[p] = "seal_install"
    BY <2>1 DEF MarkInstalled
  <2>3. \A i \in Items : InstallProgress(p, i) /\ ~Pending(p, i)
                         /\ (InPlace(p, i) <=> i \in Flagged)
    BY <1>1, <2>2 DEF InstallInv, InstallPcs, BackupPcs, Pending, InPlace
  <2>4. \A i \in Items : saved[b][i] = snapshot[b][i]
    BY <2>1, <2>3 DEF InstallProgress
  <2>5. saved[b] = snapshot[b]
    BY <1>1, <2>4, InstallsAreBackups DEF TypeOK
  <2>. QED
    BY <2>1, <2>3, <2>5, ItemFacts DEF InstallProgress
<1>2. IndInv /\ [Next]_vars =>
        [\A b \in Installs :
           receipt'[b] = "installed" /\ receipt[b] # "installed" =>
             /\ \A i \in Flagged : live[i] = b
             /\ \A c \in Children : live[c] = Absent
             /\ saved[b] = snapshot[b]]_vars
  BY <1>1
<1>. QED
  BY <1>2, Invariance, PTL DEF Spec, InstalledIsMatched

\* What a restore has done when it marks the receipt of an untouched backup.
LEMMA RestoreComplete ==
  ASSUME IndInv, NEW p \in Commands, MarkRestored(p), NEW b \in Backups,
         bk[p] = b, b \notin compromised, receipt[b] \in {"installing", "installed"}
  PROVE  Restored(b)
<1>. USE DEF IndInv
<1>1. pc[p] = "seal_restore"
  BY DEF MarkRestored
<1>2. todo[p] = {}
  BY <1>1 DEF ControlInv, Control
<1>3. \A i \in Items : RestoreProgress(p, i) /\ ~Undealt(p, i)
  BY <1>1, <1>2 DEF RestoreInv, Undealt, RestorePcs
<1>. QED
  BY <1>3, ItemFacts DEF RestoreProgress, Restored

\* A failed install that says it has rolled back has put every renamed item
\* back, and nothing of its checkpoint is left, whichever step failed.
THEOREM AutomaticRollback == Spec => AutomaticRollbackRestores
<1>1. ASSUME IndInv, [Next]_vars, NEW b \in Installs,
             receipt'[b] = "automatically-rolled-back", receipt[b] # receipt'[b]
      PROVE  Restored(b)
  <2>. USE DEF IndInv
  <2>1. PICK p \in Commands : bk[p] = b /\ MarkRestored(p) /\ op[p] = "install"
    BY <1>1, ReceiptSteps, InstallsAreBackups
  <2>2. receipt[b] = "installing" /\ b \notin compromised
    BY <1>1, <2>1, PcKinds DEF MarkRestored, ReceiptInv, RestorePcs
  <2>. QED
    BY <1>1, <2>1, <2>2, RestoreComplete, InstallsAreBackups
<1>2. IndInv /\ [Next]_vars =>
        [\A b \in Installs :
           receipt'[b] = "automatically-rolled-back" /\ receipt[b] # receipt'[b]
             => Restored(b)]_vars
  BY <1>1
<1>. QED
  BY <1>2, Invariance, PTL DEF Spec, AutomaticRollbackRestores

\* `checkpoint rollback` of an untouched backup, finished or interrupted,
\* restores what its install found.
THEOREM Rollback == Spec => RollbackRestores
<1>1. ASSUME IndInv, [Next]_vars, NEW b \in Backups \ compromised,
             receipt[b] \in {"installing", "installed"}, receipt'[b] = "rolled-back"
      PROVE  Restored(b)
  <2>1. PICK p \in Commands : bk[p] = b /\ MarkRestored(p)
    BY <1>1, ReceiptSteps
  <2>. QED
    BY <1>1, <2>1, RestoreComplete
<1>2. IndInv /\ [Next]_vars =>
        [\A b \in Backups \ compromised :
           receipt[b] \in {"installing", "installed"} /\ receipt'[b] = "rolled-back"
             => Restored(b)]_vars
  BY <1>1
<1>. QED
  BY <1>2, Invariance, PTL DEF Spec, RollbackRestores

\* Receipts only move forward, and the backup of an interrupted install is
\* never deleted.
THEOREM Lifecycle == Spec => ReceiptLifecycle
<1>1. ASSUME IndInv, [Next]_vars, NEW b \in Backups
      PROVE  /\ receipt[b] = "installing" =>
                  receipt'[b] \in ReceiptStates \ {"absent"}
             /\ receipt[b] \in {"rolled-back", "automatically-rolled-back"} =>
                  receipt'[b] \notin {"installing", "installed"}
             /\ receipt[b] = "installed" =>
                  receipt'[b] \notin {"installing", "automatically-rolled-back"}
  <2>. USE DEF IndInv
  <2>1. CASE receipt'[b] = receipt[b]
    BY <2>1 DEF ReceiptStates
  <2>2. CASE receipt'[b] # receipt[b]
    <3>1. CASE receipt[b] = "absent"
      BY <1>1, <3>1
    <3>2. CASE receipt[b] # "absent"
      <4>1. PICK p \in Commands :
              /\ bk[p] = b
              /\ \/ CreateBackup(p) /\ receipt'[b] = "installing"
                 \/ MarkInstalled(p) /\ receipt'[b] = "installed"
                 \/ MarkRestored(p) /\ op[p] = "install"
                      /\ receipt'[b] = "automatically-rolled-back"
                 \/ MarkRestored(p) /\ op[p] # "install" /\ receipt'[b] = "rolled-back"
                 \/ (DeleteBackup(p) \/ CutDeletion(p)) /\ receipt'[b] = "absent"
        BY <1>1, <2>2, <3>2, ReceiptSteps
      <4>2. ~CreateBackup(p)
        BY <1>1, <3>2, <4>1, CreatesUnborn DEF Unborn
      <4>3. MarkInstalled(p) => receipt[b] = "installing"
        BY <1>1, <4>1 DEF MarkInstalled, ControlInv, Control, ReceiptInv, ActivePcs, InstallPcs
      <4>4. MarkRestored(p) /\ op[p] = "install" => receipt[b] = "installing"
        BY <1>1, <4>1 DEF MarkRestored, ReceiptInv, ActivePcs, RestorePcs
      <4>5. DeleteBackup(p) \/ CutDeletion(p) => receipt[b] # "installing"
        BY <1>1, <4>1 DEF DeleteBackup, CutDeletion, ReceiptInv, ControlInv, Control
      <4>. QED
        BY <4>1, <4>2, <4>3, <4>4, <4>5 DEF ReceiptStates
    <3>. QED
      BY <3>1, <3>2
  <2>. QED
    BY <2>1, <2>2
<1>2. IndInv /\ [Next]_vars =>
        [\A b \in Backups :
           /\ receipt[b] = "installing" =>
                receipt'[b] \in ReceiptStates \ {"absent"}
           /\ receipt[b] \in {"rolled-back", "automatically-rolled-back"} =>
                receipt'[b] \notin {"installing", "installed"}
           /\ receipt[b] = "installed" =>
                receipt'[b] \notin {"installing", "automatically-rolled-back"}]_vars
  BY <1>1
<1>. QED
  BY <1>2, Invariance, PTL DEF Spec, ReceiptLifecycle

-----------------------------------------------------------------------------
\* What a restore finds: that the way back is clear, and what comes back.

\* A restore clears the way of what it moves back.
LEMMA OwnWay ==
  ASSUME IndInv, IndInv', NEW p \in Commands, ActsAlone(p), Way(p)
  PROVE  Way(p)'
<1>. USE DEF IndInv, TypeOK
<1>1. CASE pc'[p] \notin RestorePcs
  BY <1>1 DEF Way, RestorePcs, At
<1>2. CASE pc'[p] \in RestorePcs
  <2>1. pc'[p] \in ActivePcs /\ bk'[p] = bk[p]
    BY <1>2, PcKinds, ComesFrom
  <2>2. CASE BeginRollback(p) \/ (pc[p] \in InstallPcs /\ Raise(p))
    <3>1. pc'[p] = "restore_reth"
      BY <2>2 DEF BeginRollback, Raise, Goto
    <3>. QED
      BY <3>1 DEF Way, At
  <2>3. CASE pc[p] \in RestorePcs /\ NextLoop(p)
    <3>1. /\ UNCHANGED <<live, saved, bk, seen, compromised>>
          /\ pc'[p] = NextPc[pc[p]] /\ todo[p] = {}
          /\ todo'[p] = Listing(p, NextPc[pc[p]])
          /\ pc[p] \in DOMAIN NextPc
      BY <2>3 DEF NextLoop, Goto, disk, history
    <3>2. pc'[p] # "move_back" /\ (pc'[p] = "wipe" => pc[p] = "restore_reth")
          /\ (pc'[p] = "restore_summit" => pc[p] = "wipe")
      BY <3>1 DEF NextPc
    <3>3. CASE pc'[p] = "wipe"
      <4>1. seen[p] = "installed" => todo'[p] = {c \in Children : live[c] # Absent}
        BY <3>1, <3>3 DEF Listing
      <4>. QED
        BY <3>1, <3>3, <4>1 DEF Way, At
    <3>4. CASE pc'[p] = "restore_summit"
      <4>1. todo'[p] = {c \in Children : InBackup(p, c)}
        BY <3>1, <3>4 DEF Listing
      <4>2. seen[p] = "installed" => \A c \in Children : live[c] = Absent
        BY <3>1, <3>2, <3>4 DEF Way
      <4>. QED
        BY <3>1, <3>4, <4>1, <4>2 DEF Way, At, InBackup
    <3>. QED
      BY <3>2, <3>3, <3>4 DEF Way, At
  <2>4. ASSUME NEW i \in Items, ItemStep(p, i), pc[p] \in RestorePcs
        PROVE  Way(p)'
    <3>. USE <2>4
    <3>1. i \in todo[p] /\ bk[p] \in Backups
      BY <2>1, ItemPc, PcKinds, WorksOnBackup
    <3>2. /\ \A j \in Items \ {i} : live'[j] = live[j]
          /\ \A j \in Items \ {i} : saved'[bk[p]][j] = saved[bk[p]][j]
      BY <3>1, ItemEffect
    <3>3. compromised \subseteq compromised'
      BY CompromisedEffect
    <3>4. ~MoveToBackup(p, i) /\ ~InstallItem(p, i) /\ ~RefuseInstallItem(p, i)
          /\ ~BeginCopy(p, i) /\ ~FinishCopy(p, i)
      BY PcKinds DEF MoveToBackup, InstallItem, RefuseInstallItem, BeginCopy,
         FinishCopy, At, InstallPcs, BackupPcs, RestorePcs
    <3>5. ~RefuseMoveBack(p, i) /\ seen'[p] = seen[p]
      <4>1. ~Stop(p) /\ ~Raise(p)
        BY <2>1, PcKinds DEF Stop, Raise, EndCommand, Goto
      <4>2. ~Operator(p)
        BY PcKinds DEF Operator, StartInstall, StartRollback, StartDelete
      <4>. QED
        BY <2>1, <4>1, <4>2, PcKinds, OwnerEffect DEF RefuseMoveBack
    <3>6. CASE pc'[p] = "move_back"
      <4>1. BeginRemove(p, i) \/ FinishRemove(p, i)
        <5>1. CASE MoveBack(p, i)
          BY <5>1, <3>6 DEF MoveBack, Goto, At, ItemDone
        <5>2. CASE SkipMissing(p, i) \/ LeaveItem(p, i) \/ RestoreFile(p, i)
          BY <5>2, <3>6 DEF SkipMissing, LeaveItem, RestoreFile, At, ItemDone, Goto
        <5>. QED
          BY <3>4, <3>5, <5>1, <5>2 DEF ItemStep
      <4>0. /\ pc[p] \in {"restore_reth", "restore_rest", "move_back"}
            /\ InBackup(p, i) \/ At(p, {"move_back"}, i)
            /\ todo'[p] = todo[p] /\ live'[i] \in {Absent, Torn}
            /\ saved' = saved /\ bk' = bk
        BY <3>6, <4>1, RemoveEffect DEF At
      <4>2. \A k \in todo[p] \cap Flagged : BackupOrder[i] <= BackupOrder[k]
        BY <4>0, <4>1 DEF BeginRemove, FinishRemove, At
      <4>3. ASSUME NEW j \in Items, At(p, {"move_back"}, j)'
            PROVE  j = i
        <5>1. j \in todo[p] /\ \A k \in todo[p] \cap Flagged : BackupOrder[j] <= BackupOrder[k]
          BY <3>6, <4>0, <4>3 DEF At
        <5>. QED
          BY <3>1, <4>0, <4>2, <5>1, OneAt
      <4>4. bk[p] \notin compromised' => InBackup(p, i)
        BY <3>3, <4>0 DEF Way
      <4>. QED
        BY <3>6, <4>0, <4>3, <4>4 DEF Way, InBackup
    <3>7. CASE pc'[p] = "wipe"
      <4>1. pc[p] = "wipe" /\ (BeginRemove(p, i) \/ FinishRemove(p, i))
        BY <3>4, <3>5, <3>7 DEF ItemStep, SkipMissing, LeaveItem, RestoreFile,
           MoveBack, BeginRemove, FinishRemove, ItemDone, Goto, At, process
      <4>2. todo'[p] = todo[p] \/ (todo'[p] = todo[p] \ {i} /\ live'[i] = Absent)
        BY <4>1 DEF BeginRemove, FinishRemove, ItemDone, Goto, process
      <4>3. ASSUME seen'[p] = "installed", NEW c \in Children \ todo'[p]
            PROVE  live'[c] = Absent
        <5>1. c = i => live'[c] = Absent
          BY <3>1, <4>2, <4>3
        <5>2. c # i => c \notin todo[p] /\ live'[c] = live[c]
          BY <3>2, <4>2, <4>3, ItemFacts
        <5>. QED
          BY <3>5, <4>1, <4>3, <5>1, <5>2 DEF Way
      <4>. QED
        BY <3>7, <4>3 DEF Way, At
    <3>8. CASE pc'[p] = "restore_summit"
      <4>1. pc[p] = "restore_summit" /\ todo'[p] = todo[p] \ {i}
        <5>1. MoveBack(p, i)
          BY <3>4, <3>5, <3>8, PcKinds DEF ItemStep, SkipMissing, LeaveItem, RestoreFile,
             BeginRemove, FinishRemove, ItemDone, Goto, At, process
        <5>. QED
          BY <3>8, <5>1 DEF MoveBack, Goto, At
      <4>2. \A c \in todo'[p] : c \in Items /\ c # i /\ c \in todo[p]
        BY <4>1
      <4>3. ~ \E j \in Items : At(p, {"move_back"}, j)'
        BY <3>8 DEF At
      <4>. QED
        BY <2>1, <3>2, <3>3, <3>5, <3>8, <4>1, <4>2, <4>3 DEF Way, InBackup
    <3>. QED
      BY <3>6, <3>7, <3>8 DEF Way, At
  <2>. QED
    BY <1>2, <2>1, <2>2, <2>3, <2>4, PcKinds, ComesFrom
<1>. QED
  BY <1>1, <1>2

\* Nobody else is in the way.
LEMMA OthersWay ==
  ASSUME IndInv, IndInv', NEW p \in Commands, ActsAlone(p), NEW r \in Commands \ {p},
         Way(r)
  PROVE  Way(r)'
<1>. USE DEF IndInv, TypeOK
<1>1. pc'[r] = pc[r] /\ bk'[r] = bk[r] /\ todo'[r] = todo[r] /\ seen'[r] = seen[r]
  BY CommandFrame DEF OthersUnchanged
<1>2. CASE pc[r] \notin RestorePcs
  BY <1>1, <1>2 DEF Way, At, RestorePcs
<1>3. CASE pc[r] \in RestorePcs
  <2>1. ~\E i \in Items : ItemStep(p, i)
    BY <1>3, PcKinds, AloneInside, ItemPc
  <2>2. live' = live /\ (saved' = saved \/ DeleteBackup(p)) /\ compromised \subseteq compromised'
    BY <2>1, LiveSavedEffect, CompromisedEffect
  <2>3. bk[r] \notin compromised' => saved'[bk[r]] = saved[bk[r]]
    BY <1>3, <2>2, PcKinds, WorksOnBackup DEF DeleteBackup
  <2>4. \A L : \A i \in Items : At(r, L, i)' <=> At(r, L, i)
    BY <1>1 DEF At
  <2>. QED
    BY <1>1, <2>2, <2>3, <2>4 DEF Way, InBackup
<1>. QED
  BY <1>2, <1>3

\* Nor is a deletion that is cut off.
LEMMA CutWay ==
  ASSUME IndInv, NEW p \in Commands, CutDeletion(p), NEW r \in Commands, Way(r)
  PROVE  Way(r)'
<1>. USE DEF IndInv, TypeOK
<1>1. CASE r = p
  BY <1>1 DEF CutDeletion, EndCommand, Goto, Way, At
<1>2. CASE r # p
  <2>1. pc'[r] = pc[r] /\ bk'[r] = bk[r] /\ todo'[r] = todo[r] /\ seen'[r] = seen[r]
        /\ live' = live
    BY <1>2 DEF CutDeletion, EndCommand, Goto
  <2>2. compromised \subseteq compromised'
        /\ (pc[r] # "idle" /\ bk[r] \notin compromised' => saved'[bk[r]] = saved[bk[r]])
    BY CutEffect, WorksOnBackup
  <2>3. \A L : \A i \in Items : At(r, L, i)' <=> At(r, L, i)
    BY <2>1 DEF At
  <2>4. \A i \in Items : At(r, {"move_back"}, i) => pc[r] = "move_back"
    BY DEF At
  <2>. QED
    BY <2>1, <2>2, <2>3, <2>4 DEF Way, InBackup
<1>. QED
  BY <1>1, <1>2

\* Programs create nothing a restore of Summit entries could meet.
LEMMA ProgramWay ==
  ASSUME IndInv, NEW q \in Programs, StartProgram(q) \/ StopProgram(q),
         NEW r \in Commands, Way(r)
  PROVE  Way(r)'
<1>. USE DEF IndInv, TypeOK
<1>1. UNCHANGED <<saved, pc, bk, seen, todo, compromised>>
  BY ProgramEffect DEF process, history
<1>2. CASE pc[r] \notin RestorePcs
  BY <1>1, <1>2 DEF Way, At, RestorePcs
<1>3. CASE pc[r] \in RestorePcs
  <2>1. /\ \A i \in Items : live'[i] = live[i] \/ (live[i] = Absent /\ live'[i] = Fresh)
        /\ \A i \in Items \ RethItems : live'[i] = live[i]
    BY <1>3, ProgramEffect, PcKinds
  <2>2. \A c \in Children : live'[c] = live[c]
    BY <2>1, ItemFacts
  <2>3. pc[r] = "restore_summit" => todo[r] \subseteq Children
    BY DEF ControlInv, Control
  <2>4. \A L : \A i \in Items : At(r, L, i)' <=> At(r, L, i)
    BY <1>1 DEF At
  <2>. QED
    BY <1>1, <2>1, <2>2, <2>3, <2>4 DEF Way, InBackup
<1>. QED
  BY <1>2, <1>3

-----------------------------------------------------------------------------
\* What a command does to the backup of an untouched interrupted install: it
\* makes it, works on it, or leaves it and the live items alone.
LEMMA InterruptedSteps ==
  ASSUME IndInv, NEW p \in Commands, ActsAlone(p), NEW b \in Backups,
         b \notin compromised', receipt'[b] = "installing"
  PROVE  /\ b \notin compromised
         /\ \/ /\ CreateBackup(p) /\ bk[p] = b /\ saved'[b] = Nothing
               /\ snapshot'[b] = live /\ live' = live
            \/ /\ receipt[b] = "installing"
               /\ snapshot'[b] = snapshot[b] /\ previous'[b] = previous[b]
               /\ \/ bk[p] = b /\ \E i \in Items : ItemStep(p, i)
                  \/ live' = live /\ saved'[b] = saved[b]
<1>. USE DEF IndInv, TypeOK
<1>0. b \notin compromised
  BY CompromisedEffect
<1>1. CASE CreateBackup(p) /\ bk[p] = b
  BY <1>0, <1>1, CreatesUnborn DEF CreateBackup, Unborn
<1>2. CASE ~(CreateBackup(p) /\ bk[p] = b)
  <2>1. receipt[b] = "installing"
    BY <1>2, ReceiptEffect DEF WritesReceipt
  <2>2. bk[p] # b => pc[p] \notin ActivePcs /\ ~CreateBackup(p)
    BY <1>0, <2>1 DEF OtherInv, CreateBackup, OtherInterrupted
  <2>3. CASE \E i \in Items : ItemStep(p, i)
    BY <1>0, <2>1, <2>2, <2>3, ItemPc, LiveSavedEffect
  <2>4. CASE ~\E i \in Items : ItemStep(p, i)
    <3>1. ~(DeleteBackup(p) /\ bk[p] = b)
      BY <2>1 DEF DeleteBackup, ReceiptInv, ControlInv, Control
    <3>2. live' = live /\ saved'[b] = saved[b]
      BY <2>4, <3>1, LiveSavedEffect DEF DeleteBackup
    <3>3. snapshot'[b] = snapshot[b] /\ previous'[b] = previous[b]
      BY <1>2, <2>4, LiveSavedEffect DEF CreateBackup
    <3>. QED
      BY <1>0, <2>1, <3>2, <3>3
  <2>. QED
    BY <2>3, <2>4
<1>. QED
  BY <1>1, <1>2

\* An interrupted install's entries stay out of each other's way.
LEMMA EntryStep ==
  ASSUME IndInv, EntryInv, NEW p \in Commands, ActsAlone(p)
  PROVE  EntryInv'
<1>. USE DEF IndInv, TypeOK
<1>. SUFFICES ASSUME NEW b \in Backups, b \notin compromised',
                     receipt'[b] = "installing", NEW c \in Children,
                     saved'[b][c] # Absent
              PROVE  live'[c] \in {Absent, Fresh}
  BY DEF EntryInv
<1>0. c \in Items /\ c \notin Flagged /\ c \notin PrivateFiles
  BY ItemFacts
<1>1. saved'[b] # Nothing
  BY <1>0 DEF Nothing
<1>2. b \notin compromised /\ receipt[b] = "installing"
  BY <1>1, InterruptedSteps
<1>3. CASE live' = live /\ saved'[b] = saved[b]
  BY <1>2, <1>3 DEF EntryInv
<1>4. ASSUME bk[p] = b, NEW i \in Items, ItemStep(p, i)
      PROVE  live'[c] \in {Absent, Fresh}
  <2>1. CASE i # c
    <3>1. live'[c] = live[c] /\ saved'[b][c] = saved[b][c]
      BY <1>0, <1>4, <2>1, ItemEffect
    <3>. QED
      BY <1>2, <3>1 DEF EntryInv
  <2>2. CASE i = c
    <3>1. pc[p] \in {"backup_summit", "restore_summit"}
      <4>1. pc[p] \in ActivePcs /\ c \in todo[p]
        BY <1>4, <2>2, ItemPc
      <4>2. pc[p] # "wipe"
        <5>1. pc[p] = "wipe" => seen[p] = "installing"
          BY <1>2, <1>4 DEF ReceiptInv, ControlInv, Control, ActivePcs, RestorePcs
        <5>. QED
          BY <4>1, <5>1 DEF ControlInv, Control
      <4>3. pc[p] # "seal_install"
        BY <1>4 DEF ItemStep, MoveToBackup, BeginCopy, FinishCopy, SkipMissing,
           InstallItem, RefuseInstallItem, BeginRemove, FinishRemove, MoveBack,
           RefuseMoveBack, CannotMove, RestoreFile, LeaveItem, At, BackupPcs
      <4>. QED
        BY <1>0, <4>1, <4>2, <4>3, ItemFacts
        DEF ControlInv, Control, ActivePcs, InstallPcs, BackupPcs, RestorePcs
    <3>2. CASE MoveToBackup(p, c)
      BY <1>0, <3>2 DEF MoveToBackup
    <3>3. CASE MoveBack(p, c)
      BY <1>0, <1>4, <3>3 DEF MoveBack
    <3>4. CASE RefuseMoveBack(p, c)
      <4>1. live' = live /\ saved' = saved
        BY <3>4 DEF RefuseMoveBack, disk
      <4>. QED
        BY <1>2, <4>1 DEF EntryInv
    <3>. QED
      BY <1>4, <2>2, <3>1, <3>2, <3>3, <3>4 DEF ItemStep, BeginCopy, FinishCopy,
         SkipMissing, InstallItem, RefuseInstallItem, BeginRemove, FinishRemove,
         RestoreFile, LeaveItem, At
  <2>. QED
    BY <2>1, <2>2
<1>. QED
  BY <1>1, <1>3, <1>4, InterruptedSteps

\* A startup file of an interrupted install stays where it can be had.
LEMMA FileStep ==
  ASSUME IndInv, FileInv, NEW p \in Commands, ActsAlone(p)
  PROVE  FileInv'
<1>. USE DEF IndInv, TypeOK
<1>. SUFFICES ASSUME NEW b \in Backups, b \notin compromised',
                     receipt'[b] = "installing", NEW i \in PrivateFiles
              PROVE  /\ saved'[b][i] \in {Absent, Torn, snapshot'[b][i]}
                     /\ live'[i] \in {snapshot'[b][i], saved'[b][i], b}
                     /\ i \in previous'[b] /\ saved'[b][i] = Absent =>
                          live'[i] = snapshot'[b][i]
  BY DEF FileInv
<1>0. i \in Items /\ i \in Flagged /\ i \notin Moved /\ i \notin Children /\ b # Absent
      /\ b \notin compromised
  BY ItemFacts, DataAssumption, InterruptedSteps
<1>1. CASE CreateBackup(p) /\ bk[p] = b /\ saved'[b] = Nothing
             /\ snapshot'[b] = live /\ live' = live
  BY <1>0, <1>1 DEF Nothing
<1>2. CASE /\ receipt[b] = "installing"
           /\ snapshot'[b] = snapshot[b] /\ previous'[b] = previous[b]
  <2>1. /\ saved[b][i] \in {Absent, Torn, snapshot[b][i]}
        /\ live[i] \in {snapshot[b][i], saved[b][i], b}
        /\ i \in previous[b] /\ saved[b][i] = Absent => live[i] = snapshot[b][i]
    BY <1>0, <1>2 DEF FileInv
  <2>2. CASE live' = live /\ saved'[b] = saved[b]
    BY <1>2, <2>1, <2>2
  <2>3. ASSUME bk[p] = b, NEW j \in Items, ItemStep(p, j), j # i
        PROVE  live'[i] = live[i] /\ saved'[b][i] = saved[b][i]
    BY <1>0, <2>3, ItemEffect
  <2>4. ASSUME bk[p] = b, ItemStep(p, i)
        PROVE  \/ live'[i] = live[i] /\ saved'[b][i] = saved[b][i]
               \/ live'[i] = snapshot[b][i] /\ saved'[b][i] \in {Torn, snapshot[b][i]}
               \/ live'[i] = b /\ saved'[b][i] = saved[b][i]
                    /\ saved[b][i] = snapshot[b][i]
               \/ live'[i] = saved[b][i] /\ saved'[b][i] = saved[b][i] /\ Removes(p, i)
    <3>1. pc[p] \in InstallPcs => InstallProgress(p, i)
      BY <1>0 DEF InstallInv
    <3>2. CASE BeginCopy(p, i) \/ FinishCopy(p, i)
      <4>1. live[i] = snapshot[b][i]
        BY <1>0, <2>4, <3>1, <3>2
        DEF BeginCopy, FinishCopy, At, InstallPcs, BackupPcs, InstallProgress, InPlace
      <4>. QED
        BY <1>0, <2>4, <3>2, <4>1 DEF BeginCopy, FinishCopy
    <3>3. CASE InstallItem(p, i)
      BY <1>0, <2>4, <3>1, <3>3
      DEF InstallItem, At, InstallPcs, BackupPcs, InstallProgress, Pending
    <3>4. CASE RestoreFile(p, i)
      BY <1>0, <2>4, <3>4 DEF RestoreFile
    <3>5. CASE SkipMissing(p, i) \/ LeaveItem(p, i) \/ RefuseInstallItem(p, i)
                 \/ RefuseMoveBack(p, i)
      BY <3>5 DEF SkipMissing, LeaveItem, RefuseInstallItem, RefuseMoveBack, disk
    <3>. QED
      BY <1>0, <2>4, <3>2, <3>3, <3>4, <3>5, RemovesMoved DEF ItemStep,
         MoveToBackup, MoveBack
  <2>5. i \in previous[b] <=> snapshot[b][i] # Absent
    BY <1>0, <1>2 DEF FlagInv
  <2>6. ASSUME bk[p] = b, NEW j \in Items, ItemStep(p, j)
        PROVE  /\ saved'[b][i] \in {Absent, Torn, snapshot[b][i]}
               /\ live'[i] \in {snapshot[b][i], saved'[b][i], b}
               /\ i \in previous[b] /\ saved'[b][i] = Absent =>
                    live'[i] = snapshot[b][i]
    <3>1. CASE j # i
      BY <2>1, <2>3, <2>6, <3>1
    <3>2. CASE j = i
      <4>1. Torn # Absent
        BY DataAssumption
      <4>2. Removes(p, i) => saved[b][i] # Absent \/ i \notin previous[b]
        BY <2>6 DEF Removes, InBackup, PreviousExists
      <4>. QED
        BY <2>1, <2>4, <2>5, <2>6, <3>2, <4>1, <4>2
    <3>. QED
      BY <3>1, <3>2
  <2>. QED
    BY <1>2, <2>2, <2>6, <1>1, InterruptedSteps
<1>. QED
  BY <1>1, <1>2, InterruptedSteps

\* A restore writes back the copies it has, and leaves the rest.
LEMMA OwnFilesBack ==
  ASSUME IndInv, NEW p \in Commands, ActsAlone(p), FilesBack(p)
  PROVE  FilesBack(p)'
<1>. USE DEF IndInv, TypeOK
<1>. SUFFICES ASSUME pc'[p] \in RestorePcs, bk'[p] \notin compromised',
                     NEW i \in PrivateFiles, ~Undealt(p, i)', Removes(p, i)'
              PROVE  live'[i] = saved'[bk'[p]][i]
  BY DEF FilesBack
<1>0. /\ i \in Items /\ i \in Flagged /\ i \notin Moved /\ i \notin RethItems
      /\ i \in OtherItems /\ i \notin Children
  BY ItemFacts
<1>1. bk'[p] = bk[p] /\ bk[p] \notin compromised
  BY PcKinds, ComesFrom, CompromisedEffect
<1>2. pc'[p] # "restore_reth"
  BY <1>0 DEF Undealt
<1>3. CASE BeginRollback(p) \/ (pc[p] \in InstallPcs /\ Raise(p))
  BY <1>2, <1>3 DEF BeginRollback, Raise, Goto
<1>4. CASE pc[p] \in RestorePcs /\ NextLoop(p)
  <2>1. UNCHANGED disk /\ pc'[p] = NextPc[pc[p]] /\ todo[p] = {}
        /\ todo'[p] = Listing(p, NextPc[pc[p]]) /\ pc[p] \in DOMAIN NextPc
    BY <1>4 DEF NextLoop, Goto
  <2>2. pc[p] = "restore_rest"
    BY <1>0, <1>4, <2>1 DEF NextPc, Undealt, Listing, RestorePcs
  <2>3. ~Undealt(p, i)
    BY <1>0, <2>1, <2>2 DEF Undealt
  <2>4. Removes(p, i)
    BY <1>1, <2>1 DEF Removes, InBackup, PreviousExists, disk
  <2>. QED
    BY <1>1, <1>4, <2>1, <2>3, <2>4 DEF FilesBack, disk
<1>5. ASSUME pc[p] \in RestorePcs, NEW j \in Items, ItemStep(p, j)
      PROVE  live'[i] = saved'[bk'[p]][i]
  <2>1. bk[p] \in Backups /\ previous' = previous
    BY <1>5, PcKinds, WorksOnBackup, ItemEffect
  <2>2. ~MoveToBackup(p, j) /\ ~InstallItem(p, j) /\ ~RefuseInstallItem(p, j)
        /\ ~BeginCopy(p, j) /\ ~FinishCopy(p, j)
    BY <1>5, PcKinds DEF MoveToBackup, InstallItem, RefuseInstallItem, BeginCopy,
       FinishCopy, At, InstallPcs, BackupPcs, RestorePcs
  <2>3. ~RefuseMoveBack(p, j)
    BY <1>5, PcKinds DEF RefuseMoveBack, Stop, Raise, EndCommand, Goto
  <2>4. CASE RestoreFile(p, j) /\ j = i
    BY <1>0, <1>1, <2>4 DEF RestoreFile
  <2>5. CASE (SkipMissing(p, j) \/ LeaveItem(p, j)) /\ j = i
    <3>1. ~InBackup(p, i) /\ PreviousExists(p, i)
      BY <1>0, <1>5, <2>5 DEF SkipMissing, LeaveItem, At, RestorePcs
    <3>2. UNCHANGED disk
      BY <2>5 DEF SkipMissing, LeaveItem
    <3>. QED
      BY <1>1, <3>1, <3>2 DEF Removes, InBackup, PreviousExists, disk
  <2>6. CASE j # i
    <3>1. live'[i] = live[i] /\ saved'[bk[p]][i] = saved[bk[p]][i]
      BY <1>0, <1>5, <2>1, <2>6, ItemEffect
    <3>2. Removes(p, i)
      BY <1>1, <2>1, <3>1 DEF Removes, InBackup, PreviousExists
    <3>3. i \notin todo[p] \/ pc[p] = "wipe"
      BY <1>0, <1>5, <2>2, <2>3, <2>6 DEF Undealt, ItemStep, SkipMissing, LeaveItem,
         RestoreFile, MoveBack, BeginRemove, FinishRemove, ItemDone, Goto, At, process
    <3>4. ~Undealt(p, i)
      <4>1. j \in todo[p]
        BY <1>5, ItemPc
      <4>2. pc[p] \in {"restore_reth", "wipe", "restore_summit"} =>
              pc'[p] = pc[p] \/ (pc[p] = "restore_reth" /\ pc'[p] = "move_back"
                                 /\ todo'[p] = todo[p])
        BY <1>0, <1>5, <2>2, <2>3, RemoveEffect DEF ItemStep, SkipMissing, LeaveItem,
           RestoreFile, MoveBack, ItemDone, Goto, At
      <4>3. pc[p] = "move_back" =>
              \/ pc'[p] = "move_back" /\ todo'[p] = todo[p]
              \/ pc'[p] = IF j \in RethItems THEN "restore_reth" ELSE "restore_rest"
        BY <1>0, <1>5, <2>2, <2>3, RemoveEffect DEF ItemStep, SkipMissing, LeaveItem,
           RestoreFile, MoveBack, ItemDone, Goto, At
      <4>. QED
        BY <1>0, <1>2, <1>5, <3>3, <4>1, <4>2, <4>3 DEF Undealt, ControlInv, Control,
           RestorePcs
    <3>. QED
      BY <1>1, <1>5, <3>1, <3>2, <3>4 DEF FilesBack
  <2>. QED
    BY <1>0, <1>5, <2>2, <2>3, <2>4, <2>5, <2>6, RemovesMoved DEF ItemStep, MoveBack
<1>. QED
  BY <1>3, <1>4, <1>5, PcKinds, ComesFrom

\* Nobody else writes startup files while a restore is under way.
LEMMA OthersFilesBack ==
  ASSUME IndInv, NEW p \in Commands, ActsAlone(p), NEW r \in Commands \ {p},
         FilesBack(r)
  PROVE  FilesBack(r)'
<1>. USE DEF IndInv, TypeOK
<1>1. pc'[r] = pc[r] /\ bk'[r] = bk[r] /\ todo'[r] = todo[r]
  BY CommandFrame DEF OthersUnchanged
<1>. SUFFICES ASSUME pc[r] \in RestorePcs, bk[r] \notin compromised'
              PROVE  FilesBack(r)'
  BY <1>1 DEF FilesBack
<1>2. ~\E i \in Items : ItemStep(p, i)
  BY PcKinds, AloneInside, ItemPc
<1>3. ~CreateBackup(p)
  BY PcKinds, AloneInside, CreatesUnborn
<1>4. /\ bk[r] \notin compromised /\ live' = live /\ previous' = previous
      /\ saved'[bk[r]] = saved[bk[r]]
  BY <1>2, <1>3, LiveSavedEffect, CompromisedEffect, PcKinds, WorksOnBackup
  DEF DeleteBackup
<1>. QED
  BY <1>1, <1>4 DEF FilesBack, Undealt, Removes, InBackup, PreviousExists

\* Deletions that are cut off reach no untouched backup.
LEMMA CutRest ==
  ASSUME IndInv, RestInv, NEW p \in Commands, CutDeletion(p)
  PROVE  RestInv'
<1>. USE DEF IndInv, TypeOK
<1>1. PICK b \in Installs, c \in Backups \ Installs :
        /\ b \in Backups /\ b = bk[p]
        /\ \A r \in Commands : bk[r] # c
        /\ receipt' = [receipt EXCEPT ![b] = "absent", ![c] = receipt[b]]
        /\ compromised' = compromised \cup {b, c}
        /\ \A d \in Backups \ {b, c} :
             saved'[d] = saved[d] /\ previous'[d] = previous[d]
               /\ receipt'[d] = receipt[d]
  BY CutEffect
<1>2. live' = live /\ snapshot' = snapshot
  BY DEF CutDeletion
<1>3. WayInv'
  BY CutWay DEF WayInv, RestInv
<1>4. EntryInv' /\ FileInv'
  <2>1. \A d \in Backups \ compromised' :
          /\ d \in Backups \ compromised /\ saved'[d] = saved[d]
          /\ previous'[d] = previous[d] /\ receipt'[d] = receipt[d]
    BY <1>1
  <2>. QED
    BY <1>2, <2>1 DEF EntryInv, FileInv, RestInv
<1>5. ASSUME NEW r \in Commands
      PROVE  FilesBack(r)'
  <2>1. CASE r = p
    BY <2>1 DEF CutDeletion, EndCommand, Goto, FilesBack, RestorePcs
  <2>2. CASE r # p
    <3>1. pc'[r] = pc[r] /\ bk'[r] = bk[r] /\ todo'[r] = todo[r]
      BY <2>2 DEF CutDeletion, EndCommand, Goto
    <3>2. pc[r] \in RestorePcs /\ bk[r] \notin compromised' =>
            /\ bk[r] \notin compromised /\ saved'[bk[r]] = saved[bk[r]]
            /\ previous'[bk[r]] = previous[bk[r]]
      BY <1>1, PcKinds, WorksOnBackup
    <3>. QED
      BY <1>2, <3>1, <3>2 DEF FilesBack, Undealt, Removes, InBackup, PreviousExists,
         RestInv
  <2>. QED
    BY <2>1, <2>2
<1>. QED
  BY <1>3, <1>4, <1>5 DEF RestInv

\* Programs only fill Reth's and Summit's empty paths.
LEMMA ProgramRest ==
  ASSUME IndInv, RestInv, NEW q \in Programs, StartProgram(q) \/ StopProgram(q)
  PROVE  RestInv'
<1>. USE DEF IndInv, TypeOK
<1>1. /\ UNCHANGED <<saved, receipt, previous, pc, bk, todo, snapshot, compromised>>
      /\ \A i \in Items : live'[i] = live[i] \/ (live[i] = Absent /\ live'[i] = Fresh)
  BY ProgramEffect DEF process, history
<1>2. \A i \in PrivateFiles : live'[i] = live[i]
  <2>1. Owns[q] \cap PrivateFiles = {} /\ PrivateFiles \subseteq Items
    BY ProgramsAssumption, ItemFacts
  <2>. QED
    BY <2>1 DEF StartProgram, StopProgram, disk
<1>3. WayInv'
  BY ProgramWay DEF WayInv, RestInv
<1>4. EntryInv' /\ FileInv'
  BY <1>1, <1>2, ItemFacts DEF EntryInv, FileInv, RestInv
<1>5. \A r \in Commands : FilesBack(r)'
  BY <1>1, <1>2 DEF FilesBack, Undealt, Removes, InBackup, PreviousExists, RestInv
<1>. QED
  BY <1>3, <1>4, <1>5 DEF RestInv

\* With IndInv, the rest is inductive too.
LEMMA RestStep == IndInv /\ IndInv' /\ RestInv /\ [Next]_vars => RestInv'
<1>. SUFFICES ASSUME IndInv, IndInv', RestInv, [Next]_vars PROVE RestInv'
  OBVIOUS
<1>1. ASSUME NEW p \in Commands, ActsAlone(p)
      PROVE  RestInv'
  <2>1. ASSUME NEW r \in Commands
        PROVE  Way(r)' /\ FilesBack(r)'
    BY <1>1, OwnWay, OthersWay, OwnFilesBack, OthersFilesBack DEF RestInv, WayInv
  <2>. QED
    BY <1>1, <2>1, EntryStep, FileStep DEF RestInv, WayInv
<1>2. CASE UNCHANGED vars
  BY <1>2 DEF vars, disk, process, history, RestInv, WayInv, Way, At, EntryInv,
     FileInv, FilesBack, Undealt, Removes, InBackup, PreviousExists
<1>. QED
  BY <1>1, <1>2, CutRest, ProgramRest DEF Next, ActsAlone

\* It holds of the initial states: nothing runs, and no install is under way.
LEMMA RestInitially == Init => RestInv
<1>. SUFFICES ASSUME Init PROVE RestInv
  OBVIOUS
<1>1. \A p \in Commands : pc[p] = "idle" /\ pc[p] \notin RestorePcs
  BY DEF Init, RestorePcs
<1>2. \A b \in Backups : receipt[b] # "installing"
  BY DEF Init
<1>. QED
  BY <1>1, <1>2 DEF RestInv, WayInv, Way, At, EntryInv, FileInv, FilesBack

\* What the restores rely on holds in every reachable state.
THEOREM RestInvariance == Spec => []RestInv
  BY RestInitially, RestStep, Invariance, PTL DEF Spec

\* A restore of an untouched backup, by the receipt still in force, finds what
\* it is about to move back, and nothing in its way, once it has removed what
\* it replaces, but what a program has created since: Reth's trees, or Summit
\* entries after an interruption.
THEOREM Unobstructed == Spec => []RestoreIsUnobstructed
<1>1. ASSUME IndInv, RestInv, NEW p \in Commands, NEW i \in Items,
             At(p, {"restore_summit", "move_back"}, i),
             bk[p] \notin compromised, seen[p] = receipt[bk[p]]
      PROVE  /\ InBackup(p, i)
             /\ live[i] # Absent /\ (pc[p] = "move_back" => live[i] # Torn) =>
                  live[i] = Fresh /\ (i \in RethItems \/ seen[p] = "installing")
  <2>. USE <1>1 DEF IndInv, TypeOK
  <2>1. Way(p)
    BY DEF RestInv, WayInv
  <2>2. CASE pc[p] = "move_back"
    <3>1. At(p, {"move_back"}, i)
      BY <2>2 DEF At
    <3>. QED
      BY <2>1, <2>2, <3>1 DEF Way
  <2>3. CASE pc[p] = "restore_summit"
    <3>1. i \in todo[p] /\ i \in Children
      BY <2>3 DEF At, ControlInv, Control
    <3>2. InBackup(p, i)
      BY <2>1, <2>3, <3>1 DEF Way
    <3>3. CASE seen[p] = "installed"
      BY <2>1, <2>3, <3>1, <3>2, <3>3 DEF Way
    <3>4. CASE seen[p] # "installed"
      <4>1. pc[p] \in RestorePcs /\ pc[p] \in ActivePcs /\ bk[p] \in Backups
        BY <2>3, PcKinds, WorksOnBackup DEF RestorePcs
      <4>2. seen[p] = "installing"
        BY <2>3, <3>4, <4>1 DEF ControlInv, Control
      <4>. QED
        BY <3>1, <3>2, <4>1, <4>2 DEF RestInv, EntryInv, InBackup
    <3>. QED
      BY <3>3, <3>4
  <2>. QED
    BY <2>2, <2>3 DEF At
<1>2. IndInv /\ RestInv => RestoreIsUnobstructed
  BY <1>1 DEF RestoreIsUnobstructed
<1>. QED
  BY <1>2, Invariance, RestInvariance, PTL

\* Summit entries are wiped for an untouched backup, by the receipt still in
\* force, only while it holds all of what it is to be replaced with.
THEOREM FirstRollbackHasAssets ==
  Spec => [](\A p \in Commands :
               pc[p] = "wipe" /\ todo[p] # {}
                 /\ bk[p] \notin compromised /\ seen[p] = receipt[bk[p]] =>
                   \A d \in Children : saved[bk[p]][d] = snapshot[bk[p]][d])
<1>1. ASSUME IndInv, NEW p \in Commands, pc[p] = "wipe", todo[p] # {},
             bk[p] \notin compromised, seen[p] = receipt[bk[p]], NEW d \in Children
      PROVE  saved[bk[p]][d] = snapshot[bk[p]][d]
  <2>. USE DEF IndInv, TypeOK
  <2>1. pc[p] \in RestorePcs /\ pc[p] \in ActivePcs
    BY <1>1, PcKinds DEF RestorePcs
  <2>2. receipt[bk[p]] = "installed"
    BY <1>1, <2>1 DEF ControlInv, Control
  <2>3. d \in Items /\ Undealt(p, d)
    BY <1>1, ItemFacts DEF Undealt
  <2>. QED
    BY <1>1, <2>1, <2>2, <2>3 DEF RestoreInv, RestoreProgress
<1>2. IndInv => \A p \in Commands :
                  pc[p] = "wipe" /\ todo[p] # {}
                    /\ bk[p] \notin compromised /\ seen[p] = receipt[bk[p]] =>
                      \A d \in Children : saved[bk[p]][d] = snapshot[bk[p]][d]
  BY <1>1
<1>. QED
  BY <1>2, Invariance, PTL

\* What an interrupted install has found absent it leaves to itself and to Reth.
LEMMA FoundAbsentAlone ==
  ASSUME IndInv, FoundAbsentInv, NEW p \in Commands, ActsAlone(p)
  PROVE  FoundAbsentInv'
<1>. USE DEF IndInv, TypeOK
<1>. SUFFICES ASSUME NEW b \in Backups, b \notin compromised',
                     receipt'[b] = "installing", NEW i \in Flagged \cap Moved,
                     i \notin previous'[b]
              PROVE  \/ live'[i] \in {Absent, Torn, b}
                     \/ live'[i] = Fresh /\ i \in RethItems
  BY DEF FoundAbsentInv
<1>0. i \in Items /\ i \notin PrivateFiles
  BY ItemFacts
<1>1. CASE CreateBackup(p) /\ bk[p] = b /\ live' = live
  BY <1>0, <1>1 DEF CreateBackup
<1>2. CASE /\ b \notin compromised /\ receipt[b] = "installing"
           /\ snapshot'[b] = snapshot[b] /\ previous'[b] = previous[b]
  <2>1. live[i] \in {Absent, Torn, b} \/ (live[i] = Fresh /\ i \in RethItems)
    BY <1>2 DEF FoundAbsentInv
  <2>2. saved[b][i] = Absent
    BY <1>0, <1>2 DEF InterruptedInv, Recoverable, FlagInv
  <2>3. ASSUME bk[p] = b, NEW j \in Items, ItemStep(p, j)
        PROVE  live'[i] \in {live[i], Absent, Torn, b}
    BY <1>0, <2>2, <2>3, ItemEffect
  <2>. QED
    BY <1>2, <2>1, <2>3, InterruptedSteps
<1>. QED
  BY <1>1, <1>2, InterruptedSteps

\* Deletions take receipts away, none of an interrupted install.
LEMMA FoundAbsentCut ==
  ASSUME IndInv, FoundAbsentInv, NEW p \in Commands, CutDeletion(p)
  PROVE  FoundAbsentInv'
<1>. USE DEF IndInv, TypeOK
<1>1. PICK b \in Installs, c \in Backups \ Installs :
        /\ b \in Backups /\ b = bk[p]
        /\ receipt' = [receipt EXCEPT ![b] = "absent", ![c] = receipt[b]]
        /\ compromised' = compromised \cup {b, c}
        /\ \A d \in Backups \ {b, c} :
             saved'[d] = saved[d] /\ previous'[d] = previous[d]
               /\ receipt'[d] = receipt[d]
  BY CutEffect
<1>2. \A d \in Backups \ compromised' :
        /\ d \in Backups \ compromised
        /\ previous'[d] = previous[d] /\ receipt'[d] = receipt[d]
  BY <1>1
<1>3. live' = live
  BY DEF CutDeletion
<1>. QED
  BY <1>2, <1>3 DEF FoundAbsentInv

\* It holds in every reachable state.
LEMMA FoundAbsentInvariance == Spec => []FoundAbsentInv
<1>1. Init => FoundAbsentInv
  <2>1. Init => \A b \in Backups : receipt[b] # "installing"
    BY DEF Init
  <2>. QED
    BY <2>1 DEF FoundAbsentInv
<1>2. ASSUME IndInv, FoundAbsentInv, [Next]_vars
      PROVE  FoundAbsentInv'
  <2>. USE <1>2 DEF IndInv, TypeOK
  <2>2. ASSUME NEW q \in Programs, StartProgram(q) \/ StopProgram(q)
        PROVE  FoundAbsentInv'
    <3>1. /\ UNCHANGED <<receipt, previous, compromised>>
          /\ \A i \in Items : live'[i] = live[i] \/ (live[i] = Absent /\ live'[i] = Fresh)
      BY <2>2, ProgramEffect DEF history
    <3>2. \A i \in Flagged \cap Moved : i \notin RethItems => live'[i] = live[i]
      <4>1. Owns[q] \cap Flagged \subseteq RethItems /\ Flagged \subseteq Items
        BY ProgramsAssumption, ItemFacts
      <4>. QED
        BY <2>2, <4>1 DEF StartProgram, StopProgram, disk
    <3>3. Flagged \subseteq Items
      BY ItemFacts
    <3>. QED
      BY <3>1, <3>2, <3>3 DEF FoundAbsentInv
  <2>3. CASE UNCHANGED vars
    BY <2>3 DEF vars, disk, history, FoundAbsentInv
  <2>. QED
    BY <2>2, <2>3, FoundAbsentAlone, FoundAbsentCut DEF Next, ActsAlone
<1>. QED
  BY <1>1, <1>2, Invariance, PTL DEF Spec

\* Restoring an untouched interrupted or failed install removes unsaved data
\* only where it is the install's own or Reth's, created since: what had been
\* there before, or what another install had put there, goes only where the
\* backup holds the predecessor (restore_backup).
THEOREM RemovalsAreNew ==
  Spec => [][\A p \in Commands, i \in Moved :
               /\ pc[p] \in {"restore_reth", "restore_rest"}
               /\ bk[p] \notin compromised /\ receipt[bk[p]] = "installing"
               /\ live[i] \notin {Absent, Torn} /\ live'[i] \in {Absent, Torn}
               => InBackup(p, i) \/ live[i] = bk[p] \/ (live[i] = Fresh /\ i \in RethItems)]_vars
<1>1. ASSUME IndInv, FoundAbsentInv, [Next]_vars, NEW p \in Commands, NEW i \in Moved,
             pc[p] \in {"restore_reth", "restore_rest"},
             bk[p] \notin compromised, receipt[bk[p]] = "installing",
             live[i] \notin {Absent, Torn}, live'[i] \in {Absent, Torn}, ~InBackup(p, i)
      PROVE  live[i] = bk[p] \/ (live[i] = Fresh /\ i \in RethItems)
  <2>. USE DEF IndInv, TypeOK
  <2>1. pc[p] \in RestorePcs /\ pc[p] \in ActivePcs /\ bk[p] \in Backups /\ i \in Items
    BY <1>1, PcKinds, WorksOnBackup, ItemFacts DEF RestorePcs
  <2>2. i \in todo[p] => i \in Flagged \cap Moved
    BY <1>1, ItemFacts DEF ControlInv, Control
  <2>3. ASSUME BeginRemove(p, i)
        PROVE  live[i] = bk[p] \/ (live[i] = Fresh /\ i \in RethItems)
    BY <1>1, <2>1, <2>2, <2>3
    DEF BeginRemove, At, Removes, InBackup, PreviousExists, FoundAbsentInv
  <2>4. ASSUME ItemStep(p, i)
        PROVE  BeginRemove(p, i)
    <3>1. live'[i] # live[i] /\ i \notin PrivateFiles
      BY <1>1, ItemFacts
    <3>2. ~(MoveToBackup(p, i) \/ BeginCopy(p, i) \/ FinishCopy(p, i)
              \/ SkipMissing(p, i) \/ InstallItem(p, i))
      BY <1>1 DEF MoveToBackup, BeginCopy, FinishCopy, SkipMissing, InstallItem, At,
         BackupPcs
    <3>3. ~(FinishRemove(p, i) \/ MoveBack(p, i) \/ RestoreFile(p, i))
      BY <1>1, <3>1 DEF FinishRemove, MoveBack, RestoreFile
    <3>4. ~(LeaveItem(p, i) \/ RefuseInstallItem(p, i) \/ RefuseMoveBack(p, i))
      BY <3>1 DEF LeaveItem, RefuseInstallItem, RefuseMoveBack, disk
    <3>. QED
      BY <2>4, <3>2, <3>3, <3>4 DEF ItemStep
  <2>5. ASSUME NEW r \in Commands, ActsAlone(r)
        PROVE  ItemStep(p, i)
    <3>1. PICK j \in Items : ItemStep(r, j)
      BY <1>1, <2>5, LiveSavedEffect
    <3>2. pc[p] \in LockedPcs /\ pc[r] \in LockedPcs
      BY <2>1, <3>1, ItemPc, PcKinds
    <3>3. r = p
      BY <1>1, <2>5, <3>2, AloneInside
    <3>4. j = i
      BY <1>1, <2>1, <3>1, ItemEffect
    <3>. QED
      BY <3>1, <3>3, <3>4
  <2>6. ~(\E r \in Commands : CutDeletion(r)) /\ ~(UNCHANGED vars)
    BY <1>1 DEF CutDeletion, vars, disk
  <2>7. ~(\E q \in Programs : StartProgram(q) \/ StopProgram(q))
    <3>1. Fresh # Absent /\ Fresh # Torn
      BY DataAssumption
    <3>. QED
      BY <1>1, <2>1, <3>1, ProgramEffect
  <2>. QED
    BY <1>1, <2>3, <2>4, <2>5, <2>6, <2>7 DEF Next, ActsAlone
<1>2. IndInv /\ FoundAbsentInv /\ [Next]_vars =>
        [\A p \in Commands, i \in Moved :
           /\ pc[p] \in {"restore_reth", "restore_rest"}
           /\ bk[p] \notin compromised /\ receipt[bk[p]] = "installing"
           /\ live[i] \notin {Absent, Torn} /\ live'[i] \in {Absent, Torn}
           => InBackup(p, i) \/ live[i] = bk[p] \/ (live[i] = Fresh /\ i \in RethItems)]_vars
  BY <1>1
<1>. QED
  BY <1>2, Invariance, FoundAbsentInvariance, PTL DEF Spec

\* Restores bring the startup files of an untouched backup back as they were:
\* those of a finished install always, those of an interrupted one unless the
\* copy itself was cut off.
THEOREM StartupFilesReturn ==
  Spec => [][\A b \in Backups \ compromised, i \in PrivateFiles :
               receipt[b] \in {"installing", "installed"}
                 /\ receipt'[b] \in {"rolled-back", "automatically-rolled-back"} =>
                   \/ live[i] = snapshot[b][i]
                   \/ receipt[b] = "installing" /\ saved[b][i] = Torn]_vars
<1>1. ASSUME IndInv, RestInv, [Next]_vars, NEW b \in Backups, b \notin compromised,
             NEW i \in PrivateFiles, receipt[b] \in {"installing", "installed"},
             receipt'[b] \in {"rolled-back", "automatically-rolled-back"},
             ~(receipt[b] = "installing" /\ saved[b][i] = Torn)
      PROVE  live[i] = snapshot[b][i]
  <2>. USE DEF IndInv, TypeOK
  <2>1. PICK p \in Commands : bk[p] = b /\ MarkRestored(p)
    BY <1>1, ReceiptSteps
  <2>2. pc[p] = "seal_restore" /\ pc[p] \in RestorePcs /\ todo[p] = {}
    <3>1. pc[p] = "seal_restore"
      BY <2>1 DEF MarkRestored
    <3>. QED
      BY <1>1, <3>1 DEF RestorePcs, ControlInv, Control
  <2>3. ~Undealt(p, i) /\ i \in Items /\ i \in Flagged
    BY <2>2, ItemFacts DEF Undealt
  <2>4. Removes(p, i) => live[i] = saved[b][i]
    BY <1>1, <2>1, <2>2, <2>3 DEF RestInv, FilesBack
  <2>5. i \in previous[b] <=> snapshot[b][i] # Absent
    BY <1>1, <2>3 DEF FlagInv
  <2>6. CASE receipt[b] = "installed"
    <3>1. saved[b][i] = snapshot[b][i]
      BY <1>1, <2>1, <2>2, <2>3, <2>6 DEF RestoreInv, RestoreProgress
    <3>. QED
      BY <2>1, <2>4, <2>5, <3>1 DEF Removes, InBackup, PreviousExists
  <2>7. CASE receipt[b] = "installing"
    <3>1. /\ saved[b][i] \in {Absent, snapshot[b][i]}
          /\ i \in previous[b] /\ saved[b][i] = Absent => live[i] = snapshot[b][i]
      BY <1>1, <2>7 DEF RestInv, FileInv
    <3>. QED
      BY <2>1, <2>4, <2>5, <3>1 DEF Removes, InBackup, PreviousExists
  <2>. QED
    BY <1>1, <2>6, <2>7
<1>2. IndInv /\ RestInv /\ [Next]_vars =>
        [\A b \in Backups \ compromised, i \in PrivateFiles :
           receipt[b] \in {"installing", "installed"}
             /\ receipt'[b] \in {"rolled-back", "automatically-rolled-back"} =>
               \/ live[i] = snapshot[b][i]
               \/ receipt[b] = "installing" /\ saved[b][i] = Torn]_vars
  BY <1>1
<1>. QED
  BY <1>2, Invariance, RestInvariance, PTL DEF Spec

-----------------------------------------------------------------------------
(* That commands come to an end.                                           *)

\* A loop that has flagged items left has a first one.
LEMMA FirstItem ==
  ASSUME NEW S, S \subseteq Flagged, S # {}
  PROVE  /\ \E i \in S : \A j \in S : BackupOrder[i] <= BackupOrder[j]
         /\ \E i \in S : \A j \in S : InstallOrder[i] <= InstallOrder[j]
<1>. USE DEF Flagged, RethItems, OtherItems, PrivateFiles, BackupOrder, InstallOrder
<1>1. CASE "reth_db" \in S
  BY <1>1
<1>2. CASE "reth_db" \notin S /\ "reth_static_files" \in S
  BY <1>2
<1>3. CASE "reth_db" \notin S /\ "reth_static_files" \notin S /\ "checkpoint" \in S
  BY <1>3
<1>4. CASE S \subseteq PrivateFiles
  <2>1. CASE S = {"checkpoint_config"}
    BY <2>1
  <2>2. CASE S = {"weak_subjectivity"}
    BY <2>2
  <2>3. CASE S = PrivateFiles
    BY <2>3
  <2>. QED
    BY <1>4, <2>1, <2>2, <2>3
<1>. QED
  BY <1>1, <1>2, <1>3, <1>4

\* At every place that a command can be at, the code goes on.
LEMMA StepIsThere ==
  ASSUME IndInv, ListedInv, NEW p \in Commands, pc[p] # "idle"
  PROVE  HasStep(p)
<1>. USE DEF IndInv, TypeOK
<1>1. CASE pc[p] \notin ActivePcs
  BY <1>1 DEF HasStep, ActivePcs, Pcs, LockedPcs, ControlInv, Control
<1>2. CASE pc[p] \in ActivePcs /\ todo[p] = {}
  BY <1>2 DEF HasStep, NextPc, ActivePcs, InstallPcs, BackupPcs, RestorePcs,
     ControlInv, Control
<1>3. CASE pc[p] \in ActivePcs /\ todo[p] # {} /\ todo[p] \cap Flagged # {}
  <2>1. CASE pc[p] \in {"seal_install", "seal_restore"}
    BY <2>1 DEF HasStep
  <2>2. CASE pc[p] \notin {"seal_install", "seal_restore"}
    <3>1. PICK i \in todo[p] \cap Flagged :
            \A j \in todo[p] \cap Flagged :
              IF pc[p] = "install" THEN InstallOrder[i] <= InstallOrder[j]
                                   ELSE BackupOrder[i] <= BackupOrder[j]
      <4>. DEFINE S == todo[p] \cap Flagged
      <4>1. /\ \E i \in S : \A j \in S : BackupOrder[i] <= BackupOrder[j]
            /\ \E i \in S : \A j \in S : InstallOrder[i] <= InstallOrder[j]
        BY <1>3, FirstItem
      <4>. QED
        BY <4>1
    <3>2. pc[p] \in DOMAIN NextPc \cup {"move_back"} /\ i \in Items
      BY <1>3, <2>2 DEF ActivePcs, InstallPcs, BackupPcs, RestorePcs, NextPc
    <3>3. At(p, DOMAIN NextPc \cup {"move_back"}, i)
      BY <3>1, <3>2 DEF At
    <3>4. pc[p] \notin {"backup_summit", "wipe", "restore_summit"}
      BY <1>3, ItemFacts DEF ControlInv, Control
    <3>5. pc[p] \in {"backup_reth", "restore_reth"} => i \in Moved
      BY <3>1, ItemFacts DEF ControlInv, Control
    <3>6. CASE pc[p] # "move_back"
      BY <3>2, <3>3, <3>4, <3>5, <3>6 DEF HasStep
    <3>7. CASE pc[p] = "move_back"
      <4>1. i \in Moved
        <5>1. CASE todo[p] \subseteq RethItems
          BY <3>1, <5>1, ItemFacts
        <5>2. CASE "checkpoint" \in todo[p]
          <6>1. BackupOrder[i] <= BackupOrder["checkpoint"]
            BY <3>1, <3>7, <5>2, ItemFacts
          <6>2. i \notin PrivateFiles
            BY <6>1 DEF BackupOrder, PrivateFiles
          <6>. QED
            BY <3>2, <6>2, ItemFacts
        <5>. QED
          BY <3>7, <5>1, <5>2 DEF ControlInv, Control
      <4>. QED
        BY <3>2, <3>3, <3>7, <4>1 DEF HasStep
    <3>. QED
      BY <3>6, <3>7
  <2>. QED
    BY <2>1, <2>2
<1>4. CASE pc[p] \in ActivePcs /\ todo[p] # {} /\ todo[p] \cap Flagged = {}
  <2>1. PICK i \in todo[p] : i \in Children
    BY <1>4, ItemFacts
  <2>2. pc[p] \in DOMAIN NextPc \/ pc[p] \in {"seal_install", "seal_restore"}
    BY <1>4, ItemFacts DEF ActivePcs, InstallPcs, BackupPcs, RestorePcs, NextPc,
       ControlInv, Control
  <2>3. i \in Items /\ i \in Moved
    BY <2>1, ItemFacts
  <2>4. At(p, DOMAIN NextPc \cup {"move_back"}, i) \/ pc[p] \in {"seal_install", "seal_restore"}
    BY <1>4, <2>2 DEF At
  <2>5. pc[p] = "wipe" => live[i] # Absent
    BY DEF ListedInv
  <2>. QED
    BY <2>1, <2>3, <2>4, <2>5 DEF HasStep
<1>. QED
  BY <1>1, <1>2, <1>3, <1>4

\* What is to be wiped stays there until it is.
LEMMA ListedStep == IndInv /\ ListedInv /\ [Next]_vars => ListedInv'
<1>. SUFFICES ASSUME IndInv, ListedInv, [Next]_vars,
                     NEW r \in Commands, pc'[r] = "wipe", NEW c \in todo'[r]
              PROVE  live'[c] # Absent
  BY DEF ListedInv
<1>. USE DEF IndInv, TypeOK
<1>1. ASSUME NEW p \in Commands, ActsAlone(p), p # r
      PROVE  live'[c] # Absent
  <2>1. pc[r] = "wipe" /\ c \in todo[r] /\ pc[r] \in LockedPcs
    BY <1>1, CommandFrame DEF OthersUnchanged, LockedPcs, RestorePcs
  <2>2. ~\E i \in Items : ItemStep(p, i)
    BY <1>1, <2>1, PcKinds, AloneInside, ItemPc
  <2>3. live' = live
    BY <1>1, <2>2, LiveSavedEffect
  <2>. QED
    BY <2>1, <2>3 DEF ListedInv
<1>2. ASSUME ActsAlone(r)
      PROVE  live'[c] # Absent
  <2>1. pc'[r] \in RestorePcs /\ pc'[r] \in ActivePcs
    BY PcKinds DEF RestorePcs
  <2>2. ~BeginRollback(r) /\ ~(pc[r] \in InstallPcs /\ Raise(r))
    BY DEF BeginRollback, Raise, Goto
  <2>3. CASE NextLoop(r)
    <3>1. todo'[r] = Listing(r, "wipe") /\ live' = live
      BY <2>3 DEF NextLoop, Goto, disk
    <3>2. c \in {d \in Children : live[d] # Absent /\ seen[r] # "installing"}
      BY <3>1 DEF Listing
    <3>. QED
      BY <3>1, <3>2
  <2>4. ASSUME NEW i \in Items, ItemStep(r, i), pc[r] \in RestorePcs
        PROVE  live'[c] # Absent
    <3>1. pc[r] = "wipe" /\ (BeginRemove(r, i) \/ FinishRemove(r, i))
      BY <2>1, <2>4, PcKinds DEF ItemStep, MoveToBackup, BeginCopy, FinishCopy,
         SkipMissing, InstallItem, RefuseInstallItem, BeginRemove, FinishRemove,
         MoveBack, RefuseMoveBack, RestoreFile, LeaveItem, ItemDone, Goto, At,
         BackupPcs, process, Raise, Stop, EndCommand
    <3>2. c \in todo[r] /\ (FinishRemove(r, i) => c # i)
      BY <3>1 DEF BeginRemove, FinishRemove, ItemDone, Goto, process
    <3>3. CASE c = i
      BY <3>1, <3>2, <3>3, DataAssumption DEF BeginRemove
    <3>4. CASE c # i
      BY <2>4, <3>1, <3>2, <3>4, ItemEffect DEF ListedInv
    <3>. QED
      BY <3>3, <3>4
  <2>. QED
    BY <1>2, <2>1, <2>2, <2>3, <2>4, PcKinds, ComesFrom
<1>3. ASSUME NEW p \in Commands, CutDeletion(p)
      PROVE  live'[c] # Absent
  <2>1. live' = live /\ (p # r => pc'[r] = pc[r] /\ todo'[r] = todo[r]) /\ p # r
    BY <1>3 DEF CutDeletion, EndCommand, Goto
  <2>. QED
    BY <2>1 DEF ListedInv
<1>4. ASSUME NEW q \in Programs, StartProgram(q) \/ StopProgram(q)
      PROVE  live'[c] # Absent
  <2>1. pc' = pc /\ todo' = todo
        /\ \A i \in Items :
             live'[i] = live[i] \/ (live[i] = Absent /\ live'[i] = Fresh)
    BY <1>4, ProgramEffect DEF process
  <2>. QED
    BY <2>1 DEF ListedInv
<1>5. CASE UNCHANGED vars
  BY <1>5 DEF vars, disk, process, ListedInv
<1>. QED
  BY <1>1, <1>2, <1>3, <1>4, <1>5 DEF Next, ActsAlone

\* It holds of the initial states: nothing is being wiped.
LEMMA ListedInitially == Init => ListedInv
  BY DEF Init, ListedInv

\* No command is ever stuck: whatever the others have done, the code has a next
\* step for it (a refusal, an item of its loop, or the next loop).
THEOREM NeverStuck == Spec => [](\A p \in Commands : pc[p] # "idle" => HasStep(p))
<1>1. IndInv /\ ListedInv => \A p \in Commands : pc[p] # "idle" => HasStep(p)
  BY StepIsThere
<1>2. IndInv /\ ListedInv /\ [Next]_vars => ListedInv'
  BY ListedStep
<1>. QED
  BY <1>1, <1>2, ListedInitially, Invariance, PTL DEF Spec

-----------------------------------------------------------------------------
\* A command is at its end, or at a later place.
LEMMA StageFacts ==
  ASSUME TypeOK, NEW p \in Commands
  PROVE  /\ Stage(p) \in 0 .. 14
         /\ Stage(p) = 0 <=> pc[p] = "idle"
         /\ pc[p] # "move_back" => Stage(p) = StageOf[pc[p]]
  BY DEF TypeOK, Stage, StageOf, Pcs, LockedPcs, InstallPcs, BackupPcs, RestorePcs

\* The phases are numbers.
LEMMA PhaseFacts ==
  ASSUME NEW p, NEW i
  PROVE  Phase(p, i) \in 0 .. 3
  BY DEF Phase

\* An item is a step further on.
LEMMA ItemCloser ==
  ASSUME IndInv, NEW p \in Commands, NEW i \in Items, ItemStep(p, i)
  PROVE  Closer(p)
<1>. USE DEF IndInv, TypeOK
<1>1. pc[p] \in ActivePcs /\ i \in todo[p] /\ pc[p] # "idle" /\ bk[p] \in Backups
  BY ItemPc, PcKinds, WorksOnBackup
<1>2. Stage(p) \in 0 .. 14 /\ (pc[p] # "move_back" => Stage(p) = StageOf[pc[p]])
  BY StageFacts
<1>3. ASSUME ItemDone(p, i), pc[p] # "move_back"
      PROVE  Closer(p)
  BY <1>1, <1>2, <1>3 DEF ItemDone, Goto, Closer, Stage
<1>4. CASE MoveToBackup(p, i)
  BY <1>3, <1>4 DEF MoveToBackup, At, BackupPcs
<1>5. CASE FinishCopy(p, i)
  BY <1>3, <1>5 DEF FinishCopy, At
<1>6. CASE SkipMissing(p, i)
  BY <1>3, <1>6 DEF SkipMissing, At
<1>7. CASE InstallItem(p, i)
  BY <1>3, <1>7 DEF InstallItem, At
<1>8. CASE RestoreFile(p, i)
  BY <1>3, <1>8 DEF RestoreFile, At
<1>9. CASE LeaveItem(p, i)
  BY <1>3, <1>9 DEF LeaveItem, At
<1>10. CASE RefuseInstallItem(p, i) \/ RefuseMoveBack(p, i)
  <2>1. Raise(p)
    BY <1>10 DEF RefuseInstallItem, RefuseMoveBack
  <2>. QED
    BY <1>1, <1>2, <2>1 DEF Raise, Stop, EndCommand, Goto, Closer, Stage, StageOf,
       InstallPcs, BackupPcs, ActivePcs, RestorePcs
<1>11. ASSUME Stage(p)' = Stage(p), todo'[p] = todo[p],
              Phase(p, i)' < Phase(p, i),
              \A j \in todo[p] \ {i} : Phase(p, j)' <= Phase(p, j)
       PROVE  Closer(p)
  <2>1. \A j \in todo[p] : Phase(p, j)' <= Phase(p, j)
    BY <1>11, PhaseFacts DEF Phase
  <2>. QED
    BY <1>1, <1>11, <2>1 DEF Closer
<1>12. ASSUME pc'[p] = pc[p], pc[p] # "move_back", NEW j \in Items \ {i}
       PROVE  Phase(p, j)' <= Phase(p, j)
  <2>1. live'[j] = live[j] /\ saved'[bk[p]][j] = saved[bk[p]][j]
    BY <1>1, <1>12, ItemEffect
  <2>2. bk'[p] = bk[p]
    BY <1>1, <1>12, ComesFrom DEF ActsAlone, CommandStep
  <2>. QED
    BY <1>12, <2>1, <2>2 DEF Phase, InBackup
<1>13. CASE BeginCopy(p, i)
  <2>1. pc' = pc /\ todo' = todo /\ bk' = bk /\ pc[p] = "backup_rest"
        /\ ~InBackup(p, i) /\ saved'[bk[p]][i] = Torn
    BY <1>1, <1>13 DEF BeginCopy, process, At
  <2>2. Phase(p, i)' < Phase(p, i)
    BY <1>1, <2>1, DataAssumption DEF Phase, InBackup, BackupPcs
  <2>. QED
    BY <1>11, <1>12, <2>1, <2>2 DEF Stage
<1>14. CASE BeginRemove(p, i) \/ FinishRemove(p, i)
  <2>1. CASE todo'[p] # todo[p]
    <3>1. todo'[p] = todo[p] \ {i} /\ pc'[p] = pc[p] /\ pc[p] # "move_back"
      BY <1>14, <2>1, RemoveEffect
    <3>. QED
      BY <1>1, <1>2, <3>1 DEF Closer, Stage
  <2>2. CASE todo'[p] = todo[p]
    <3>1. /\ pc[p] \in {"restore_reth", "restore_rest", "wipe", "move_back"}
          /\ \/ pc'[p] = pc[p]
             \/ pc[p] \in {"restore_reth", "restore_rest"} /\ pc'[p] = "move_back"
      BY <1>14, RemoveEffect DEF At
    <3>2. Stage(p)' = Stage(p)
      <4>1. CASE pc'[p] = pc[p]
        BY <2>2, <4>1 DEF Stage
      <4>2. CASE pc[p] = "restore_reth"
        <5>1. todo[p] \cap RethItems # {}
          BY <1>1, <4>2 DEF ControlInv, Control
        <5>. QED
          BY <2>2, <3>1, <4>1, <4>2, <5>1 DEF Stage
      <4>3. CASE pc[p] = "restore_rest"
        <5>1. todo[p] \cap RethItems = {}
          BY <4>3, ItemFacts DEF ControlInv, Control
        <5>. QED
          BY <2>2, <3>1, <4>1, <4>3, <5>1 DEF Stage
      <4>. QED
        BY <3>1, <4>1, <4>2, <4>3
    <3>3. Phase(p, i)' < Phase(p, i)
      <4>1. CASE BeginRemove(p, i)
        <5>1. live[i] \notin {Absent, Torn} /\ live'[i] = Torn /\ pc[p] # "move_back"
          BY <4>1 DEF BeginRemove, At
        <5>. QED
          BY <3>1, <5>1, DataAssumption DEF Phase, BackupPcs
      <4>2. CASE FinishRemove(p, i)
        <5>1. /\ live'[i] = Absent /\ live[i] \in {Absent, Torn}
              /\ live[i] = Absent => pc[p] \in {"restore_reth", "restore_rest"}
          BY <4>2, DataAssumption DEF FinishRemove, Replaces, At
        <5>2. ~BeginRemove(p, i)
          BY <5>1 DEF BeginRemove
        <5>3. todo'[p] # todo[p] \ {i}
          BY <1>1, <2>2
        <5>4. pc'[p] = "move_back"
          BY <4>2, <5>2, <5>3, RemoveEffect
        <5>. QED
          BY <3>1, <5>1, <5>4, DataAssumption DEF Phase, BackupPcs
      <4>. QED
        BY <1>14, <4>1, <4>2
    <3>4. ASSUME NEW k \in todo[p] \ {i}
          PROVE  Phase(p, k)' <= Phase(p, k)
      <4>1. k \in Items /\ live'[k] = live[k]
        BY <3>4, ItemEffect
      <4>2. pc'[p] = "move_back" => Phase(p, k)' = IF live[k] = Torn THEN 1 ELSE 0
        BY <4>1 DEF Phase, BackupPcs
      <4>3. live[k] = Torn => Phase(p, k) = 1
        BY <3>1, DataAssumption DEF Phase, BackupPcs
      <4>4. CASE pc'[p] = "move_back"
        <5>1. Phase(p, k) \in 0 .. 3
          BY PhaseFacts
        <5>. QED
          BY <4>2, <4>3, <4>4, <5>1
      <4>5. CASE pc'[p] # "move_back"
        BY <1>12, <3>1, <4>1, <4>5
      <4>. QED
        BY <4>4, <4>5
    <3>. QED
      BY <1>11, <2>2, <3>2, <3>3, <3>4
  <2>. QED
    BY <2>1, <2>2
<1>16. CASE MoveBack(p, i)
  <2>1. todo'[p] = todo[p] \ {i}
    BY <1>16 DEF MoveBack, Goto
  <2>2. CASE pc[p] # "move_back"
    BY <1>1, <1>16, <2>1, <2>2 DEF MoveBack, Goto, Closer, Stage
  <2>3. CASE pc[p] = "move_back"
    <3>1. pc'[p] = IF i \in RethItems THEN "restore_reth" ELSE "restore_rest"
      BY <1>16, <2>3 DEF MoveBack, Goto
    <3>2. i \in RethItems <=> todo[p] \cap RethItems # {}
      BY <1>1, <2>3, ItemFacts DEF ControlInv, Control
    <3>3. Stage(p)' = Stage(p)
      BY <2>3, <3>1, <3>2 DEF Stage
    <3>. QED
      BY <1>1, <2>1, <3>3 DEF Closer
  <2>. QED
    BY <2>2, <2>3
<1>. QED
  BY <1>4, <1>5, <1>6, <1>7, <1>8, <1>9, <1>10, <1>13, <1>14, <1>16 DEF ItemStep

\* Every other step of its own takes a command to a later stage.
LEMMA StageCloser ==
  ASSUME IndInv, NEW p \in Commands,
         \/ CommandStep(p) /\ ~\E i \in Items : ItemStep(p, i)
         \/ IoError(p) \/ Kill(p) \/ CutDeletion(p)
  PROVE  Closer(p)
<1>. USE DEF IndInv, TypeOK
<1>1. Stage(p) \in 0 .. 14 /\ (Stage(p) = 0 <=> pc[p] = "idle")
      /\ (pc[p] # "move_back" => Stage(p) = StageOf[pc[p]])
  BY StageFacts
<1>2. ASSUME EndCommand(p), pc[p] # "idle"
      PROVE  Closer(p)
  BY <1>1, <1>2 DEF EndCommand, Goto, Closer, Stage, StageOf
<1>3. ASSUME pc[p] \in InstallPcs, Raise(p)
      PROVE  Closer(p)
  BY <1>1, <1>3 DEF Raise, Goto, Closer, Stage, StageOf, InstallPcs, BackupPcs
<1>4. CASE IoError(p)
  BY <1>3, <1>4 DEF IoError
<1>5. CASE Kill(p)
  BY <1>2, <1>5 DEF Kill, Stop
<1>6. CASE \/ CutDeletion(p) \/ RefuseRunningServices(p) \/ RefuseHeldLock(p)
           \/ MarkInstalled(p) \/ MarkRestored(p) \/ DeleteBackup(p) \/ RefuseDelete(p)
  BY <1>2, <1>6 DEF CutDeletion, RefuseRunningServices, RefuseHeldLock, MarkInstalled,
     MarkRestored, DeleteBackup, RefuseDelete
<1>7. CASE RequireServicesStopped(p) \/ AcquireSummitLock(p)
  BY <1>1, <1>7 DEF RequireServicesStopped, AcquireSummitLock, Goto, Closer, Stage,
     StageOf
<1>8. CASE CreateBackup(p) \/ BeginRollback(p)
  BY <1>1, <1>8 DEF CreateBackup, BeginRollback, Goto, Closer, Stage, StageOf
<1>9. CASE NextLoop(p)
  <2>1. pc[p] \in DOMAIN NextPc /\ pc'[p] = NextPc[pc[p]]
    BY <1>9 DEF NextLoop, Goto
  <2>. QED
    BY <1>1, <2>1 DEF NextPc, Closer, Stage, StageOf
<1>. QED
  BY <1>4, <1>5, <1>6, <1>7, <1>8, <1>9 DEF CommandStep

\* No step of another command takes back what a command has done.
LEMMA OthersHoldBack ==
  ASSUME IndInv, NEW p \in Commands, ActsAlone(p) \/ CutDeletion(p),
         NEW r \in Commands \ {p}
  PROVE  NoFarther(r)
<1>. USE DEF IndInv, TypeOK
<1>1. pc'[r] = pc[r] /\ todo'[r] = todo[r] /\ bk'[r] = bk[r]
  <2>1. CASE ActsAlone(p)
    BY <2>1, CommandFrame DEF OthersUnchanged
  <2>2. CASE CutDeletion(p)
    BY <2>2 DEF CutDeletion, EndCommand, Goto
  <2>. QED
    BY <2>1, <2>2
<1>2. Stage(r)' = Stage(r)
  BY <1>1 DEF Stage
<1>3. ASSUME NEW i \in todo[r]
      PROVE  Phase(r, i)' <= Phase(r, i)
  <2>1. CASE pc[r] \in BackupPcs
    <3>1. receipt[bk[r]] = "installing" /\ bk[r] \in Backups /\ pc[r] \in InstallPcs
      BY <2>1, PcKinds, WorksOnBackup DEF InstallPcs, ControlInv, Control, ReceiptInv
    <3>2. pc[r] \in ActivePcs /\ pc[r] \in LockedPcs
      BY <3>1, PcKinds
    <3>3. saved'[bk[r]] = saved[bk[r]]
      <4>1. CASE CutDeletion(p)
        BY <3>1, <4>1, CutEffect
      <4>2. CASE ActsAlone(p)
        <5>1. ~\E j \in Items : ItemStep(p, j)
          BY <3>2, PcKinds, AloneInside, ItemPc
        <5>2. bk[p] # bk[r] \/ ~DeleteBackup(p)
          BY <3>1 DEF DeleteBackup, ReceiptInv, ControlInv, Control
        <5>3. saved' = saved \/ DeleteBackup(p)
          BY <4>2, <5>1, LiveSavedEffect
        <5>. QED
          BY <3>1, <5>2, <5>3 DEF DeleteBackup
      <4>. QED
        BY <4>1, <4>2
    <3>. QED
      BY <1>1, <2>1, <3>3, PhaseFacts DEF Phase, InBackup
  <2>2. CASE pc[r] \in RestorePcs
    <3>1. live' = live
      <4>1. CASE CutDeletion(p)
        BY <4>1 DEF CutDeletion
      <4>2. CASE ActsAlone(p)
        <5>1. ~\E j \in Items : ItemStep(p, j)
          BY <2>2, PcKinds, AloneInside, ItemPc
        <5>. QED
          BY <4>2, <5>1, LiveSavedEffect
      <4>. QED
        BY <4>1, <4>2
    <3>2. pc[r] \notin BackupPcs
      BY <2>2 DEF RestorePcs, BackupPcs
    <3>. QED
      BY <1>1, <3>1, <3>2, PhaseFacts DEF Phase
  <2>3. CASE pc[r] \notin BackupPcs /\ pc[r] \notin RestorePcs
    BY <1>1, <2>3 DEF Phase, RestorePcs
  <2>. QED
    BY <2>1, <2>2, <2>3
<1>. QED
  BY <1>1, <1>2, <1>3 DEF NoFarther

\* Nor does a program: it fills paths that were empty.
LEMMA ProgramsHoldBack ==
  ASSUME IndInv, NEW q \in Programs, StartProgram(q) \/ StopProgram(q),
         NEW r \in Commands
  PROVE  NoFarther(r)
<1>. USE DEF IndInv, TypeOK
<1>1. pc' = pc /\ todo' = todo /\ bk' = bk /\ saved' = saved
      /\ \A i \in Items :
           live'[i] = live[i] \/ (live[i] = Absent /\ live'[i] = Fresh)
  BY ProgramEffect DEF process
<1>2. Fresh # Absent /\ Fresh # Torn
  BY DataAssumption
<1>3. \A i \in todo[r] : Phase(r, i)' <= Phase(r, i)
  BY <1>1, <1>2 DEF Phase, InBackup
<1>. QED
  BY <1>1, <1>3 DEF NoFarther, Stage

\* Commands come to an end: each step of one brings it closer, a kill or an
\* error included, and nothing that others do takes it back.  With NeverStuck,
\* this is CommandsFinish but for the scheduling of the process.
THEOREM CommandsAdvance ==
  Spec => [][\A p \in Commands : pc[p] # "idle" =>
               /\ Closer(p) \/ NoFarther(p)
               /\ CommandStep(p) => Closer(p)]_vars
<1>1. ASSUME IndInv, [Next]_vars, NEW p \in Commands, pc[p] # "idle"
      PROVE  /\ Closer(p) \/ NoFarther(p)
             /\ CommandStep(p) => Closer(p)
  <2>1. CommandStep(p) \/ IoError(p) \/ Kill(p) \/ CutDeletion(p) => Closer(p)
    BY <1>1, ItemCloser, StageCloser
  <2>2. ~Operator(p)
    BY <1>1 DEF Operator, StartInstall, StartRollback, StartDelete
  <2>3. CASE UNCHANGED vars
    <3>1. pc' = pc /\ todo' = todo /\ bk' = bk /\ saved' = saved /\ live' = live
      BY <2>3 DEF vars, disk, process
    <3>2. Stage(p)' = Stage(p)
      BY <3>1 DEF Stage
    <3>3. \A i \in todo[p] : Phase(p, i)' <= Phase(p, i)
      BY <3>1, PhaseFacts DEF Phase, InBackup
    <3>. QED
      BY <2>1, <3>1, <3>2, <3>3 DEF NoFarther
  <2>4. ASSUME NEW r \in Commands \ {p}, ActsAlone(r) \/ CutDeletion(r)
        PROVE  NoFarther(p)
    BY <1>1, <2>4, OthersHoldBack
  <2>5. ASSUME NEW q \in Programs, StartProgram(q) \/ StopProgram(q)
        PROVE  NoFarther(p)
    BY <1>1, <2>5, ProgramsHoldBack
  <2>. QED
    BY <1>1, <2>1, <2>2, <2>3, <2>4, <2>5 DEF Next, ActsAlone
<1>2. IndInv /\ [Next]_vars =>
        [\A p \in Commands : pc[p] # "idle" =>
           /\ Closer(p) \/ NoFarther(p)
           /\ CommandStep(p) => Closer(p)]_vars
  BY <1>1
<1>. QED
  BY <1>2, Invariance, PTL DEF Spec
=============================================================================
