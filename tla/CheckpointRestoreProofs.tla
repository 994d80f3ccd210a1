---------------------- MODULE CheckpointRestoreProofs ----------------------
(***************************************************************************)
(* What an install backs up, and that every way back restores it: the      *)
(* second half of the inductive invariant of CheckpointTransaction.        *)
(***************************************************************************)
EXTENDS CheckpointTransactionProofs

-----------------------------------------------------------------------------
(* Frames.                                                                 *)

\* Program counters are those of an install, of a restore, or of neither.
LEMMA PcKinds ==
  /\ \A l \in InstallPcs : l \notin RestorePcs /\ l \in ActivePcs
  /\ \A l \in RestorePcs : l \notin InstallPcs /\ l \in ActivePcs
  /\ \A l \in ActivePcs : l \in LockedPcs /\ l \notin PreparePcs
       /\ l # "idle" /\ l # "confirm_delete"
  BY ActiveLocked DEF ActivePcs, InstallPcs, BackupPcs, RestorePcs, PreparePcs

\* A command outside the lock changes nothing on disk but a backup it deletes.
LEMMA QuietDisk ==
  ASSUME TypeOK, ControlInv, NEW p \in Commands, ActsAlone(p),
         pc[p] \notin LockedPcs
  PROVE  /\ UNCHANGED <<live, snapshot, previous>>
         /\ \A b \in Backups :
              \/ saved'[b] = saved[b] /\ receipt'[b] = receipt[b]
              \/ b = bk[p] /\ DeleteBackup(p) /\ b \in compromised'
                   /\ receipt'[b] = "absent"
<1>1. ~CreateBackup(p) /\ ~MarkInstalled(p) /\ ~MarkRestored(p)
  BY DEF CreateBackup, MarkInstalled, MarkRestored, LockedPcs, InstallPcs, RestorePcs
<1>2. ~\E i \in Items : ItemStep(p, i)
  BY ItemPc, PcKinds
<1>3. UNCHANGED <<live, snapshot, previous>> /\ (saved' = saved \/ DeleteBackup(p))
  BY <1>1, <1>2, LiveSavedEffect
<1>4. CASE DeleteBackup(p)
  BY <1>3, <1>4 DEF DeleteBackup, TypeOK
<1>5. CASE ~DeleteBackup(p)
  BY <1>1, <1>3, <1>5, ReceiptEffect
<1>. QED
  BY <1>3, <1>4, <1>5

\* While a command is inside, programs that hold the lock do not start, and
\* the others only create Reth items that are missing.
LEMMA ProgramEffect ==
  ASSUME TypeOK, LockInv, NEW q \in Programs, StartProgram(q) \/ StopProgram(q)
  PROVE  /\ UNCHANGED <<saved, receipt, previous, process, bounds, history>>
         /\ \A i \in Items :
              live'[i] = live[i] \/ (live[i] = Absent /\ live'[i] = Fresh)
         /\ \A p \in Commands : pc[p] \in LockedPcs =>
              \A i \in Items \ RethItems : live'[i] = live[i]
<1>1. CASE StartProgram(q)
  <2>1. \A p \in Commands : pc[p] \in LockedPcs => q \notin LockTaking
    BY <1>1, ProgramsAssumption DEF StartProgram, LockInv
  <2>. QED
    BY <1>1, <2>1, ProgramsAssumption DEF StartProgram
<1>2. CASE StopProgram(q)
  BY <1>2 DEF StopProgram, disk
<1>. QED
  BY <1>1, <1>2

\* A node program creates no checkpoint data.
LEMMA ProgramBirth ==
  ASSUME TypeOK, ControlInv, LockInv, BirthInv, NEW q \in Programs,
         StartProgram(q) \/ StopProgram(q)
  PROVE  BirthInv'
<1>1. UNCHANGED <<saved, receipt, previous, process, bounds, history>>
      /\ \A i \in Items : live'[i] = live[i] \/ live'[i] = Fresh
  BY ProgramEffect
<1>2. \A b \in Backups : Unborn(b) => Unborn(b)'
  BY <1>1, DataAssumption DEF Unborn, history
<1>3. ASSUME NEW p \in Commands, op'[p] = "install", pc'[p] \in PreparePcs
      PROVE  Unborn(bk[p])'
  <2>1. UNCHANGED <<op, pc, bk>> /\ bk[p] \in Backups
    BY <1>1, <1>3, WorksOnBackup DEF process, PreparePcs
  <2>2. Unborn(bk[p]) /\ Fresh # bk[p]
    BY <1>3, <2>1, DataAssumption DEF BirthInv
  <2>. QED
    BY <1>1, <2>1, <2>2 DEF Unborn, history
<1>. QED
  BY <1>1, <1>2, <1>3, InstallsAreBackups DEF BirthInv, process, bounds

-----------------------------------------------------------------------------
(* Children and flags.                                                     *)

\* No command puts checkpoint data into the Summit directory.
LEMMA CommandChild ==
  ASSUME TypeOK, ControlInv, ChildInv, NEW p \in Commands, ActsAlone(p)
  PROVE  ChildInv'
<1>d. \A d \in {Absent, Torn} : d \notin Backups
  BY DataAssumption
<1>. SUFFICES ASSUME NEW c \in Children
              PROVE  /\ live'[c] \notin Backups
                     /\ \A b \in Backups :
                          saved'[b][c] \notin Backups /\ snapshot'[b][c] \notin Backups
  BY DEF ChildInv
<1>c. c \in Items
  BY ItemFacts
<1>1. CASE \E i \in Items : ItemStep(p, i)
  <2>1. PICK i \in Items : ItemStep(p, i)
    BY <1>1
  <2>2. pc[p] = "install" => i \notin Children
    BY <2>1, ItemPc, ItemFacts DEF ControlInv, Control
  <2>3. bk[p] \in Backups
    BY <2>1, ItemPc, PcKinds, WorksOnBackup
  <2>4. snapshot' = snapshot
    BY <2>1, ItemEffect
  <2>5. live'[c] \notin Backups
    BY <1>c, <1>d, <2>1, <2>2, <2>3, ItemEffect DEF ChildInv
  <2>6. \A b \in Backups : saved'[b][c] \notin Backups
    BY <1>c, <1>d, <2>1, <2>3, ItemEffect DEF ChildInv
  <2>. QED
    BY <2>4, <2>5, <2>6 DEF ChildInv
<1>2. CASE ~\E i \in Items : ItemStep(p, i)
  <2>1. live' = live
    BY <1>2, LiveSavedEffect
  <2>2. \A b \in Backups : saved'[b] = saved[b] \/ saved'[b] = Nothing
    BY <1>2, LiveSavedEffect DEF DeleteBackup, TypeOK
  <2>3. \A b \in Backups : snapshot'[b] = snapshot[b] \/ snapshot'[b] = live
    BY <1>2, LiveSavedEffect DEF CreateBackup, TypeOK
  <2>4. Nothing[c] \notin Backups
    BY <1>c, <1>d DEF Nothing
  <2>. QED
    BY <2>1, <2>2, <2>3, <2>4 DEF ChildInv
<1>. QED
  BY <1>1, <1>2

\* No node program puts checkpoint data into the Summit directory.
LEMMA ProgramChild ==
  ASSUME TypeOK, LockInv, ChildInv, NEW q \in Programs,
         StartProgram(q) \/ StopProgram(q)
  PROVE  ChildInv'
  BY ProgramEffect, ItemFacts, DataAssumption DEF ChildInv, history

\* The receipt's flags go on saying what existed when it was written.
LEMMA CommandFlag ==
  ASSUME TypeOK, ControlInv, LockInv, BirthInv, ReceiptInv, FlagInv, InstallInv,
         NEW p \in Commands, ActsAlone(p)
  PROVE  FlagInv'
<1>. SUFFICES ASSUME NEW b \in Backups, b \notin compromised',
                     receipt'[b] \in {"installing", "installed"}
              PROVE  /\ \A i \in Items : snapshot'[b][i] # b /\ saved'[b][i] # b
                     /\ \A i \in Flagged : i \in previous'[b] <=> snapshot'[b][i] # Absent
  BY DEF FlagInv
<1>d. b \notin {Absent, Torn} /\ b \notin compromised
  BY DataAssumption, CompromisedEffect
<1>1. CASE CreateBackup(p) /\ bk[p] = b
  <2>1. Unborn(b)
    BY <1>1, CreatesUnborn
  <2>2. saved' = saved /\ snapshot'[b] = live
        /\ previous'[b] = {i \in Flagged : live[i] # Absent}
    BY <1>1, LiveSavedEffect DEF CreateBackup, TypeOK
  <2>. QED
    BY <2>1, <2>2 DEF Unborn
<1>2. CASE ~(CreateBackup(p) /\ bk[p] = b)
  <2>1. receipt[b] \in {"installing", "installed"}
    <3>1. CASE MarkInstalled(p) /\ bk[p] = b
      BY <3>1, PcKinds DEF MarkInstalled, ReceiptInv, ControlInv, Control, InstallPcs
    <3>2. CASE ~(MarkInstalled(p) /\ bk[p] = b)
      BY <1>2, <3>2, ReceiptEffect DEF WritesReceipt, TypeOK
    <3>. QED
      BY <3>1, <3>2
  <2>2. snapshot'[b] = snapshot[b] /\ previous'[b] = previous[b]
    BY <1>2, LiveSavedEffect DEF CreateBackup, TypeOK
  <2>3. \A i \in Items : saved'[b][i] # b
    <3>1. CASE \E i \in Items : ItemStep(p, i)
      <4>1. PICK i \in Items : ItemStep(p, i)
        BY <3>1
      <4>2. CASE saved'[b][i] = saved[b][i]
        BY <1>d, <2>1, <4>1, <4>2, ItemEffect DEF FlagInv
      <4>3. CASE saved'[b][i] # saved[b][i]
        <5>1. bk[p] = b
          BY <4>1, <4>3, ItemEffect
        <5>2. CASE pc[p] \in BackupPcs
          <6>1. InstallProgress(p, i) /\ ~InPlace(p, i)
            BY <5>2, PcFacts DEF InstallInv, InPlace, BackupPcs
          <6>2. live[i] # b
            BY <5>1, <6>1 DEF InstallProgress
          <6>. QED
            BY <1>d, <2>1, <4>1, <5>1, <6>2, ItemEffect DEF FlagInv
        <5>3. CASE pc[p] \notin BackupPcs
          <6>1. MoveBack(p, i)
            BY <4>1, <4>3, <5>3 DEF ItemStep, MoveToBackup, BeginCopy, FinishCopy,
               SkipMissing, InstallItem, RefuseInstallItem, BeginRemove,
               FinishRemove, RefuseMoveBack, RestoreFile, LeaveItem, At, disk,
               BackupPcs
          <6>2. saved'[b][i] = Absent
            BY <5>1, <6>1 DEF MoveBack, TypeOK
          <6>. QED
            BY <1>d, <2>1, <4>1, <5>1, <6>2, ItemEffect DEF FlagInv
        <5>. QED
          BY <5>2, <5>3
      <4>. QED
        BY <4>2, <4>3
    <3>2. CASE ~\E i \in Items : ItemStep(p, i)
      BY <1>d, <2>1, <3>2, LiveSavedEffect DEF FlagInv, DeleteBackup, Nothing, TypeOK
    <3>. QED
      BY <3>1, <3>2
  <2>. QED
    BY <1>d, <2>1, <2>2, <2>3 DEF FlagInv
<1>. QED
  BY <1>1, <1>2

\* Node programs do not touch receipts or backups.
LEMMA ProgramFlag ==
  ASSUME TypeOK, LockInv, FlagInv, NEW q \in Programs,
         StartProgram(q) \/ StopProgram(q)
  PROVE  FlagInv'
  BY ProgramEffect DEF FlagInv, history

-----------------------------------------------------------------------------
(* Progress of an install.                                                 *)

\* A finished item leaves the loop, and the others stay where they are.
LEMMA InstallFrame ==
  ASSUME TypeOK, NEW p \in Commands, NEW i \in Items, pc[p] \in InstallPcs,
         ItemDone(p, i), i \in todo[p]
  PROVE  /\ pc'[p] = pc[p]
         /\ \A j \in Items \ {i} : Pending(p, j)' = Pending(p, j)
                                   /\ InPlace(p, j)' = InPlace(p, j)
         /\ pc[p] \in BackupPcs => ~InPlace(p, i) /\ ~InPlace(p, i)' /\ Pending(p, i)
         /\ pc[p] = "install" => ~Pending(p, i) /\ ~Pending(p, i)' /\ ~InPlace(p, i)
                                 /\ (i \in Flagged => InPlace(p, i)')
         /\ pc[p] = "backup_reth" /\ i \in RethItems => ~Pending(p, i)'
         /\ pc[p] = "backup_summit" /\ i \in Children => ~Pending(p, i)'
         /\ pc[p] = "backup_rest" => ~Pending(p, i)'
  BY ItemFacts DEF ItemDone, Goto, TypeOK, Pending, InPlace, InstallPcs, BackupPcs

\* An install's file-system call carries every item on to where the install
\* has come.
LEMMA InstallItemStep ==
  ASSUME TypeOK, ControlInv, ReceiptInv, ChildInv, FlagInv, InstallInv,
         NEW p \in Commands, NEW i \in Items, ItemStep(p, i),
         pc[p] \in InstallPcs, pc'[p] \in InstallPcs
  PROVE  \A j \in Items : InstallProgress(p, j)'
<1>. USE DEF TypeOK
<1>c. /\ op[p] = "install" /\ bk[p] \in Backups /\ receipt[bk[p]] = "installing"
      /\ bk[p] \notin {Absent, Torn}
      /\ i \in todo[p]
  BY ItemPc, PcKinds, WorksOnBackup, DataAssumption
  DEF ControlInv, Control, ReceiptInv
<1>k. /\ pc[p] = "backup_reth" => todo[p] \subseteq RethItems
      /\ pc[p] = "backup_summit" => todo[p] \subseteq Children
      /\ pc[p] = "backup_rest" => todo[p] \subseteq OtherItems
      /\ pc[p] = "install" => todo[p] \subseteq Flagged
  BY DEF ControlInv, Control
<1>g. /\ \A j \in Items : InstallProgress(p, j)
      /\ \A j \in Items : snapshot[bk[p]][j] # bk[p]
      /\ \A j \in Flagged : j \in previous[bk[p]] <=> snapshot[bk[p]][j] # Absent
  <2>1. bk[p] \notin compromised
    BY <1>c, PcKinds DEF ReceiptInv
  <2>. QED
    BY <1>c, <2>1 DEF InstallInv, FlagInv
<1>e. /\ snapshot' = snapshot
      /\ \A j \in Items \ {i} : live'[j] = live[j] /\ saved'[bk[p]][j] = saved[bk[p]][j]
  BY <1>c, ItemEffect
<1>0. ASSUME ItemDone(p, i), bk' = bk, InstallProgress(p, i)'
      PROVE  \A j \in Items : InstallProgress(p, j)'
  <2>1. SUFFICES ASSUME NEW j \in Items \ {i}  PROVE InstallProgress(p, j)'
    BY <1>0
  <2>2. Pending(p, j)' = Pending(p, j) /\ InPlace(p, j)' = InPlace(p, j)
    BY <1>0, <1>c, InstallFrame
  <2>3. live'[j] = live[j] /\ saved'[bk[p]][j] = saved[bk[p]][j]
    BY <1>e
  <2>. QED
    BY <1>0, <1>g, <1>e, <2>2, <2>3 DEF InstallProgress
<1>1. CASE MoveToBackup(p, i)
  <2>1. ItemDone(p, i) /\ bk' = bk /\ i \in Moved /\ pc[p] \in BackupPcs
        /\ (i \in Children \/ snapshot[bk[p]][i] # Absent)
    BY <1>1, <1>g, ItemFacts DEF MoveToBackup, At, PreviousExists
  <2>2. live'[i] = Absent /\ saved'[bk[p]][i] = live[i]
    BY <1>1, <1>c DEF MoveToBackup
  <2>3. ~InPlace(p, i) /\ ~InPlace(p, i)' /\ Pending(p, i) /\ ~Pending(p, i)'
    BY <1>c, <1>k, <2>1, InstallFrame DEF BackupPcs
  <2>4. live[i] = snapshot[bk[p]][i]
    BY <1>g, <2>1, <2>3 DEF InstallProgress
  <2>5. InstallProgress(p, i)'
    BY <1>c, <1>e, <2>1, <2>2, <2>3, <2>4, ItemFacts DEF InstallProgress
  <2>. QED
    BY <1>0, <2>1, <2>5
<1>2. CASE BeginCopy(p, i)
  <2>1. UNCHANGED <<live, pc, bk, todo>> /\ i \in PrivateFiles /\ pc[p] = "backup_rest"
        /\ snapshot[bk[p]][i] # Absent /\ saved'[bk[p]][i] = Torn
    BY <1>2, <1>c, <1>g, ItemFacts DEF BeginCopy, process, At, PreviousExists
  <2>2. \A j \in Items : Pending(p, j)' = Pending(p, j) /\ InPlace(p, j)' = InPlace(p, j)
    BY <2>1 DEF Pending, InPlace
  <2>3. Pending(p, i)
    BY <1>c, <2>1 DEF Pending, BackupPcs
  <2>. QED
    BY <1>c, <1>g, <1>e, <2>1, <2>2, <2>3, ItemFacts DEF InstallProgress
<1>3. CASE FinishCopy(p, i)
  <2>1. ItemDone(p, i) /\ bk' = bk /\ i \in PrivateFiles /\ pc[p] = "backup_rest"
        /\ live' = live /\ saved'[bk[p]][i] = live[i]
    BY <1>3, <1>c DEF FinishCopy, At
  <2>2. ~InPlace(p, i) /\ ~InPlace(p, i)' /\ Pending(p, i) /\ ~Pending(p, i)'
    BY <1>c, <2>1, InstallFrame DEF BackupPcs
  <2>3. InstallProgress(p, i)'
    BY <1>c, <1>g, <1>e, <2>1, <2>2, ItemFacts DEF InstallProgress
  <2>. QED
    BY <1>0, <2>1, <2>3
<1>4. CASE SkipMissing(p, i)
  <2>1. ItemDone(p, i) /\ bk' = bk /\ pc[p] \in {"backup_reth", "backup_rest"}
        /\ i \notin previous[bk[p]] /\ UNCHANGED <<live, saved>>
    BY <1>4 DEF SkipMissing, At, disk, PreviousExists
  <2>2. ~InPlace(p, i) /\ ~InPlace(p, i)' /\ Pending(p, i) /\ ~Pending(p, i)'
    BY <1>c, <1>k, <2>1, InstallFrame DEF BackupPcs
  <2>3. i \in Flagged /\ snapshot[bk[p]][i] = Absent /\ i \notin Children
    BY <1>c, <1>k, <1>g, <2>1, ItemFacts
  <2>4. saved[bk[p]][i] = Absent
    BY <1>g, <2>2, <2>3, ItemFacts DEF InstallProgress
  <2>5. InstallProgress(p, i)'
    BY <1>c, <1>g, <1>e, <2>1, <2>2, <2>3, <2>4 DEF InstallProgress
  <2>. QED
    BY <1>0, <2>1, <2>5
<1>5. CASE InstallItem(p, i)
  <2>1. ItemDone(p, i) /\ bk' = bk /\ pc[p] = "install" /\ saved' = saved
        /\ live'[i] = bk[p] /\ i \in Flagged
    BY <1>5, <1>c, <1>k DEF InstallItem, At
  <2>2. ~Pending(p, i) /\ ~Pending(p, i)' /\ InPlace(p, i)' /\ i \notin Children
    BY <1>c, <2>1, InstallFrame, ItemFacts
  <2>3. InstallProgress(p, i)'
    BY <1>c, <1>g, <1>e, <2>1, <2>2 DEF InstallProgress
  <2>. QED
    BY <1>0, <2>1, <2>3
<1>6. ~RefuseInstallItem(p, i) /\ ~RefuseMoveBack(p, i)
  BY PcKinds, EndOwner DEF RefuseInstallItem, RefuseMoveBack, At, InstallPcs,
     BackupPcs, RestorePcs
<1>7. /\ ~BeginRemove(p, i) /\ ~FinishRemove(p, i) /\ ~MoveBack(p, i)
      /\ ~RestoreFile(p, i) /\ ~LeaveItem(p, i)
  BY DEF BeginRemove, FinishRemove, MoveBack, RestoreFile, LeaveItem, At,
     InstallPcs, BackupPcs
<1>. QED
  BY <1>1, <1>2, <1>3, <1>4, <1>5, <1>6, <1>7 DEF ItemStep

\* An install leaves a loop with that loop's items dealt with.
LEMMA InstallLoopStep ==
  ASSUME TypeOK, ControlInv, InstallInv, NEW p \in Commands, NextLoop(p),
         pc[p] \in InstallPcs
  PROVE  \A j \in Items : InstallProgress(p, j)'
<1>. USE DEF TypeOK
<1>1. /\ todo[p] = {} /\ UNCHANGED <<live, saved, snapshot, bk>>
      /\ pc'[p] = NextPc[pc[p]] /\ todo'[p] = Listing(p, NextPc[pc[p]])
      /\ pc[p] \in DOMAIN NextPc
  BY DEF NextLoop, Goto, disk, history
<1>2. \A j \in Items : InstallProgress(p, j)
  BY DEF InstallInv
<1>3. CASE pc[p] = "backup_reth"
  <2>1. pc'[p] = "backup_summit" /\ todo'[p] = {c \in Children : live[c] # Absent}
    BY <1>1, <1>3 DEF NextPc, Listing
  <2>2. \A j \in Items :
          /\ ~InPlace(p, j) /\ ~InPlace(p, j)'
          /\ Pending(p, j) <=> j \notin RethItems
          /\ Pending(p, j)' <=> j \in OtherItems \/ (j \in Children /\ live[j] # Absent)
    BY <1>1, <1>3, <2>1 DEF InPlace, Pending, BackupPcs
  <2>. QED
    BY <1>1, <1>2, <2>2, ItemFacts DEF InstallProgress
<1>4. CASE pc[p] = "backup_summit"
  <2>1. pc'[p] = "backup_rest" /\ todo'[p] = OtherItems
    BY <1>1, <1>4, ListingRange DEF NextPc
  <2>2. \A j \in Items : /\ ~InPlace(p, j) /\ ~InPlace(p, j)'
                         /\ Pending(p, j) <=> j \in OtherItems
                         /\ Pending(p, j)' <=> j \in OtherItems
    BY <1>1, <1>4, <2>1 DEF InPlace, Pending, BackupPcs
  <2>. QED
    BY <1>1, <1>2, <2>2 DEF InstallProgress
<1>5. CASE pc[p] = "backup_rest"
  <2>1. pc'[p] = "install" /\ todo'[p] = Flagged
    BY <1>1, <1>5, ListingRange DEF NextPc
  <2>2. \A j \in Items : /\ ~InPlace(p, j) /\ ~InPlace(p, j)'
                         /\ ~Pending(p, j) /\ ~Pending(p, j)'
    BY <1>1, <1>5, <2>1 DEF InPlace, Pending, BackupPcs
  <2>. QED
    BY <1>1, <1>2, <2>2 DEF InstallProgress
<1>6. CASE pc[p] = "install"
  <2>1. pc'[p] = "seal_install" /\ todo'[p] = {}
    BY <1>1, <1>6, ListingRange DEF NextPc
  <2>2. \A j \in Items : /\ InPlace(p, j) <=> j \in Flagged
                         /\ InPlace(p, j)' <=> j \in Flagged
                         /\ ~Pending(p, j) /\ ~Pending(p, j)'
    BY <1>1, <1>6, <2>1 DEF InPlace, Pending, BackupPcs
  <2>. QED
    BY <1>1, <1>2, <2>2 DEF InstallProgress
<1>7. pc[p] # "seal_install"
  BY <1>1 DEF NextPc
<1>. QED
  BY <1>3, <1>4, <1>5, <1>6, <1>7 DEF InstallPcs, BackupPcs

\* A new receipt describes the state in front of it.
LEMMA CreateBackupStep ==
  ASSUME TypeOK, ControlInv, BirthInv, NEW p \in Commands, CreateBackup(p)
  PROVE  \A j \in Items : InstallProgress(p, j)'
<1>. USE DEF TypeOK
<1>1. Unborn(bk[p]) /\ bk[p] \in Backups
  BY CreatesUnborn, WorksOnBackup, PcKinds
<1>2. /\ snapshot'[bk[p]] = live /\ UNCHANGED <<live, saved, bk>>
      /\ pc'[p] = "backup_reth" /\ todo'[p] = RethItems
  BY <1>1 DEF CreateBackup, Goto
<1>3. \A j \in Items : Pending(p, j)' /\ ~InPlace(p, j)'
  BY <1>2 DEF Pending, InPlace, BackupPcs
<1>4. \A j \in Items : saved[bk[p]][j] = Absent /\ live[j] # bk[p]
  BY <1>1 DEF Unborn, Nothing
<1>. QED
  BY <1>2, <1>3, <1>4 DEF InstallProgress

\* Where a command may come from when it is found moving state.
LEMMA ComesFrom ==
  ASSUME TypeOK, ControlInv, NEW p \in Commands, ActsAlone(p), pc'[p] \in ActivePcs
  PROVE  /\ bk'[p] = bk[p] /\ op'[p] = op[p]
         /\ pc'[p] \in InstallPcs =>
              \/ CreateBackup(p)
              \/ pc[p] \in InstallPcs /\ (NextLoop(p) \/ \E i \in Items : ItemStep(p, i))
         /\ pc'[p] \in RestorePcs =>
              \/ BeginRollback(p)
              \/ pc[p] \in InstallPcs /\ Raise(p) /\ UNCHANGED disk
              \/ pc[p] \in RestorePcs /\ (NextLoop(p) \/ \E i \in Items : ItemStep(p, i))
<1>. USE DEF TypeOK
<1>0. ~Operator(p) /\ ~EndCommand(p) /\ ~Stop(p)
  BY PcKinds DEF Operator, StartInstall, StartRollback, StartDelete, EndCommand,
     Stop, Goto, PreparePcs
<1>1. bk'[p] = bk[p] /\ op'[p] = op[p]
  BY <1>0, PcKinds, OwnerEffect
<1>2. CASE IoError(p) \/ Kill(p)
  BY <1>0, <1>1, <1>2, PcKinds, EndOwner DEF IoError, Kill, Raise, RestorePcs
<1>3. CASE \E i \in Items : ItemStep(p, i)
  <2>1. PICK i \in Items : ItemStep(p, i)
    BY <1>3
  <2>2. CASE RefuseInstallItem(p, i) \/ RefuseMoveBack(p, i)
    <3>1. Raise(p) /\ UNCHANGED disk
      BY <2>2 DEF RefuseInstallItem, RefuseMoveBack
    <3>2. pc[p] \in InstallPcs
      BY <1>0, <3>1 DEF Raise
    <3>3. pc'[p] \in RestorePcs
      BY <3>1, <3>2, <1>0, EndOwner DEF RestorePcs, Raise, Goto
    <3>. QED
      BY <1>1, <3>1, <3>2, <3>3, PcKinds
  <2>3. CASE ~RefuseInstallItem(p, i) /\ ~RefuseMoveBack(p, i)
    <3>1. pc[p] \in InstallPcs <=> pc'[p] \in InstallPcs
      BY <2>1, <2>3, PcKinds DEF ItemStep, MoveToBackup, BeginCopy, FinishCopy,
         SkipMissing, InstallItem, BeginRemove, FinishRemove, MoveBack,
         RestoreFile, LeaveItem, ItemDone, Goto, process, At, InstallPcs,
         BackupPcs, RestorePcs
    <3>2. pc[p] \in ActivePcs
      BY <2>1, ItemPc
    <3>. QED
      BY <1>1, <1>3, <3>1, <3>2, PcKinds DEF ActivePcs
  <2>. QED
    BY <2>2, <2>3
<1>4. CASE CommandStep(p) /\ ~\E i \in Items : ItemStep(p, i)
  <2>1. CASE RequireServicesStopped(p) \/ AcquireSummitLock(p)
    BY <2>1, PcKinds DEF RequireServicesStopped, AcquireSummitLock, Goto, PreparePcs
  <2>2. CASE CreateBackup(p)
    BY <1>1, <2>2, PcKinds DEF CreateBackup, Goto, InstallPcs, BackupPcs
  <2>3. CASE BeginRollback(p)
    BY <1>1, <2>3, PcKinds DEF BeginRollback, Goto, RestorePcs
  <2>4. CASE NextLoop(p)
    <3>1. pc[p] \in ActivePcs /\ (pc[p] \in InstallPcs <=> pc'[p] \in InstallPcs)
      BY <2>4 DEF NextLoop, NextPc, Goto, ActivePcs, InstallPcs, BackupPcs, RestorePcs
    <3>. QED
      BY <1>1, <2>4, <3>1, PcKinds DEF ActivePcs
  <2>5. CASE RefuseRunningServices(p) \/ RefuseHeldLock(p) \/ MarkInstalled(p)
               \/ MarkRestored(p) \/ DeleteBackup(p) \/ RefuseDelete(p)
    BY <1>0, <2>5 DEF RefuseRunningServices, RefuseHeldLock, MarkInstalled,
       MarkRestored, DeleteBackup, RefuseDelete
  <2>. QED
    BY <1>4, <2>1, <2>2, <2>3, <2>4, <2>5 DEF CommandStep
<1>. QED
  BY <1>0, <1>2, <1>3, <1>4 DEF ActsAlone

\* No step of one command reaches the backup of an install in progress.
LEMMA InstallUndisturbed ==
  ASSUME TypeOK, ControlInv, LockInv, ReceiptInv, NEW p \in Commands, ActsAlone(p),
         NEW r \in Commands \ {p}, pc'[r] \in InstallPcs
  PROVE  /\ pc'[r] = pc[r] /\ bk'[r] = bk[r] /\ todo'[r] = todo[r] /\ seen'[r] = seen[r]
         /\ UNCHANGED <<live, snapshot, previous>>
         /\ bk[r] \in Backups /\ saved'[bk[r]] = saved[bk[r]]
<1>1. /\ pc'[r] = pc[r] /\ bk'[r] = bk[r] /\ todo'[r] = todo[r] /\ seen'[r] = seen[r]
      /\ op'[r] = op[r]
  BY CommandFrame DEF OthersUnchanged
<1>2. pc[r] \in LockedPcs /\ bk[r] \in Backups /\ receipt[bk[r]] = "installing"
  BY <1>1, PcKinds, WorksOnBackup DEF ReceiptInv, ControlInv, Control
<1>3. pc[p] \notin LockedPcs
  BY <1>2, AloneInside
<1>4. DeleteBackup(p) => bk[p] # bk[r]
  BY <1>2 DEF DeleteBackup, ReceiptInv, ControlInv, Control
<1>. QED
  BY <1>1, <1>2, <1>3, <1>4, QuietDisk

\* No command's step disturbs an install in progress.
LEMMA CommandInstall ==
  ASSUME TypeOK, ControlInv, LockInv, BirthInv, ReceiptInv, ChildInv, FlagInv,
         InstallInv, NEW p \in Commands, ActsAlone(p)
  PROVE  InstallInv'
<1>1. ASSUME NEW r \in Commands \ {p}, pc'[r] \in InstallPcs, NEW i \in Items
      PROVE  InstallProgress(r, i)'
  BY <1>1, InstallUndisturbed DEF InstallInv, InstallProgress, InPlace, Pending
<1>2. ASSUME pc'[p] \in InstallPcs, NEW i \in Items
      PROVE  InstallProgress(p, i)'
  BY <1>2, PcKinds, ComesFrom, CreateBackupStep, InstallLoopStep, InstallItemStep
<1>. QED
  BY <1>1, <1>2 DEF InstallInv

\* No node program disturbs the Summit half of an install in progress, and
\* Reth's programs only create what is missing.
LEMMA ProgramInstall ==
  ASSUME TypeOK, ControlInv, LockInv, InstallInv, NEW q \in Programs,
         StartProgram(q) \/ StopProgram(q)
  PROVE  InstallInv'
<1>. SUFFICES ASSUME NEW p \in Commands, pc'[p] \in InstallPcs, NEW i \in Items
              PROVE  InstallProgress(p, i)'
  BY DEF InstallInv
<1>1. UNCHANGED <<saved, snapshot, pc, bk, todo>>
  BY ProgramEffect DEF process, history
<1>2. pc[p] \in LockedPcs /\ bk[p] \in Backups /\ InstallProgress(p, i)
  BY <1>1, PcKinds, WorksOnBackup DEF InstallInv
<1>3. bk[p] # Absent /\ bk[p] # Fresh
  BY <1>2, DataAssumption
<1>4. (Pending(p, i)' <=> Pending(p, i)) /\ (InPlace(p, i)' <=> InPlace(p, i))
  BY <1>1 DEF Pending, InPlace
<1>5. CASE live'[i] = live[i]
  BY <1>1, <1>2, <1>4, <1>5 DEF InstallProgress
<1>6. CASE live'[i] # live[i]
  <2>1. live[i] = Absent /\ live'[i] = Fresh /\ i \in RethItems
    BY <1>2, <1>6, ProgramEffect
  <2>. QED
    BY <1>1, <1>2, <1>3, <1>4, <2>1, ItemFacts DEF InstallProgress
<1>. QED
  BY <1>5, <1>6

-----------------------------------------------------------------------------
(* An interrupted install stays recoverable.                               *)

\* No file-system call of the owner loses an item of an interrupted install.
LEMMA RecoverableItemStep ==
  ASSUME TypeOK, ControlInv, ReceiptInv, ChildInv, FlagInv, InstallInv,
         NEW p \in Commands, NEW i \in Items, ItemStep(p, i),
         NEW b \in Backups, b = bk[p], b \notin compromised,
         receipt[b] = "installing", Recoverable(b, i),
         pc[p] \in RestorePcs => RestoreProgress(p, i)
  PROVE  Recoverable(b, i)'
<1>. USE DEF TypeOK
<1>c. pc[p] \in ActivePcs /\ i \in todo[p] /\ b \notin {Absent, Torn}
  BY ItemPc, DataAssumption
<1>g. /\ snapshot[b][i] # b /\ saved[b][i] # b
      /\ i \in Flagged => (i \in previous[b] <=> snapshot[b][i] # Absent)
  BY DEF FlagInv
<1>p. pc[p] \in InstallPcs => InstallProgress(p, i)
  BY DEF InstallInv
<1>e. UNCHANGED <<snapshot, previous>>
  BY ItemEffect
<1>t. Torn # Absent
  BY DataAssumption
<1>1. CASE MoveToBackup(p, i)
  <2>1. /\ saved'[b][i] = live[i] /\ live'[i] = Absent /\ pc[p] \in BackupPcs
        /\ (i \in Children \/ snapshot[b][i] # Absent) /\ i \in Moved
    BY <1>1, <1>g, ItemFacts DEF MoveToBackup, At, PreviousExists
  <2>2. Pending(p, i)
    BY <1>c, <2>1 DEF Pending
  <2>3. live[i] = snapshot[b][i]
    BY <1>p, <2>1, <2>2, PcFacts DEF InstallProgress
  <2>. QED
    BY <1>c, <1>e, <2>1, <2>3 DEF Recoverable
<1>2. CASE BeginCopy(p, i) \/ FinishCopy(p, i)
  <2>1. live' = live /\ i \in PrivateFiles /\ pc[p] = "backup_rest"
    BY <1>2 DEF BeginCopy, FinishCopy, At
  <2>2. live[i] # b
    BY <1>p, <2>1 DEF InstallProgress, InPlace, InstallPcs, BackupPcs
  <2>. QED
    BY <1>e, <2>1, <2>2, ItemFacts DEF Recoverable
<1>3. CASE SkipMissing(p, i) \/ LeaveItem(p, i)
             \/ RefuseInstallItem(p, i) \/ RefuseMoveBack(p, i)
  BY <1>3, <1>e DEF SkipMissing, LeaveItem, RefuseInstallItem, RefuseMoveBack,
     disk, Recoverable
<1>4. CASE InstallItem(p, i)
  <2>1. /\ saved' = saved /\ live'[i] = b /\ pc[p] = "install"
        /\ (i \in Moved => live[i] = Absent)
    BY <1>4 DEF InstallItem, At
  <2>2. saved[b][i] = snapshot[b][i]
    BY <1>p, <2>1 DEF InstallProgress, Pending, InstallPcs, BackupPcs
  <2>. QED
    BY <1>e, <1>g, <2>1, <2>2 DEF Recoverable
<1>5. CASE BeginRemove(p, i) \/ FinishRemove(p, i)
  <2>1. saved' = saved /\ live'[i] \in {Absent, Torn}
    BY <1>5, RemoveEffect
  <2>2. pc[p] # "wipe"
    BY <1>c DEF ControlInv, Control, ReceiptInv, ActivePcs, RestorePcs
  <2>3. saved[b][i] # Absent \/ i \notin previous[b]
    <3>1. At(p, {"move_back"}, i) => saved[b][i] # Absent
      BY DEF At, RestoreProgress, InBackup, RestorePcs
    <3>. QED
      BY <1>5, <2>2, <3>1, RemoveEffect DEF InBackup, PreviousExists
  <2>4. i \in Flagged
    BY <1>5, <1>c, <2>2, RemoveEffect, ItemFacts DEF At, ControlInv, Control
  <2>. QED
    BY <1>c, <1>e, <1>g, <2>1, <2>3, <2>4 DEF Recoverable
<1>6. CASE MoveBack(p, i)
  <2>1. saved'[b][i] = Absent /\ live'[i] = saved[b][i] /\ saved[b][i] # Absent
        /\ i \in Moved
    BY <1>6 DEF MoveBack, InBackup
  <2>. QED
    BY <1>e, <1>g, <2>1 DEF Recoverable
<1>7. CASE RestoreFile(p, i)
  BY <1>7, <1>e, <1>g, ItemFacts DEF RestoreFile, Recoverable
<1>. QED
  BY <1>1, <1>2, <1>3, <1>4, <1>5, <1>6, <1>7 DEF ItemStep

\* No command's step loses an item of an untouched interrupted install.
LEMMA CommandInterrupted ==
  ASSUME TypeOK, ControlInv, LockInv, BirthInv, ReceiptInv, OtherInv, ChildInv,
         FlagInv, InstallInv, InterruptedInv, RestoreInv, NEW p \in Commands,
         ActsAlone(p)
  PROVE  InterruptedInv'
<1>. USE DEF TypeOK
<1>. SUFFICES ASSUME NEW b \in Backups, b \notin compromised',
                     receipt'[b] = "installing", NEW j \in Items
              PROVE  Recoverable(b, j)'
  BY DEF InterruptedInv
<1>0. b \notin compromised
  BY CompromisedEffect
<1>1. CASE CreateBackup(p) /\ bk[p] = b
  <2>1. Unborn(b)
    BY <1>1, CreatesUnborn
  <2>2. saved' = saved /\ live' = live /\ snapshot'[b] = live
    BY <1>1, LiveSavedEffect DEF CreateBackup
  <2>. QED
    BY <2>1, <2>2, ItemFacts DEF Unborn, Nothing, Recoverable
<1>2. CASE ~(CreateBackup(p) /\ bk[p] = b)
  <2>1. receipt[b] = "installing"
    BY <1>2, ReceiptEffect DEF WritesReceipt
  <2>2. Recoverable(b, j)
    BY <1>0, <2>1 DEF InterruptedInv
  <2>3. bk[p] # b => pc[p] \notin ActivePcs /\ ~CreateBackup(p)
    BY <1>0, <2>1 DEF OtherInv, CreateBackup, OtherInterrupted
  <2>4. CASE \E i \in Items : ItemStep(p, i)
    <3>1. PICK i \in Items : ItemStep(p, i)
      BY <2>4
    <3>2. bk[p] = b
      BY <2>3, <3>1, ItemPc
    <3>3. CASE i = j
      <4>1. pc[p] \in RestorePcs => RestoreProgress(p, i)
        BY <1>0, <2>1, <3>2 DEF RestoreInv
      <4>. QED
        BY <1>0, <2>1, <2>2, <3>1, <3>2, <3>3, <4>1, RecoverableItemStep
    <3>4. CASE i # j
      BY <2>2, <3>1, <3>2, <3>4, ItemEffect DEF Recoverable
    <3>. QED
      BY <3>3, <3>4
  <2>5. CASE ~\E i \in Items : ItemStep(p, i)
    <3>1. ~(DeleteBackup(p) /\ bk[p] = b)
      BY <2>1 DEF DeleteBackup, ReceiptInv, ControlInv, Control
    <3>2. live' = live /\ saved'[b] = saved[b]
      BY <2>5, <3>1, LiveSavedEffect DEF DeleteBackup
    <3>3. snapshot'[b] = snapshot[b] /\ previous'[b] = previous[b]
      BY <1>2, <2>5, LiveSavedEffect DEF CreateBackup
    <3>. QED
      BY <2>2, <3>2, <3>3 DEF Recoverable
  <2>. QED
    BY <2>4, <2>5
<1>. QED
  BY <1>1, <1>2

\* No node program loses an item of an interrupted install.
LEMMA ProgramInterrupted ==
  ASSUME TypeOK, LockInv, InterruptedInv, NEW q \in Programs,
         StartProgram(q) \/ StopProgram(q)
  PROVE  InterruptedInv'
<1>. SUFFICES ASSUME NEW b \in Backups, b \notin compromised',
                     receipt'[b] = "installing", NEW i \in Items
              PROVE  Recoverable(b, i)'
  BY DEF InterruptedInv
<1>1. UNCHANGED <<saved, receipt, previous, snapshot, compromised>>
  BY ProgramEffect DEF history
<1>2. Recoverable(b, i)
  BY <1>1 DEF InterruptedInv
<1>3. live'[i] = live[i] \/ (live[i] = Absent /\ live'[i] = Fresh)
  BY ProgramEffect
<1>4. Fresh # b
  BY DataAssumption
<1>. QED
  BY <1>1, <1>2, <1>3, <1>4 DEF Recoverable

-----------------------------------------------------------------------------
(* A finished install keeps its backup whole.                              *)

\* How a restore leaves its loops.
LEMMA RestoreEnds ==
  ASSUME TypeOK, ControlInv, NEW p \in Commands, ActsAlone(p), pc[p] \in RestorePcs
  PROVE  \/ pc'[p] \in RestorePcs /\ bk'[p] = bk[p]
         \/ MarkRestored(p)
         \/ receipt[bk[p]] = "installed" => bk[p] \in compromised'
<1>. USE DEF TypeOK
<1>0. ~Operator(p) /\ pc[p] \notin InstallPcs
  BY PcKinds DEF Operator, StartInstall, StartRollback, StartDelete
<1>1. Stop(p) \/ Raise(p) => (receipt[bk[p]] = "installed" => bk[p] \in compromised')
  BY <1>0 DEF Raise, Stop
<1>2. CASE IoError(p) \/ Kill(p)
  BY <1>1, <1>2 DEF IoError, Kill
<1>3. CASE \E i \in Items : ItemStep(p, i)
  <2>1. PICK i \in Items : ItemStep(p, i)
    BY <1>3
  <2>2. CASE RefuseInstallItem(p, i) \/ RefuseMoveBack(p, i)
    BY <1>1, <2>2 DEF RefuseInstallItem, RefuseMoveBack
  <2>3. CASE ~RefuseInstallItem(p, i) /\ ~RefuseMoveBack(p, i)
    <3>1. UNCHANGED bk
      BY <2>1, <2>3 DEF ItemStep, MoveToBackup, BeginCopy, FinishCopy,
         SkipMissing, InstallItem, BeginRemove, FinishRemove, MoveBack,
         RestoreFile, LeaveItem, process
    <3>2. pc'[p] \in RestorePcs
      BY <2>1, <2>3 DEF ItemStep, MoveToBackup, BeginCopy, FinishCopy,
         SkipMissing, InstallItem, BeginRemove, FinishRemove, MoveBack,
         RestoreFile, LeaveItem, ItemDone, Goto, process, RestorePcs
    <3>. QED
      BY <3>1, <3>2
  <2>. QED
    BY <2>2, <2>3
<1>4. CASE CommandStep(p) /\ ~\E i \in Items : ItemStep(p, i)
  <2>1. NextLoop(p) \/ MarkRestored(p)
    BY <1>4 DEF CommandStep, RequireServicesStopped, RefuseRunningServices,
       AcquireSummitLock, RefuseHeldLock, CreateBackup, BeginRollback,
       MarkInstalled, DeleteBackup, RefuseDelete, RestorePcs
  <2>2. NextLoop(p) => pc'[p] \in RestorePcs /\ bk'[p] = bk[p]
    BY DEF NextLoop, NextPc, Goto, RestorePcs
  <2>. QED
    BY <2>1, <2>2
<1>. QED
  BY <1>0, <1>2, <1>3, <1>4 DEF ActsAlone

\* The backup of a finished install stays whole until its rollback.
LEMMA CommandInstalled ==
  ASSUME TypeOK, ControlInv, LockInv, BirthInv, ReceiptInv, InstallInv,
         InstalledInv, NEW p \in Commands, ActsAlone(p)
  PROVE  InstalledInv'
<1>. USE DEF TypeOK
<1>. SUFFICES ASSUME NEW b \in Backups, b \notin compromised',
                     receipt'[b] = "installed",
                     \A r \in Commands : bk'[r] = b => pc'[r] \notin RestorePcs
              PROVE  saved'[b] = snapshot'[b]
  BY DEF InstalledInv
<1>0. b \notin compromised
  BY CompromisedEffect
<1>1. CASE MarkInstalled(p) /\ bk[p] = b
  <2>1. pc[p] = "seal_install" /\ UNCHANGED <<saved, snapshot>>
    BY <1>1 DEF MarkInstalled, history
  <2>2. \A i \in Items : saved[b][i] = snapshot[b][i]
    BY <1>1, <2>1 DEF InstallInv, InstallProgress, Pending, InstallPcs, BackupPcs
  <2>. QED
    BY <2>1, <2>2
<1>2. CASE ~(MarkInstalled(p) /\ bk[p] = b)
  <2>1. receipt[b] = "installed"
    BY <1>2, ReceiptEffect DEF WritesReceipt
  <2>2. ~(MarkRestored(p) /\ bk[p] = b) /\ ~(CreateBackup(p) /\ bk[p] = b)
        /\ ~(DeleteBackup(p) /\ bk[p] = b)
    BY DEF MarkRestored, CreateBackup, DeleteBackup
  <2>3. \A r \in Commands : bk[r] = b => pc[r] \notin RestorePcs
    <3>1. bk[p] = b => pc[p] \notin RestorePcs
      BY <2>1, <2>2, RestoreEnds
    <3>. QED
      BY <3>1, CommandFrame DEF OthersUnchanged
  <2>4. saved[b] = snapshot[b]
    BY <1>0, <2>1, <2>3 DEF InstalledInv
  <2>5. CASE \E i \in Items : ItemStep(p, i)
    <3>1. PICK i \in Items : ItemStep(p, i)
      BY <2>5
    <3>2. bk[p] # b
      BY <2>1, <2>3, <3>1, ItemPc DEF ReceiptInv, ControlInv, Control, ActivePcs
    <3>3. snapshot' = snapshot /\ \A j \in Items : saved'[b][j] = saved[b][j]
      BY <3>1, <3>2, ItemEffect
    <3>4. saved'[b] \in [Items -> Data]
      BY ActsType
    <3>. QED
      BY <2>4, <3>3, <3>4
  <2>6. CASE ~\E i \in Items : ItemStep(p, i)
    BY <2>2, <2>4, <2>6, LiveSavedEffect DEF DeleteBackup, CreateBackup
  <2>. QED
    BY <2>5, <2>6
<1>. QED
  BY <1>1, <1>2

\* Node programs leave the backup of a finished install alone.
LEMMA ProgramInstalled ==
  ASSUME TypeOK, LockInv, InstalledInv, NEW q \in Programs,
         StartProgram(q) \/ StopProgram(q)
  PROVE  InstalledInv'
  BY ProgramEffect DEF InstalledInv, history, process

-----------------------------------------------------------------------------
(* Progress of a restore.                                                  *)

\* A loop over the flagged items is at one of them at a time.
LEMMA OneAt ==
  ASSUME ControlInv, NEW p \in Commands, NEW i \in Items, NEW j \in Items,
         pc[p] \in {"restore_reth", "restore_rest", "move_back"},
         i \in todo[p], \A k \in todo[p] \cap Flagged : BackupOrder[i] <= BackupOrder[k],
         j \in todo[p], \A k \in todo[p] \cap Flagged : BackupOrder[j] <= BackupOrder[k]
  PROVE  i = j
<1>1. i \in Flagged /\ j \in Flagged
  BY ItemFacts DEF ControlInv, Control
<1>2. BackupOrder[i] <= BackupOrder[j] /\ BackupOrder[j] <= BackupOrder[i]
  BY <1>1
<1>. QED
  BY <1>1, <1>2 DEF BackupOrder, Flagged, RethItems, OtherItems, PrivateFiles

\* A restore's file-system call carries every item on to where the restore
\* has come.
LEMMA RestoreItemStep ==
  ASSUME TypeOK, ControlInv, ReceiptInv, ChildInv, FlagInv, InterruptedInv,
         NEW p \in Commands, NEW i \in Items, ItemStep(p, i),
         pc[p] \in RestorePcs, pc'[p] \in RestorePcs,
         NEW b \in Backups, b = bk[p], b \notin compromised,
         receipt[b] \in {"installing", "installed"},
         \A j \in Items : RestoreProgress(p, j)
  PROVE  \A j \in Items : RestoreProgress(p, j)'
<1>. USE DEF TypeOK
<1>c. i \in todo[p] /\ b \notin {Absent, Torn} /\ Torn # Absent
  BY ItemPc, DataAssumption
<1>k. /\ pc[p] = "restore_reth" => todo[p] \subseteq RethItems
      /\ pc[p] \in {"wipe", "restore_summit"} => todo[p] \subseteq Children
      /\ pc[p] = "restore_rest" => todo[p] \subseteq OtherItems
      /\ pc[p] = "move_back" =>
           \/ todo[p] \subseteq RethItems /\ todo[p] # {}
           \/ todo[p] \subseteq OtherItems /\ "checkpoint" \in todo[p]
  BY DEF ControlInv, Control
<1>r. ~RefuseInstallItem(p, i) /\ ~RefuseMoveBack(p, i)
  BY PcKinds, EndOwner DEF RefuseInstallItem, RefuseMoveBack, At, RestorePcs
<1>b. ~MoveToBackup(p, i) /\ ~BeginCopy(p, i) /\ ~FinishCopy(p, i)
      /\ ~SkipMissing(p, i) /\ ~InstallItem(p, i)
  BY DEF MoveToBackup, BeginCopy, FinishCopy, SkipMissing, InstallItem, At,
     BackupPcs, RestorePcs
<1>e. /\ UNCHANGED <<receipt, snapshot, bk>>
      /\ \A j \in Items \ {i} : live'[j] = live[j] /\ saved'[b][j] = saved[b][j]
  <2>1. bk' = bk
    BY <1>r DEF ItemStep, MoveToBackup, BeginCopy, FinishCopy, SkipMissing,
       InstallItem, BeginRemove, FinishRemove, MoveBack, RestoreFile, LeaveItem,
       process
  <2>. QED
    BY <2>1, ItemEffect
<1>g. /\ snapshot[b][i] # b /\ saved[b][i] # b
      /\ i \in Flagged => (i \in previous[b] <=> snapshot[b][i] # Absent)
      /\ receipt[b] = "installing" => Recoverable(b, i)
      /\ i \in Children => live[i] # b
  BY DEF FlagInv, InterruptedInv, ChildInv
\* The other items are where they were, done or not done.
<1>u. \A j \in Items \ {i} : Undealt(p, j)' <=> Undealt(p, j)
  <2>1. CASE RestoreFile(p, i) \/ LeaveItem(p, i)
    <3>1. pc'[p] = pc[p] /\ todo'[p] = todo[p] \ {i} /\ pc[p] # "move_back"
      BY <2>1 DEF RestoreFile, LeaveItem, ItemDone, Goto, At
    <3>. QED
      BY <3>1 DEF Undealt
  <2>2. CASE BeginRemove(p, i) \/ FinishRemove(p, i)
    <3>1. CASE pc'[p] = pc[p]
      BY <2>2, <3>1, RemoveEffect DEF Undealt, At
    <3>2. CASE pc'[p] # pc[p]
      <4>1. /\ pc'[p] = "move_back" /\ todo'[p] = todo[p]
            /\ pc[p] \in {"restore_reth", "restore_rest"}
        BY <2>2, <3>2, RemoveEffect DEF At
      <4>. QED
        BY <1>c, <1>k, <4>1, ItemFacts DEF Undealt
    <3>. QED
      BY <3>1, <3>2
  <2>4. CASE MoveBack(p, i) /\ pc[p] = "move_back"
    <3>1. /\ pc'[p] = IF i \in RethItems THEN "restore_reth" ELSE "restore_rest"
          /\ todo'[p] = todo[p] \ {i}
      BY <2>4 DEF MoveBack, Goto
    <3>. QED
      BY <1>c, <1>k, <2>4, <3>1, ItemFacts DEF Undealt
  <2>5. CASE MoveBack(p, i) /\ pc[p] # "move_back"
    BY <2>5 DEF MoveBack, Goto, Undealt
  <2>. QED
    BY <1>r, <1>b, <2>1, <2>2, <2>4, <2>5 DEF ItemStep
\* One item at most is on its way back.
<1>m. \A j \in Items : At(p, {"move_back"}, j)' =>
                         j = i /\ InBackup(p, i) /\ saved' = saved
  <2>1. SUFFICES ASSUME NEW j \in Items, At(p, {"move_back"}, j)'
                 PROVE  j = i /\ InBackup(p, i) /\ saved' = saved
    OBVIOUS
  <2>2. pc'[p] = "move_back" /\ j \in todo'[p]
    BY <2>1 DEF At
  <2>3. ~RestoreFile(p, i) /\ ~LeaveItem(p, i) /\ ~MoveBack(p, i)
    BY <2>2 DEF RestoreFile, LeaveItem, MoveBack, ItemDone, Goto, At
  <2>4. BeginRemove(p, i) \/ FinishRemove(p, i)
    BY <1>r, <1>b, <2>3 DEF ItemStep
  <2>5. /\ todo'[p] = todo[p] /\ saved' = saved
        /\ pc[p] \in {"restore_reth", "restore_rest", "move_back"}
        /\ At(p, {"move_back"}, i) \/ InBackup(p, i)
    BY <2>2, <2>4, RemoveEffect DEF At
  <2>6. InBackup(p, i)
    BY <2>5 DEF RestoreProgress
  <2>7. At(p, {"restore_reth", "restore_rest", "move_back"}, i)
    BY <2>4, <2>5 DEF BeginRemove, FinishRemove, At
  <2>8. j = i
    <3>1. \A k \in todo[p] \cap Flagged :
            BackupOrder[i] <= BackupOrder[k] /\ BackupOrder[j] <= BackupOrder[k]
      BY <2>1, <2>5, <2>7 DEF At
    <3>. QED
      BY <1>c, <2>2, <2>5, <3>1, OneAt
  <2>. QED
    BY <2>5, <2>6, <2>8
<1>0. ASSUME RestoreProgress(p, i)'
      PROVE  \A j \in Items : RestoreProgress(p, j)'
  <2>1. SUFFICES ASSUME NEW j \in Items \ {i}  PROVE RestoreProgress(p, j)'
    BY <1>0
  <2>. QED
    BY <1>e, <1>u, <1>m DEF RestoreProgress
<1>p. /\ ~Undealt(p, i) => /\ live[i] # b
                           /\ i \in Moved /\ snapshot[b][i] # Absent => live[i] = snapshot[b][i]
      /\ receipt[b] = "installed" /\ (i \in PrivateFiles \/ Undealt(p, i)) =>
           saved[b][i] = snapshot[b][i]
  BY DEF RestoreProgress
<1>q. RestoreProgress(p, i)' <=>
        /\ ~Undealt(p, i)' =>
             /\ live'[i] # b
             /\ i \in Moved /\ snapshot[b][i] # Absent => live'[i] = snapshot[b][i]
        /\ receipt[b] = "installed" /\ (i \in PrivateFiles \/ Undealt(p, i)') =>
             saved'[b][i] = snapshot[b][i]
  <2>1. At(p, {"move_back"}, i)' => InBackup(p, i)'
    BY <1>e, <1>m DEF InBackup
  <2>. QED
    BY <1>e, <2>1 DEF RestoreProgress
<1>1. CASE BeginRemove(p, i) \/ FinishRemove(p, i)
  <2>1. saved' = saved /\ live'[i] \in {Absent, Torn}
        /\ pc[p] \in {"restore_reth", "restore_rest", "move_back", "wipe"}
    BY <1>1, RemoveEffect DEF At
  <2>2. Undealt(p, i)
    BY <1>c, <1>k, <2>1, ItemFacts DEF Undealt
  <2>3. CASE todo'[p] = todo[p] \/ pc[p] = "wipe"
    <3>1. Undealt(p, i)'
      <4>1. CASE pc[p] = "wipe"
        BY <1>1, <1>c, <1>k, <4>1, RemoveEffect, ItemFacts DEF Undealt, At
      <4>2. CASE pc[p] # "wipe"
        BY <1>1, <1>c, <2>3, <4>2, RemoveEffect DEF Undealt, At
      <4>. QED
        BY <4>1, <4>2
    <3>. QED
      BY <1>0, <1>p, <1>q, <2>1, <2>2, <3>1
  <2>4. CASE todo'[p] # todo[p] /\ pc[p] # "wipe"
    <3>1. /\ FinishRemove(p, i) /\ i \in Moved /\ i \notin previous[b]
          /\ pc[p] \in {"restore_reth", "restore_rest"}
      BY <1>1, <2>4, RemoveEffect DEF At, PreviousExists
    <3>2. live'[i] = Absent /\ i \in Flagged
      BY <1>c, <1>k, <3>1, ItemFacts DEF FinishRemove
    <3>3. snapshot[b][i] = Absent
      BY <1>g, <3>1, <3>2
    <3>. QED
      BY <1>0, <1>c, <1>p, <1>q, <2>1, <2>2, <3>1, <3>2, <3>3, ItemFacts
  <2>. QED
    BY <2>3, <2>4
<1>3. CASE MoveBack(p, i)
  <2>1. /\ live'[i] = saved[b][i] /\ saved[b][i] # Absent /\ i \in Moved
        /\ pc[p] \in {"restore_reth", "restore_rest", "restore_summit", "move_back"}
    BY <1>3 DEF MoveBack, InBackup, At
  <2>2. Undealt(p, i) /\ i \notin PrivateFiles
    BY <1>c, <2>1, ItemFacts DEF Undealt
  <2>3. saved[b][i] = snapshot[b][i]
    BY <1>g, <1>p, <2>1, <2>2 DEF Recoverable
  <2>4. ~Undealt(p, i)'
    <3>1. i \notin todo'[p]
      BY <1>3 DEF MoveBack, Goto
    <3>2. CASE pc[p] # "move_back"
      <4>1. pc'[p] = pc[p]
        BY <1>3, <3>2 DEF MoveBack, Goto
      <4>. QED
        BY <1>c, <1>k, <2>1, <3>1, <3>2, <4>1, ItemFacts DEF Undealt
    <3>3. CASE pc[p] = "move_back"
      <4>1. pc'[p] = IF i \in RethItems THEN "restore_reth" ELSE "restore_rest"
        BY <1>3, <3>3 DEF MoveBack, Goto
      <4>. QED
        BY <1>c, <1>k, <2>1, <3>1, <3>3, <4>1, ItemFacts DEF Undealt
    <3>. QED
      BY <3>2, <3>3
  <2>. QED
    BY <1>0, <1>g, <1>q, <2>1, <2>2, <2>3, <2>4
<1>4. CASE RestoreFile(p, i)
  <2>1. live'[i] = saved[b][i] /\ saved' = saved /\ i \in PrivateFiles /\ i \notin Moved
    BY <1>4, ItemFacts DEF RestoreFile
  <2>. QED
    BY <1>0, <1>g, <1>p, <1>q, <2>1
<1>5. CASE LeaveItem(p, i)
  <2>1. /\ UNCHANGED <<live, saved>> /\ saved[b][i] = Absent
        /\ i \in previous[b] \/ (i \in Moved /\ live[i] = Absent)
        /\ pc[p] \in {"restore_reth", "restore_rest"}
    BY <1>5 DEF LeaveItem, At, InBackup, PreviousExists, disk
  <2>2. Undealt(p, i) /\ i \in Flagged
    BY <1>c, <1>k, <2>1, ItemFacts DEF Undealt
  <2>3. live[i] # b
    BY <1>c, <1>g, <1>p, <2>1, <2>2 DEF Recoverable
  <2>4. i \in Moved /\ snapshot[b][i] # Absent => live[i] = snapshot[b][i]
    BY <1>g, <1>p, <2>1, <2>2 DEF Recoverable
  <2>. QED
    BY <1>0, <1>p, <1>q, <2>1, <2>2, <2>3, <2>4
<1>6. BeginRemove(p, i) \/ FinishRemove(p, i) \/ MoveBack(p, i)
        \/ RestoreFile(p, i) \/ LeaveItem(p, i)
  BY <1>r, <1>b DEF ItemStep
<1>. QED
  BY <1>1, <1>3, <1>4, <1>5, <1>6

\* A restore leaves a loop with that loop's items restored.
LEMMA RestoreLoopStep ==
  ASSUME TypeOK, ControlInv, ChildInv, InterruptedInv,
         NEW p \in Commands, NextLoop(p), pc[p] \in RestorePcs,
         NEW b \in Backups, b = bk[p], b \notin compromised,
         receipt[b] \in {"installing", "installed"},
         \A j \in Items : RestoreProgress(p, j)
  PROVE  \A j \in Items : RestoreProgress(p, j)'
<1>. USE DEF TypeOK
<1>1. /\ todo[p] = {} /\ UNCHANGED <<live, saved, receipt, snapshot, bk>>
      /\ pc'[p] = NextPc[pc[p]] /\ todo'[p] = Listing(p, NextPc[pc[p]])
      /\ pc[p] \in {"restore_reth", "wipe", "restore_summit", "restore_rest"}
  BY DEF NextLoop, NextPc, Goto, disk, history, RestorePcs
<1>n. \A j \in Items : ~At(p, {"move_back"}, j)'
  BY <1>1 DEF NextPc, At
<1>2. ASSUME \A j \in Items : Undealt(p, j)' <=> Undealt(p, j)
      PROVE  \A j \in Items : RestoreProgress(p, j)'
  BY <1>1, <1>2, <1>n DEF RestoreProgress
<1>3. CASE pc[p] = "restore_reth"
  <2>1. pc'[p] = "wipe"
    BY <1>1, <1>3 DEF NextPc
  <2>. QED
    BY <1>1, <1>2, <1>3, <2>1 DEF Undealt
<1>4. CASE pc[p] = "wipe"
  <2>1. pc'[p] = "restore_summit" /\ todo'[p] = {c \in Children : saved[b][c] # Absent}
    BY <1>1, <1>4 DEF NextPc, Listing, InBackup
  <2>2. \A j \in Items :
          /\ Undealt(p, j) <=> j \notin RethItems
          /\ Undealt(p, j)' <=>
               j \in OtherItems \/ (j \in Children /\ saved[b][j] # Absent)
    BY <1>1, <1>4, <2>1 DEF Undealt
  <2>3. ASSUME NEW c \in Children, saved[b][c] = Absent
        PROVE  RestoreProgress(p, c)'
    <3>1. c \in Items /\ c \in Moved /\ c \notin RethItems /\ c \notin PrivateFiles
      BY ItemFacts
    <3>2. live[c] # b
      BY DEF ChildInv
    <3>3. snapshot[b][c] # Absent => live[c] = snapshot[b][c]
      <4>1. CASE receipt[b] = "installing"
        BY <2>3, <3>1, <4>1 DEF InterruptedInv, Recoverable
      <4>2. CASE receipt[b] = "installed"
        BY <2>2, <2>3, <3>1, <4>2 DEF RestoreProgress
      <4>. QED
        BY <4>1, <4>2
    <3>. QED
      BY <1>1, <2>2, <2>3, <3>1, <3>2, <3>3, <1>n, ItemFacts DEF RestoreProgress
  <2>. QED
    BY <1>1, <2>2, <2>3, <1>n, ItemFacts DEF RestoreProgress
<1>5. CASE pc[p] = "restore_summit"
  <2>1. pc'[p] = "restore_rest" /\ todo'[p] = OtherItems
    BY <1>1, <1>5, ListingRange DEF NextPc
  <2>. QED
    BY <1>1, <1>2, <1>5, <2>1 DEF Undealt
<1>6. CASE pc[p] = "restore_rest"
  <2>1. pc'[p] = "seal_restore" /\ todo'[p] = {}
    BY <1>1, <1>6, ListingRange DEF NextPc
  <2>. QED
    BY <1>1, <1>2, <1>6, <2>1 DEF Undealt
<1>. QED
  BY <1>1, <1>3, <1>4, <1>5, <1>6

\* A restore, ordered or automatic, begins over a whole backup or a
\* recoverable install.
LEMMA RestoreBegins ==
  ASSUME TypeOK, ControlInv, LockInv, ReceiptInv, InstalledInv,
         NEW p \in Commands, ActsAlone(p), NEW b \in Backups, b = bk[p], bk'[p] = b,
         b \notin compromised, receipt'[b] \in {"installing", "installed"},
         \/ BeginRollback(p)
         \/ pc[p] \in InstallPcs /\ Raise(p) /\ UNCHANGED disk
  PROVE  \A j \in Items : RestoreProgress(p, j)'
<1>. USE DEF TypeOK
<1>1. UNCHANGED disk /\ pc'[p] = "restore_reth" /\ todo'[p] = RethItems
      /\ snapshot' = snapshot
  <2>1. snapshot' = snapshot
    BY LiveSavedEffect, PcKinds DEF BeginRollback, CreateBackup, LockedPcs,
       InstallPcs, BackupPcs
  <2>. QED
    BY <2>1 DEF BeginRollback, Raise, Goto
<1>2. \A j \in Items : Undealt(p, j)'
  BY <1>1 DEF Undealt
<1>3. receipt[b] = "installed" => saved[b] = snapshot[b]
  <2>1. SUFFICES ASSUME receipt[b] = "installed"  PROVE saved[b] = snapshot[b]
    OBVIOUS
  <2>2. pc[p] \notin RestorePcs /\ pc[p] \in LockedPcs
    BY PcKinds DEF BeginRollback, LockedPcs, RestorePcs
  <2>3. \A r \in Commands : pc[r] \notin RestorePcs
    BY <2>2, AloneInside, PcKinds
  <2>. QED
    BY <2>1, <2>3 DEF InstalledInv
<1>. QED
  BY <1>1, <1>2, <1>3 DEF RestoreProgress, disk, At

\* No command's step disturbs a restore in progress.
LEMMA CommandRestore ==
  ASSUME IndInv, NEW p \in Commands, ActsAlone(p)
  PROVE  RestoreInv'
<1>. USE DEF IndInv
<1>. SUFFICES ASSUME NEW r \in Commands, pc'[r] \in RestorePcs,
                     bk'[r] \notin compromised',
                     receipt'[bk'[r]] \in {"installing", "installed"},
                     NEW i \in Items
              PROVE  RestoreProgress(r, i)'
  BY DEF RestoreInv
<1>1. CASE r # p
  <2>1. /\ pc'[r] = pc[r] /\ bk'[r] = bk[r] /\ todo'[r] = todo[r]
    BY <1>1, CommandFrame DEF OthersUnchanged
  <2>2. pc[p] \notin LockedPcs /\ bk[r] \in Backups
    BY <1>1, <2>1, PcKinds, AloneInside, WorksOnBackup
  <2>3. UNCHANGED <<live, snapshot>> /\ saved'[bk[r]] = saved[bk[r]]
        /\ receipt'[bk[r]] = receipt[bk[r]]
    BY <2>1, <2>2, QuietDisk
  <2>4. RestoreProgress(r, i)
    BY <2>1, <2>2, <2>3, CompromisedEffect DEF RestoreInv
  <2>. QED
    BY <2>1, <2>3, <2>4 DEF RestoreProgress, Undealt, At, InBackup
<1>2. CASE r = p
  <2>1. /\ bk'[p] = bk[p]
        /\ \/ BeginRollback(p)
           \/ pc[p] \in InstallPcs /\ Raise(p) /\ UNCHANGED disk
           \/ pc[p] \in RestorePcs /\ (NextLoop(p) \/ \E j \in Items : ItemStep(p, j))
    BY <1>2, PcKinds, ComesFrom
  <2>2. bk[p] \in Backups /\ bk[p] \notin compromised
        /\ receipt'[bk[p]] \in {"installing", "installed"}
    BY <1>2, <2>1, PcKinds, WorksOnBackup, CompromisedEffect DEF BeginRollback
  <2>3. CASE BeginRollback(p) \/ (pc[p] \in InstallPcs /\ Raise(p) /\ UNCHANGED disk)
    BY <1>2, <2>1, <2>2, <2>3, RestoreBegins
  <2>4. CASE pc[p] \in RestorePcs /\ NextLoop(p)
    <3>1. receipt' = receipt
      BY <2>4 DEF NextLoop, disk
    <3>2. \A j \in Items : RestoreProgress(p, j)
      BY <2>2, <2>4, <3>1 DEF RestoreInv
    <3>. QED
      BY <1>2, <2>2, <2>4, <3>1, <3>2, RestoreLoopStep
  <2>5. CASE pc[p] \in RestorePcs /\ \E j \in Items : ItemStep(p, j)
    <3>1. receipt' = receipt
      BY <2>5, ItemEffect
    <3>2. \A j \in Items : RestoreProgress(p, j)
      BY <2>2, <2>5, <3>1 DEF RestoreInv
    <3>. QED
      BY <1>2, <2>2, <2>5, <3>1, <3>2, RestoreItemStep
  <2>. QED
    BY <2>1, <2>3, <2>4, <2>5
<1>. QED
  BY <1>1, <1>2

\* No node program disturbs the items a restore has dealt with.
LEMMA ProgramRestore ==
  ASSUME TypeOK, ControlInv, LockInv, RestoreInv, NEW q \in Programs,
         StartProgram(q) \/ StopProgram(q)
  PROVE  RestoreInv'
<1>1. UNCHANGED <<saved, receipt, snapshot, compromised, pc, bk, todo>>
  BY ProgramEffect DEF process, history
<1>. SUFFICES ASSUME NEW p \in Commands, pc[p] \in RestorePcs,
                     bk[p] \notin compromised,
                     receipt[bk[p]] \in {"installing", "installed"},
                     NEW i \in Items
              PROVE  RestoreProgress(p, i)'
  BY <1>1 DEF RestoreInv
<1>2. RestoreProgress(p, i) /\ bk[p] \in Backups /\ bk[p] # Fresh
  BY PcKinds, WorksOnBackup, DataAssumption DEF RestoreInv
<1>3. live'[i] = live[i] \/ (live[i] = Absent /\ live'[i] = Fresh)
  BY ProgramEffect
<1>4. Undealt(p, i)' <=> Undealt(p, i)
  BY <1>1 DEF Undealt
<1>. QED
  BY <1>1, <1>2, <1>3, <1>4 DEF RestoreProgress, At, InBackup

-----------------------------------------------------------------------------
(* A deletion that is cut off.                                             *)

\* It touches the backup it deletes and what it leaves of it, which no
\* invariant promises anything of from then on.
LEMMA CutEffect ==
  ASSUME TypeOK, ControlInv, ReceiptInv, NEW p \in Commands, CutDeletion(p)
  PROVE  \E b \in Installs, c \in Backups \ Installs :
           /\ b \in Backups /\ b = bk[p]
           /\ \A r \in Commands : bk[r] # c
           /\ receipt[b] \notin {"absent", "installing"}
           /\ receipt' = [receipt EXCEPT ![b] = "absent", ![c] = receipt[b]]
           /\ receipt[c] = "absent"
           /\ compromised' = compromised \cup {b, c}
           /\ saved' \in [Backups -> [Items -> Data]]
           /\ saved'[b] = Nothing
           /\ \A i \in Items : saved'[c][i] \in {saved[b][i], Torn, Absent}
           /\ previous' \in [Backups -> SUBSET Flagged]
           /\ \A d \in Backups \ {b, c} :
                saved'[d] = saved[d] /\ previous'[d] = previous[d]
                  /\ receipt'[d] = receipt[d]
<1>. USE DEF TypeOK
<1>. DEFINE b == bk[p]
            c == Leftover(bk[p])
<1>1. b \in Installs /\ b \in Backups /\ c \in Backups \ Installs /\ c # b
  BY InstallsAreBackups DEF CutDeletion
<1>2. receipt[b] \notin {"absent", "installing"}
  BY DEF CutDeletion, ReceiptInv, ControlInv, Control
<1>3. /\ receipt' = [receipt EXCEPT ![b] = "absent", ![c] = receipt[b]]
      /\ receipt[c] = "absent" /\ \A r \in Commands : bk[r] # c
      /\ compromised' = compromised \cup {b, c}
      /\ previous' = [previous EXCEPT ![c] = previous[b]]
  BY DEF CutDeletion
<1>4. PICK left \in Leavings, cut \in Moved :
        saved' = [saved EXCEPT ![b] = Nothing, ![c] =
                    [i \in Items |-> IF i \in left THEN saved[b][i]
                                    ELSE IF i = cut /\ InBackup(p, i) THEN Torn
                                    ELSE Absent]]
  BY DEF CutDeletion
<1>5. /\ saved'[b] = Nothing
      /\ \A i \in Items : saved'[c][i] \in {saved[b][i], Torn, Absent}
      /\ \A d \in Backups \ {b, c} : saved'[d] = saved[d]
  BY <1>1, <1>4
<1>6. saved' \in [Backups -> [Items -> Data]]
  BY <1>1, <1>4, DataFacts, NothingType
<1>7. /\ previous' \in [Backups -> SUBSET Flagged]
      /\ \A d \in Backups \ {b, c} :
           previous'[d] = previous[d] /\ receipt'[d] = receipt[d]
  BY <1>1, <1>3
<1>. QED
  BY <1>1, <1>2, <1>3, <1>5, <1>6, <1>7

\* A deletion that is cut off keeps the whole invariant.
LEMMA CutDeletionStep ==
  ASSUME IndInv, NEW p \in Commands, CutDeletion(p)
  PROVE  IndInv'
<1>. USE DEF IndInv
<1>1. PICK b \in Installs, c \in Backups \ Installs :
        /\ b \in Backups /\ b = bk[p]
        /\ \A r \in Commands : bk[r] # c
        /\ receipt[b] \notin {"absent", "installing"}
        /\ receipt' = [receipt EXCEPT ![b] = "absent", ![c] = receipt[b]]
        /\ receipt[c] = "absent"
        /\ compromised' = compromised \cup {b, c}
        /\ saved' \in [Backups -> [Items -> Data]]
        /\ saved'[b] = Nothing
        /\ \A i \in Items : saved'[c][i] \in {saved[b][i], Torn, Absent}
        /\ previous' \in [Backups -> SUBSET Flagged]
        /\ \A d \in Backups \ {b, c} :
             saved'[d] = saved[d] /\ previous'[d] = previous[d]
               /\ receipt'[d] = receipt[d]
  BY CutEffect
<1>2. /\ UNCHANGED <<live, running, installs, snapshot>>
      /\ EndCommand(p) /\ pc[p] = "confirm_delete"
      /\ mishaps' = mishaps + 1 /\ mishaps < MaxMishaps
  BY DEF CutDeletion
<1>f. OthersUnchanged(p)
  BY <1>2, EndFrame
<1>i. pc'[p] = "idle" /\ op'[p] = "none" /\ bk'[p] = NoBackup
  BY <1>2 DEF EndCommand, Goto, TypeOK
<1>a. \A l \in {"idle", "confirm_delete"} :
        l \notin ActivePcs /\ l \notin LockedPcs /\ l \notin InstallPcs
          /\ l \notin RestorePcs /\ l \notin PreparePcs
  BY DEF ActivePcs, LockedPcs, InstallPcs, BackupPcs, RestorePcs, PreparePcs
<1>3. TypeOK'
  <2>1. receipt' \in [Backups -> ReceiptStates] /\ compromised' \in SUBSET Backups
    BY <1>1 DEF TypeOK, ReceiptStates
  <2>2. mishaps' \in 0 .. MaxMishaps
    BY <1>2, BoundsAssumption DEF TypeOK
  <2>. QED
    BY <1>1, <1>2, <2>1, <2>2, EndCommandType DEF TypeOK
<1>4. ControlInv'
  BY <1>2, <1>f, EndControl DEF ControlInv, Control, OthersUnchanged
<1>5. LockInv'
  <2>1. FreesLock(p)
    BY <1>2, EndFreesLock
  <2>. QED
    BY <1>2, <1>f, <2>1, ProgramsAssumption DEF LockInv, FreesLock, OthersUnchanged, TypeOK
<1>6. BirthInv'
  <2>1. ASSUME NEW d \in Installs, Unborn(d), d # b  PROVE Unborn(d)'
    <3>1. d # c /\ d \in Backups /\ d \notin {Absent, Torn}
      BY <1>1, InstallsAreBackups, DataAssumption
    <3>2. \A i \in Items : \A e \in Backups : saved'[e][i] # d
      BY <1>1, <2>1, <3>1 DEF Unborn, Nothing
    <3>. QED
      BY <1>1, <1>2, <2>1, <3>1, <3>2 DEF Unborn
  <2>2. \A d \in Installs : d > installs' => Unborn(d)' /\ \A r \in Commands : bk'[r] # d
    <3>1. NoBackup \notin Installs
      BY DEF Installs, NoBackup
    <3>. QED
      BY <1>1, <1>2, <1>f, <1>i, <2>1, <3>1 DEF BirthInv, OthersUnchanged
  <2>3. ASSUME NEW r \in Commands, op'[r] = "install"
        PROVE  bk'[r] \in Installs /\ (pc'[r] \in PreparePcs => Unborn(bk[r])')
    <3>1. r # p /\ op[r] = "install" /\ bk'[r] = bk[r] /\ pc'[r] = pc[r]
      BY <1>f, <1>i, <2>3 DEF OthersUnchanged
    <3>2. bk[r] \in Installs /\ (pc[r] \in PreparePcs => Unborn(bk[r]) /\ bk[r] # b)
      BY <1>1, <3>1 DEF BirthInv
    <3>3. \A d \in Installs : d = bk'[r] /\ Unborn(d)' => Unborn(bk[r])'
      BY DEF Unborn
    <3>. QED
      BY <2>1, <3>1, <3>2, <3>3
  <2>4. \A q \in Commands : \A r \in Commands \ {q} :
          op'[q] = "install" /\ bk'[r] = bk'[q] =>
            pc'[q] \notin PreparePcs /\ op'[r] # "install"
    <3>1. NoBackup \notin Installs
      BY DEF Installs, NoBackup
    <3>. QED
      BY <1>f, <1>i, <3>1 DEF BirthInv, OthersUnchanged
  <2>. QED
    BY <2>2, <2>3, <2>4 DEF BirthInv
<1>7. ReceiptInv'
  <2>1. ASSUME NEW r \in Commands, r # p  PROVE bk[r] \in Backups \/ op[r] = "none"
    BY DEF TypeOK, ControlInv, Control
  <2>2. \A r \in Commands : op[r] # "none" /\ bk[r] # b => receipt'[bk[r]] = receipt[bk[r]]
    BY <1>1 DEF TypeOK, ControlInv, Control
  <2>3. \A r \in Commands : bk[r] = b => receipt'[bk[r]] = "absent"
    BY <1>1 DEF TypeOK
  <2>4. \A r \in Commands : op[r] = "install" /\ pc[r] \in ActivePcs =>
          bk[r] # b /\ bk[r] \notin compromised'
    BY <1>1 DEF ReceiptInv
  <2>. QED
    BY <1>f, <1>i, <2>2, <2>3, <2>4 DEF ReceiptInv, OthersUnchanged
<1>8. OtherInv'
  BY <1>1, <1>a, <1>f, <1>i DEF OtherInv, OthersUnchanged, TypeOK
<1>9. ChildInv'
  BY <1>1, <1>2, ItemFacts, DataAssumption DEF ChildInv, Nothing
<1>10. FlagInv' /\ InterruptedInv'
  <2>1. \A d \in Backups : d \notin compromised' =>
          /\ d \notin compromised /\ saved'[d] = saved[d]
          /\ previous'[d] = previous[d] /\ receipt'[d] = receipt[d]
    BY <1>1
  <2>2. FlagInv'
    BY <1>2, <2>1 DEF FlagInv
  <2>3. ASSUME NEW d \in Backups, d \notin compromised', receipt'[d] = "installing",
               NEW i \in Items
        PROVE  Recoverable(d, i)'
    <3>1. Recoverable(d, i)
      BY <2>1, <2>3 DEF InterruptedInv
    <3>. QED
      BY <1>2, <2>1, <2>3, <3>1 DEF Recoverable
  <2>. QED
    BY <2>2, <2>3 DEF InterruptedInv
<1>11. InstallInv'
  <2>1. \A r \in Commands : pc'[r] \in InstallPcs =>
          /\ r # p /\ pc[r] \in InstallPcs /\ bk[r] \in Backups \ {b, c}
    BY <1>1, <1>a, <1>f, <1>i, PcKinds DEF ReceiptInv, ControlInv, Control,
       OthersUnchanged, TypeOK
  <2>. QED
    BY <1>1, <1>2, <1>f, <2>1 DEF InstallInv, InstallProgress, InPlace, Pending,
       OthersUnchanged
<1>12. InstalledInv'
  <2>1. SUFFICES ASSUME NEW d \in Backups, d \notin compromised',
                        receipt'[d] = "installed",
                        \A r \in Commands : bk'[r] = d => pc'[r] \notin RestorePcs
                 PROVE  saved'[d] = snapshot'[d]
    BY DEF InstalledInv
  <2>2. \A r \in Commands : bk[r] = d => pc[r] \notin RestorePcs
    BY <1>2, <1>a, <1>f, <2>1 DEF OthersUnchanged
  <2>3. d \notin compromised /\ saved'[d] = saved[d] /\ receipt'[d] = receipt[d]
    BY <1>1, <2>1
  <2>. QED
    BY <1>2, <2>1, <2>2, <2>3 DEF InstalledInv
<1>13. RestoreInv'
  <2>1. \A r \in Commands : pc'[r] \in RestorePcs /\ bk'[r] \notin compromised' =>
          /\ r # p /\ pc[r] \in RestorePcs /\ bk[r] \in Backups \ {b, c}
    BY <1>1, <1>a, <1>f, <1>i, PcKinds, WorksOnBackup DEF OthersUnchanged
  <2>2. SUFFICES ASSUME NEW r \in Commands, pc'[r] \in RestorePcs,
                        bk'[r] \notin compromised',
                        receipt'[bk'[r]] \in {"installing", "installed"},
                        NEW i \in Items
                 PROVE  RestoreProgress(r, i)'
    BY DEF RestoreInv
  <2>3. /\ bk'[r] = bk[r] /\ pc'[r] = pc[r] /\ todo'[r] = todo[r]
        /\ bk[r] \notin compromised /\ saved'[bk[r]] = saved[bk[r]]
        /\ receipt'[bk[r]] = receipt[bk[r]]
    BY <1>1, <1>f, <2>1, <2>2 DEF OthersUnchanged
  <2>4. RestoreProgress(r, i)
    BY <2>1, <2>2, <2>3 DEF RestoreInv
  <2>. QED
    BY <1>2, <2>3, <2>4 DEF RestoreProgress, Undealt, At, InBackup
<1>. QED
  BY <1>3, <1>4, <1>5, <1>6, <1>7, <1>8, <1>9, <1>10, <1>11, <1>12, <1>13
=============================================================================
