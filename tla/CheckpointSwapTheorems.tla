----------------------- MODULE CheckpointSwapTheorems -----------------------
(***************************************************************************)
(* CheckpointTransaction implements CheckpointSwap, for every value of the *)
(* constants: each step of a command or a program is a step of the swap or *)
(* leaves it as it is.                                                     *)
(***************************************************************************)
EXTENDS CheckpointTheorems, CheckpointRefinement

-----------------------------------------------------------------------------
(* The refinement mapping.                                                 *)

\* One command at most moves state; it is the mover.
LEMMA TheMover ==
  ASSUME LockInv, NEW p \in Commands, pc[p] \in ActivePcs
  PROVE  Movers = {p} /\ Moving = bk[p] /\ Node = InTransit
<1>1. Movers = {p}
  BY AloneInside, ActiveLocked DEF Movers
<1>. QED
  BY <1>1 DEF Moving, Node

LEMMA TheMoverThen ==
  ASSUME LockInv', NEW p \in Commands, pc'[p] \in ActivePcs
  PROVE  Movers' = {p} /\ Moving' = bk'[p] /\ Node' = InTransit
<1>1. \A r \in Commands \ {p} : pc'[r] \notin ActivePcs
  BY ActiveLocked DEF LockInv
<1>2. Movers' = {p}
  BY <1>1 DEF Movers
<1>. QED
  BY <1>2 DEF Moving, Node

\* The mapped state is a state of the swap.
LEMMA MappedTypes ==
  ASSUME TypeOK
  PROVE  /\ OnMoved(live) \in [Moved -> Data]
         /\ Base \in [Backups -> [Moved -> Data]]
  BY ItemFacts DEF TypeOK, OnMoved, Base

LEMMA MappedTypesThen ==
  ASSUME TypeOK'
  PROVE  /\ OnMoved(live)' \in [Moved -> Data]
         /\ Base' \in [Backups -> [Moved -> Data]]
  BY ItemFacts DEF TypeOK, OnMoved, Base

\* As long as the same command moves state, its backup is the mover.
LEMMA SameMover ==
  ASSUME LockInv, LockInv', Movers' = Movers, \A p \in Movers : bk'[p] = bk[p]
  PROVE  Moving' = Moving
<1>1. CASE Movers = {}
  BY <1>1 DEF Moving
<1>2. CASE Movers # {}
  <2>1. PICK p \in Commands : p \in Movers
    BY <1>2 DEF Movers
  <2>2. pc[p] \in ActivePcs /\ pc'[p] \in ActivePcs
    BY <2>1 DEF Movers
  <2>. QED
    BY <2>1, <2>2, TheMover, TheMoverThen
<1>. QED
  BY <1>1, <1>2

\* Steps that move no state, receipts and backups leave the swap alone.
LEMMA Stutter ==
  ASSUME LockInv, LockInv', UNCHANGED <<receipt, snapshot, compromised>>, Movers' = Movers,
         \A p \in Movers : bk'[p] = bk[p],
         live' = live \/ Movers # {}
  PROVE  UNCHANGED Swap!vars
<1>1. Base' = Base /\ Unsettled' = Unsettled
  BY DEF Base, Unsettled, OnMoved
<1>2. Node' = Node
  BY <1>1 DEF Node, OnMoved
<1>3. Moving' = Moving
  BY SameMover
<1>. QED
  BY <1>1, <1>2, <1>3 DEF Swap!vars

-----------------------------------------------------------------------------
(* Steps of the command that moves state.                                  *)

\* The mover ends: no command moves state then.
LEMMA MoverEnds ==
  ASSUME IndInv, IndInv', NEW p \in Commands, ActsAlone(p),
         pc[p] \in ActivePcs, pc'[p] \notin ActivePcs
  PROVE  /\ Movers' = {} /\ Moving' = NoBackup
         /\ Moving = bk[p] /\ bk[p] \in Backups /\ Node = InTransit
         /\ Base' = Base
         /\ ~CreateBackup(p) /\ ~BeginRollback(p) /\ ~DeleteBackup(p)
<1>. USE DEF IndInv
<1>1. ~CreateBackup(p) /\ ~BeginRollback(p) /\ ~DeleteBackup(p)
  BY PcKinds DEF CreateBackup, BeginRollback, DeleteBackup, ActivePcs, InstallPcs, BackupPcs, RestorePcs
<1>2. \A r \in Commands \ {p} : pc'[r] \notin ActivePcs
  BY CommandFrame, AloneInside, ActiveLocked DEF OthersUnchanged
<1>3. Movers' = {} /\ Moving' = NoBackup
  BY <1>2 DEF Movers, Moving
<1>4. snapshot' = snapshot
  BY <1>1, LiveSavedEffect
<1>5. Base' = Base
  BY <1>4 DEF Base, OnMoved
<1>. QED
  BY <1>1, <1>3, <1>5, TheMover, WorksOnBackup, PcKinds

\* What is left when the mover has settled or been cut off: a state of the
\* node, unless its own install is an interrupted one.
LEMMA NodeAfter ==
  ASSUME IndInv, IndInv', NEW p \in Commands, ActsAlone(p),
         pc[p] \in ActivePcs, pc'[p] \notin ActivePcs,
         receipt'[bk[p]] # "installing" \/ bk[p] \in compromised'
  PROVE  Node' = OnMoved(live)' /\ Node' \in [Moved -> Data]
<1>. USE DEF IndInv
<1>1. \A b \in Backups : receipt'[b] = "installing" => b \in compromised'
  <2>. SUFFICES ASSUME NEW b \in Backups, receipt'[b] = "installing", b # bk[p]
                PROVE  b \in compromised'
    OBVIOUS
  <2>1. receipt[b] = "installing"
    BY ReceiptEffect DEF WritesReceipt, TypeOK
  <2>. QED
    BY <2>1, CompromisedEffect DEF OtherInv
<1>2. Node' = OnMoved(live)'
  BY <1>1, MoverEnds DEF Node, Unsettled
<1>. QED
  BY <1>2, MappedTypesThen

\* The end of an install is a commit.
LEMMA InstallCommits ==
  ASSUME IndInv, IndInv', NEW p \in Commands, ActsAlone(p), MarkInstalled(p),
         pc'[p] \notin ActivePcs
  PROVE  Swap!Commit(bk[p])
<1>. USE DEF IndInv
<1>1. pc[p] = "seal_install" /\ pc[p] \in InstallPcs /\ pc[p] \in ActivePcs
  BY DEF MarkInstalled, InstallPcs, ActivePcs
<1>2. receipt[bk[p]] = "installing" /\ receipt' = [receipt EXCEPT ![bk[p]] = "installed"]
      /\ compromised' = compromised /\ live' = live
  BY <1>1 DEF MarkInstalled, ReceiptInv, ControlInv, Control, history
<1>3. bk[p] \in Backups /\ receipt'[bk[p]] = "installed"
  BY <1>1, <1>2, MoverEnds DEF TypeOK
<1>4. \A i \in Moved : live[i] = IF i \in Moved \ Children THEN bk[p] ELSE Absent
  <2>1. \A i \in Items : InstallProgress(p, i) /\ ~Pending(p, i)
                         /\ (InPlace(p, i) <=> i \in Flagged)
    BY <1>1 DEF InstallInv, BackupPcs, Pending, InPlace
  <2>. QED
    BY <2>1, ItemFacts DEF InstallProgress
<1>5. Node' = OnMoved(live) /\ Node' \in [Moved -> Data]
  BY <1>1, <1>2, <1>3, NodeAfter DEF OnMoved
<1>6. \A i \in Moved : Node'[i] = live[i]
  BY <1>5 DEF OnMoved
<1>7. Swap!Settle(bk[p], "installed")
  BY <1>1, <1>2, <1>5, MoverEnds DEF Swap!Settle, Swap!States
<1>. QED
  BY <1>2, <1>4, <1>6, <1>7 DEF Swap!Commit

\* The end of a restore undoes a swap or gives it up.
LEMMA RestoreUndoes ==
  ASSUME IndInv, IndInv', NEW p \in Commands, ActsAlone(p), MarkRestored(p),
         pc'[p] \notin ActivePcs
  PROVE  Swap!Abort(bk[p]) \/ Swap!Undo(bk[p])
<1>. USE DEF IndInv
<1>. DEFINE b == bk[p]
            outcome == IF op[p] = "install" THEN "automatically-rolled-back"
                                            ELSE "rolled-back"
<1>1. pc[p] \in RestorePcs /\ pc[p] \in ActivePcs
  BY DEF MarkRestored, RestorePcs, ActivePcs
<1>2. receipt' = [receipt EXCEPT ![b] = outcome] /\ compromised' = compromised
      /\ live' = live
  BY DEF MarkRestored, history
<1>3. b \in Backups /\ receipt'[b] = outcome
  BY <1>1, <1>2, MoverEnds DEF TypeOK
<1>4. Node' = OnMoved(live) /\ Node' \in [Moved -> Data]
  BY <1>1, <1>2, <1>3, NodeAfter DEF OnMoved
<1>5. \A i \in Moved : Node'[i] = live[i]
  BY <1>4 DEF OnMoved
<1>6. Swap!Settle(b, outcome)
  BY <1>1, <1>2, <1>4, MoverEnds DEF Swap!Settle, Swap!States
<1>7. b \notin compromised /\ receipt[b] \in {"installing", "installed"} => Swap!Restored(b)
  <2>. SUFFICES ASSUME b \notin compromised, receipt[b] \in {"installing", "installed"}
                PROVE  Swap!Restored(b)
    OBVIOUS
  <2>1. Restored(b)
    BY <1>3, RestoreComplete
  <2>2. \A i \in Moved : Base[b][i] = snapshot[b][i]
    BY <1>3 DEF Base, OnMoved
  <2>. QED
    BY <1>5, <2>1, <2>2, ItemFacts DEF Restored, Swap!Restored
<1>8. op[p] = "install" => receipt[b] = "installing" /\ b \notin compromised
  BY <1>1 DEF ReceiptInv
<1>. QED
  BY <1>6, <1>7, <1>8 DEF Swap!Abort, Swap!Undo

\* A mover that ends without a receipt's new state was cut off.
LEMMA MoverCutOff ==
  ASSUME IndInv, IndInv', NEW p \in Commands, ActsAlone(p),
         pc[p] \in ActivePcs, pc'[p] \notin ActivePcs,
         ~MarkInstalled(p), ~MarkRestored(p)
  PROVE  Swap!CutOff(bk[p])
<1>. USE DEF IndInv
<1>. DEFINE b == bk[p]
<1>1. receipt' = receipt
  BY ReceiptEffect, MoverEnds
<1>2. b \in Backups
  BY MoverEnds
<1>3. compromised \subseteq compromised'
      /\ \A c \in compromised' \ compromised : c = b /\ receipt[b] = "installed"
  BY CompromisedEffect, MoverEnds
<1>4. receipt[b] = "installed" => b \in compromised'
  <2>1. CASE pc[p] \in InstallPcs
    BY <2>1, PcKinds DEF ReceiptInv, ControlInv, Control
  <2>2. CASE pc[p] \in RestorePcs
    BY <2>2, PcKinds, RestoreEnds
  <2>. QED
    BY <2>1, <2>2 DEF ActivePcs
<1>5. compromised' = IF receipt[b] = "installed" THEN compromised \cup {b} ELSE compromised
  BY <1>3, <1>4
<1>6. CASE receipt[b] = "installing" /\ b \notin compromised
  <2>1. Node' = InTransit
    BY <1>1, <1>2, <1>5, <1>6 DEF Node, Unsettled
  <2>. QED
    BY <1>1, <1>5, <1>6, <2>1, MoverEnds DEF Swap!CutOff
<1>7. CASE ~(receipt[b] = "installing" /\ b \notin compromised)
  <2>1. Node' \in [Moved -> Data]
    BY <1>1, <1>3, <1>7, NodeAfter
  <2>. QED
    BY <1>1, <1>5, <1>7, <2>1, MoverEnds DEF Swap!CutOff, Swap!States
<1>. QED
  BY <1>6, <1>7

\* What the mover does in between stays within its swap.
LEMMA MoverMoves ==
  ASSUME IndInv, IndInv', NEW p \in Commands, ActsAlone(p),
         pc[p] \in ActivePcs, pc'[p] \in ActivePcs
  PROVE  UNCHANGED Swap!vars
<1>. USE DEF IndInv
<1>1. ~CreateBackup(p) /\ ~BeginRollback(p) /\ ~DeleteBackup(p)
  BY DEF CreateBackup, BeginRollback, DeleteBackup, ActivePcs, InstallPcs, BackupPcs, RestorePcs
<1>2. pc'[p] # "idle" /\ bk'[p] = bk[p]
  BY PcKinds, ComesFrom
<1>3. ~MarkInstalled(p) /\ ~MarkRestored(p)
  BY <1>2 DEF MarkInstalled, MarkRestored, EndCommand, Goto, TypeOK
<1>4. receipt' = receipt
  BY <1>1, <1>3, ReceiptEffect
<1>5. compromised' = compromised
  BY <1>1, <1>2, CompromisedEffect
<1>6. snapshot' = snapshot
  BY <1>1, LiveSavedEffect
<1>7. Movers = {p} /\ Movers' = {p}
  BY TheMover, TheMoverThen
<1>. QED
  BY <1>2, <1>4, <1>5, <1>6, <1>7, Stutter

-----------------------------------------------------------------------------
(* Steps of the other commands, and of programs.                           *)

\* An install that writes its receipt announces a swap.
LEMMA CreateAnnounces ==
  ASSUME IndInv, IndInv', NEW p \in Commands, ActsAlone(p), CreateBackup(p)
  PROVE  Swap!Announce(bk[p])
<1>. USE DEF IndInv
<1>. DEFINE b == bk[p]
<1>1. pc[p] = "cleared" /\ pc[p] \in LockedPcs /\ Unborn(b) /\ op[p] = "install"
  BY CreatesUnborn
<1>2. b \in Backups
  BY <1>1, WorksOnBackup
<1>3. Movers = {}
  <2>1. "cleared" \notin ActivePcs
    BY DEF ActivePcs, InstallPcs, BackupPcs, RestorePcs
  <2>. QED
    BY <1>1, <2>1, AloneInside, ActiveLocked DEF Movers
<1>4. pc'[p] \in ActivePcs /\ bk'[p] = b
  BY DEF CreateBackup, Goto, TypeOK, ActivePcs, InstallPcs, BackupPcs
<1>5. Moving = NoBackup /\ Moving' = b /\ Node' = InTransit
  BY <1>3, <1>4, TheMoverThen DEF Moving
<1>6. receipt[b] = "absent" /\ b \notin compromised
  BY <1>1 DEF Unborn
<1>7. receipt' = [receipt EXCEPT ![b] = "installing"]
      /\ snapshot' = [snapshot EXCEPT ![b] = live]
      /\ compromised' = compromised \cup OtherInterrupted(b)
  BY DEF CreateBackup
<1>8. Base' = [Base EXCEPT ![b] = OnMoved(live)] /\ Base'[b] = OnMoved(live)
  <2>1. \A c \in Backups : snapshot'[c] = IF c = b THEN live ELSE snapshot[c]
    BY <1>2, <1>7 DEF TypeOK
  <2>2. Base' = [c \in Backups |-> OnMoved(IF c = b THEN live ELSE snapshot[c])]
    BY <2>1 DEF Base, OnMoved
  <2>. QED
    BY <1>2, <2>2 DEF Base
<1>9. Node # InTransit => Node = OnMoved(live)
  BY DEF Node
<1>10. OtherInterrupted(b) = Swap!Interrupted \ {b}
  BY DEF OtherInterrupted, Swap!Interrupted
<1>11. Swap!Take(b)
  BY <1>5, <1>7, <1>10 DEF Swap!Take
<1>. QED
  BY <1>6, <1>7, <1>8, <1>9, <1>11, MappedTypes DEF Swap!Announce, Swap!States

\* A rollback that has the lock opens the swap it undoes.
LEMMA RollbackOpens ==
  ASSUME IndInv, IndInv', NEW p \in Commands, ActsAlone(p), BeginRollback(p)
  PROVE  Swap!Open(bk[p])
<1>. USE DEF IndInv
<1>. DEFINE b == bk[p]
<1>1. pc[p] = "cleared" /\ pc[p] \in LockedPcs /\ pc[p] \notin ActivePcs
  BY DEF BeginRollback, LockedPcs, ActivePcs, InstallPcs, BackupPcs, RestorePcs
<1>2. Movers = {}
  BY <1>1, AloneInside, ActiveLocked DEF Movers
<1>3. pc'[p] \in ActivePcs /\ bk'[p] = b
  BY DEF BeginRollback, Goto, TypeOK, ActivePcs, RestorePcs
<1>4. Moving = NoBackup /\ Moving' = b /\ Node' = InTransit
  BY <1>2, <1>3, TheMoverThen DEF Moving
<1>5. UNCHANGED <<receipt, snapshot>> /\ compromised' = compromised \cup OtherInterrupted(b)
  BY DEF BeginRollback, disk
<1>6. Base' = Base
  BY <1>5 DEF Base, OnMoved
<1>7. OtherInterrupted(b) = Swap!Interrupted \ {b}
  BY DEF OtherInterrupted, Swap!Interrupted
<1>. QED
  BY <1>4, <1>5, <1>6, <1>7 DEF Swap!Open, Swap!Take

\* A command that neither moves state nor begins to deletes a backup or does
\* nothing the swap knows of.
LEMMA BystanderSteps ==
  ASSUME IndInv, IndInv', NEW p \in Commands, ActsAlone(p), pc[p] \notin ActivePcs,
         ~CreateBackup(p), ~BeginRollback(p)
  PROVE  \/ bk[p] \in Backups /\ Swap!Discard(bk[p])
         \/ UNCHANGED Swap!vars
<1>. USE DEF IndInv
<1>1. ~MarkInstalled(p) /\ ~MarkRestored(p)
  BY DEF MarkInstalled, MarkRestored, ActivePcs, InstallPcs, RestorePcs
<1>2. ~\E i \in Items : ItemStep(p, i)
  BY ItemPc
<1>3. live' = live /\ snapshot' = snapshot
  BY <1>2, LiveSavedEffect
<1>4. pc'[p] \notin ActivePcs
  <2>1. Operator(p) => pc'[p] \in {"prepared", "confirm_delete"}
    BY DEF Operator, StartInstall, StartRollback, StartDelete, Goto, TypeOK
  <2>. QED
    BY <2>1, OwnerEffect, PcKinds DEF PreparePcs
<1>5. Movers' = Movers /\ \A r \in Movers : r # p /\ bk'[r] = bk[r]
  BY <1>4, CommandFrame DEF Movers, OthersUnchanged
<1>6. CASE DeleteBackup(p)
  <2>. DEFINE b == bk[p]
  <2>1. b \in Backups /\ receipt[b] \notin {"absent", "installing"}
    BY <1>6, WorksOnBackup DEF DeleteBackup, ReceiptInv, ControlInv, Control
  <2>2. receipt' = [receipt EXCEPT ![b] = "absent"] /\ compromised' = compromised \cup {b}
    BY <1>6 DEF DeleteBackup
  <2>3. Unsettled' = Unsettled
    BY <2>1, <2>2 DEF Unsettled, TypeOK
  <2>4. Node' = Node /\ Base' = Base
    BY <1>3, <1>5, <2>3 DEF Node, Base, OnMoved
  <2>5. Moving' = Moving
    BY <1>5, SameMover
  <2>. QED
    BY <2>1, <2>2, <2>4, <2>5 DEF Swap!Discard
<1>7. CASE ~DeleteBackup(p)
  <2>1. receipt' = receipt
    BY <1>1, <1>7, ReceiptEffect
  <2>2. compromised' = compromised
    BY <1>7, CompromisedEffect, PcKinds
  <2>. QED
    BY <1>3, <1>5, <2>1, <2>2, Stutter
<1>. QED
  BY <1>6, <1>7

\* A deletion that is cut off leaves something the swap knows nothing of.
LEMMA CutLeaves ==
  ASSUME IndInv, IndInv', NEW p \in Commands, CutDeletion(p)
  PROVE  \E b \in Backups, c \in Backups : Swap!Leave(b, c)
<1>. USE DEF IndInv
<1>1. PICK b \in Installs, c \in Backups \ Installs :
        /\ b \in Backups /\ b = bk[p]
        /\ receipt[b] \notin {"absent", "installing"}
        /\ receipt' = [receipt EXCEPT ![b] = "absent", ![c] = receipt[b]]
        /\ receipt[c] = "absent"
        /\ compromised' = compromised \cup {b, c}
  BY CutEffect
<1>2. live' = live /\ snapshot' = snapshot
  BY DEF CutDeletion
<1>3. pc[p] \notin ActivePcs /\ pc'[p] \notin ActivePcs
      /\ \A r \in Commands \ {p} : pc'[r] = pc[r] /\ bk'[r] = bk[r]
  BY DEF CutDeletion, EndCommand, Goto, TypeOK, ActivePcs, InstallPcs, BackupPcs, RestorePcs
<1>4. Movers' = Movers /\ \A r \in Movers : bk'[r] = bk[r]
  BY <1>3 DEF Movers
<1>5. \A d \in Backups : receipt'[d] = "installing" <=> receipt[d] = "installing"
  BY <1>1 DEF TypeOK
<1>6. \A d \in Backups : receipt[d] = "installing" =>
        (d \in compromised' <=> d \in compromised)
  BY <1>1
<1>7. Unsettled' = Unsettled
  BY <1>5, <1>6 DEF Unsettled
<1>8. Node' = Node /\ Base' = Base
  BY <1>2, <1>4, <1>7 DEF Node, Base, OnMoved
<1>9. Moving' = Moving
  BY <1>4, SameMover
<1>. QED
  BY <1>1, <1>8, <1>9 DEF Swap!Leave

\* A program uses a settled node; of one in transit nothing is seen.
LEMMA ProgramUses ==
  ASSUME IndInv, IndInv', NEW q \in Programs, StartProgram(q) \/ StopProgram(q)
  PROVE  Swap!Use \/ UNCHANGED Swap!vars
<1>. USE DEF IndInv
<1>1. UNCHANGED <<receipt, pc, bk, snapshot, compromised>>
  BY ProgramEffect DEF process, history
<1>2. Movers' = Movers /\ Unsettled' = Unsettled /\ Base' = Base /\ Moving' = Moving
  BY <1>1 DEF Movers, Unsettled, Base, Moving, OnMoved
<1>3. CASE Movers # {} \/ Unsettled
  BY <1>1, <1>2, <1>3 DEF Node, Swap!vars
<1>4. CASE ~(Movers # {} \/ Unsettled)
  <2>1. Node = OnMoved(live) /\ Node' = OnMoved(live)'
    BY <1>2, <1>4 DEF Node
  <2>2. Node \in [Moved -> Data] /\ Node' \in [Moved -> Data]
    BY <2>1, MappedTypes, MappedTypesThen
  <2>3. Node # InTransit
    BY <2>2, InTransitAssumption
  <2>4. \A i \in Moved : Node[i] = live[i] /\ Node'[i] = live'[i]
    BY <2>1 DEF OnMoved
  <2>5. \A i \in Moved : Node'[i] # Node[i] => Node[i] = Absent /\ Node'[i] = Fresh
    BY <2>4, ProgramEffect, ItemFacts
  <2>. QED
    BY <1>1, <1>2, <2>2, <2>3, <2>5 DEF Swap!Use, Swap!States
<1>. QED
  BY <1>3, <1>4

-----------------------------------------------------------------------------
(* The theorem.                                                            *)

\* The initial states map to initial states.
LEMMA MappedInitially == Init => Swap!Init
<1>. SUFFICES ASSUME Init PROVE Swap!Init
  OBVIOUS
<1>1. TypeOK
  BY Initially DEF IndInv
<1>2. Movers = {}
  BY DEF Init, Movers, ActivePcs, InstallPcs, BackupPcs, RestorePcs
<1>3. ~Unsettled
  BY DEF Init, Unsettled
<1>4. Node \in [Moved -> Data] /\ Moving = NoBackup
  BY <1>1, <1>2, <1>3, MappedTypes DEF Node, Moving
<1>. QED
  BY <1>1, <1>4, MappedTypes DEF Init, Swap!Init, Swap!States

\* Every step maps to a step or to a stutter.
LEMMA MappedStep ==
  ASSUME IndInv, IndInv', [Next]_vars
  PROVE  [Swap!Next]_(Swap!vars)
<1>. USE DEF IndInv
<1>1. ASSUME NEW p \in Commands, ActsAlone(p), pc[p] \in ActivePcs
      PROVE  Swap!Next \/ UNCHANGED Swap!vars
  <2>1. CASE pc'[p] \in ActivePcs
    BY <1>1, <2>1, MoverMoves
  <2>2. CASE pc'[p] \notin ActivePcs
    <3>1. bk[p] \in Backups
      BY <1>1, <2>2, MoverEnds
    <3>2. \/ Swap!Commit(bk[p]) \/ Swap!Abort(bk[p]) \/ Swap!Undo(bk[p])
          \/ Swap!CutOff(bk[p])
      BY <1>1, <2>2, InstallCommits, RestoreUndoes, MoverCutOff
    <3>. QED
      BY <3>1, <3>2 DEF Swap!Next
  <2>. QED
    BY <2>1, <2>2
<1>2. ASSUME NEW p \in Commands, ActsAlone(p), pc[p] \notin ActivePcs
      PROVE  Swap!Next \/ UNCHANGED Swap!vars
  <2>1. CASE CreateBackup(p) \/ BeginRollback(p)
    <3>1. bk[p] \in Backups
      BY <2>1, WorksOnBackup DEF CreateBackup, BeginRollback
    <3>2. Swap!Announce(bk[p]) \/ Swap!Open(bk[p])
      BY <1>2, <2>1, CreateAnnounces, RollbackOpens
    <3>. QED
      BY <3>1, <3>2 DEF Swap!Next
  <2>2. CASE ~CreateBackup(p) /\ ~BeginRollback(p)
    BY <1>2, <2>2, BystanderSteps DEF Swap!Next
  <2>. QED
    BY <2>1, <2>2
<1>3. ASSUME NEW q \in Programs, StartProgram(q) \/ StopProgram(q)
      PROVE  Swap!Next \/ UNCHANGED Swap!vars
  BY <1>3, ProgramUses DEF Swap!Next
<1>4. CASE UNCHANGED vars
  <2>1. UNCHANGED <<live, receipt, pc, bk, snapshot, compromised>>
    BY <1>4 DEF vars, disk, process, history
  <2>2. Movers' = Movers /\ \A p \in Movers : bk'[p] = bk[p]
    BY <2>1 DEF Movers
  <2>. QED
    BY <2>1, <2>2, Stutter
<1>5. ASSUME NEW p \in Commands, CutDeletion(p)
      PROVE  Swap!Next
  BY <1>5, CutLeaves, InstallsAreBackups DEF Swap!Next
<1>. QED
  BY <1>1, <1>2, <1>3, <1>4, <1>5 DEF Next, ActsAlone

\* The checkpoint transaction, killed and interleaved at every file-system
\* call, implements the atomic swap of CheckpointSwap.
THEOREM Refinement == Spec => ImplementsSwap
<1>1. IndInv /\ IndInv' /\ [Next]_vars => [Swap!Next]_(Swap!vars)
  BY MappedStep
<1>. QED
  BY <1>1, MappedInitially, Invariance, PTL DEF Spec, ImplementsSwap, Swap!Spec
=============================================================================
