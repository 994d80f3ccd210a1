------------------------- MODULE OnboardingTheorems -------------------------
(***************************************************************************)
(* The safety properties of ValidatorOnboarding, for every bound on the    *)
(* epoch, every maximum age and every pair of timeouts.  One inductive     *)
(* invariant carries them: Inv, whose conjuncts say what the command has   *)
(* established by the time it reaches each of its program counters.        *)
(***************************************************************************)
EXTENDS ValidatorOnboarding, TLAPS

\* Program counters at which a checkpoint is being chosen, and those at which
\* an epoch has been chosen.
Choosing == {"select", "await_epoch", "probe", "manifest", "anchor", "install"}
Chosen   == {"await_epoch", "probe", "manifest", "anchor", "install"}
Settled  == {"manifest", "anchor", "install"}

Remote == args.source = "remote"

\* The first check has decided before a checkpoint is looked for, and nothing
\* is installed before the installation.
DecidedFirst ==
  /\ pc \in Choosing => decidedAt # NoEpoch
  /\ decidedAt # NoEpoch => decidedAt <= epoch
  /\ installed # NoEpoch => pc \in {"second", "start", "ended"}

\* What is known of the epoch chosen, from select_epoch to the installation.
ChosenWell ==
  /\ pc \in Chosen => selected \in Epochs
  /\ pc = "await_epoch" \/ pc = "probe" =>
       Remote /\ selected = args.requested
  /\ network <= epoch
  /\ pc = "probe" => selected < network

\* epoch e may be installed from a remote source.
MayInstall(e) ==
  /\ e < epoch
  /\ args.requested = NoEpoch => e >= decidedAt - 1
  /\ args.requested \notin {NoEpoch, e} =>
       e > args.requested /\ args.checkpoint \in {"ask", "latest-available"}

SettledWell   == pc \in Settled /\ Remote => MayInstall(selected)
InstalledWell == installed # NoEpoch =>
                   decidedAt # NoEpoch /\ (Remote => MayInstall(installed))

\* An early start rests on the operator's policy, which a check changes to
\* "wait" only.
PolicyKept ==
  /\ policy \in {args.policy, "wait"}
  /\ early => args.policy \in {"ask", "start"}

Authorized ==
  /\ fresh
  /\ \/ seen \in {"Joining", "Active"}
     \/ seen \in PRE_JOINING_STATUSES /\ args.policy \in {"ask", "start"}

StartWell == pc = "start" => Authorized

\* Time spent waiting comes out of the one budget.
BudgetKept == args.wait # 0 => slept + waitLeft <= args.wait

Inv == /\ TypeOK /\ DecidedFirst /\ ChosenWell /\ SettledWell
       /\ InstalledWell /\ PolicyKept /\ StartWell /\ BudgetKept

-----------------------------------------------------------------------------
(* The initial states. *)

\* The command starts with nothing chosen, decided or installed.
LEMMA InitInv == Init => Inv
<1> SUFFICES ASSUME Init PROVE Inv
  OBVIOUS
<1> USE BoundsAssumption DEF Init
<1>1. args.wait \in Nat /\ args.snapshot \in Nat
  BY DEF Arguments
<1>2. 0 \in Epochs /\ Epochs \subseteq Nat /\ NoEpoch \notin Epochs
  BY DEF Epochs
<1>3. args.policy \in {"ask", "wait", "start", "leave-stopped"}
  BY DEF Arguments
<1>4. TypeOK
  <2>1. waitLeft \in 0 .. args.wait /\ snapshotLeft \in 0 .. args.snapshot
    BY <1>1
  <2>2. slept \in 0 .. args.wait + 1
    BY <1>1
  <2>3. {start, early, services, fresh} \subseteq BOOLEAN
    OBVIOUS
  <2>4. pc \in Pcs /\ seen \in Statuses
    BY DEF Pcs, Statuses, PRE_JOINING_STATUSES
  <2>5. QED
    BY <1>2, <1>3, <2>1, <2>2, <2>3, <2>4 DEF TypeOK
<1>5. DecidedFirst /\ ChosenWell /\ SettledWell /\ InstalledWell
  BY <1>2 DEF DecidedFirst, ChosenWell, SettledWell, InstalledWell, Choosing,
              Chosen, Settled
<1>6. PolicyKept /\ StartWell /\ BudgetKept
  BY <1>1 DEF PolicyKept, StartWell, BudgetKept
<1>7. QED
  BY <1>4, <1>5, <1>6 DEF Inv

-----------------------------------------------------------------------------
(* One lemma per action. *)

\* The types the leaves below compute with.
LEMMA Types ==
  ASSUME TypeOK
  PROVE  /\ Epochs \subseteq Nat /\ NoEpoch \notin Nat /\ NoEpoch \notin Epochs
         /\ args.wait \in Nat /\ args.snapshot \in Nat
         /\ waitLeft \in Nat /\ snapshotLeft \in Nat /\ slept \in Nat
         /\ epoch \in Nat /\ network \in Nat /\ MaxEpoch \in Nat
         /\ args.requested \in Epochs \cup {NoEpoch}
         /\ args.policy \in {"ask", "wait", "start", "leave-stopped"}
<1>1. MaxEpoch \in Nat /\ NoEpoch \notin Nat
  BY BoundsAssumption
<1>2. WaitTimeouts \subseteq Nat /\ SnapshotTimeouts \subseteq Nat
  BY BoundsAssumption
<1>3. Epochs \subseteq Nat /\ NoEpoch \notin Epochs
  BY <1>1 DEF Epochs
<1>4. args.wait \in Nat /\ args.snapshot \in Nat
  BY <1>2 DEF TypeOK, Arguments
<1>5. waitLeft \in Nat /\ snapshotLeft \in Nat /\ slept \in Nat
  BY <1>4 DEF TypeOK
<1>6. /\ args.requested \in Epochs \cup {NoEpoch}
      /\ args.policy \in {"ask", "wait", "start", "leave-stopped"}
  BY DEF TypeOK, Arguments
<1>7. QED
  BY <1>1, <1>3, <1>4, <1>5, <1>6 DEF TypeOK

\* One poll interval less before a deadline.
LEMMA LessBounds ==
  ASSUME NEW w \in Nat, NEW n \in 0 .. w
  PROVE  /\ Less(n) \in 0 .. w
         /\ Less(n) <= n
         /\ n # 0 => Less(n) = n - 1
  BY DEF Less

\* A retry brings both deadlines nearer or ends the command.
LEMMA RetryBounds ==
  ASSUME TypeOK, SleepUntilRetry
  PROVE  /\ waitLeft' \in 0 .. args.wait
         /\ waitLeft' <= waitLeft
         /\ snapshotLeft' \in 0 .. args.snapshot
         /\ pc' \in {pc, "ended"}
<1>1. args.wait \in Nat /\ waitLeft \in 0 .. args.wait
  BY Types DEF TypeOK
<1>2. args.snapshot \in Nat /\ snapshotLeft \in 0 .. args.snapshot
  BY Types DEF TypeOK
<1>3. QED
  BY <1>1, <1>2, LessBounds DEF SleepUntilRetry, clocks

\* The network's epoch only grows, which every comparison with it survives.
LEMMA AdvanceEpochKeeps == Inv /\ AdvanceEpoch => Inv'
<1> SUFFICES ASSUME Inv, AdvanceEpoch PROVE Inv'
  OBVIOUS
<1> USE Types DEF AdvanceEpoch, Inv, world, lifecycle, selection, clocks,
                  results, history, command
<1>1. TypeOK'
  <2>1. epoch' \in Epochs
    BY DEF Epochs, TypeOK
  <2>2. QED
    BY <2>1 DEF TypeOK
<1>2. DecidedFirst'
  BY DEF TypeOK, DecidedFirst, Choosing
<1>3. ChosenWell'
  BY DEF TypeOK, ChosenWell, Chosen, Remote
<1>4. SettledWell'
  BY DEF TypeOK, DecidedFirst, ChosenWell, SettledWell, MayInstall, Choosing,
         Chosen, Settled, Remote
<1>5. InstalledWell'
  BY DEF TypeOK, DecidedFirst, ChosenWell, SettledWell, InstalledWell,
         MayInstall, Choosing, Chosen, Settled, Remote
<1>6. PolicyKept'
  BY DEF PolicyKept
<1>7. StartWell'
  BY DEF StartWell, PolicyKept, Authorized
<1>8. BudgetKept'
  BY DEF TypeOK, BudgetKept
<1>9. QED
  BY <1>1, <1>2, <1>3, <1>4, <1>5, <1>6, <1>7, <1>8 DEF Inv

\* Time passing brings the deadlines nearer and changes nothing else.
LEMMA TimePassesKeeps == Inv /\ TimePasses => Inv'
<1> SUFFICES ASSUME Inv, TimePasses PROVE Inv'
  OBVIOUS
<1> USE Types DEF TimePasses, Inv, world, lifecycle, selection, clocks,
                  results, history, command
<1>1. TypeOK'
  BY LessBounds DEF TypeOK
<1>2. DecidedFirst'
  BY DEF TypeOK, DecidedFirst, Choosing
<1>3. ChosenWell'
  BY DEF TypeOK, ChosenWell, Chosen, Remote
<1>4. SettledWell'
  BY DEF TypeOK, DecidedFirst, ChosenWell, SettledWell, MayInstall, Choosing,
         Chosen, Settled, Remote
<1>5. InstalledWell'
  BY DEF TypeOK, DecidedFirst, ChosenWell, SettledWell, InstalledWell,
         MayInstall, Choosing, Chosen, Settled, Remote
<1>6. PolicyKept'
  BY DEF PolicyKept
<1>7. StartWell'
  BY DEF StartWell, PolicyKept, Authorized
<1>8. BudgetKept'
  BY LessBounds DEF TypeOK, BudgetKept
<1>9. QED
  BY <1>1, <1>2, <1>3, <1>4, <1>5, <1>6, <1>7, <1>8 DEF Inv

\* Validating the inputs decides nothing.
LEMMA PrepareKeeps == Inv /\ Prepare => Inv'
<1> SUFFICES ASSUME Inv, Prepare PROVE Inv'
  OBVIOUS
<1> USE Types DEF Prepare, Inv, world, lifecycle, selection, clocks, results,
                  history, command
<1>1. TypeOK'
  BY DEF TypeOK, Pcs
<1>2. DecidedFirst' /\ ChosenWell' /\ SettledWell' /\ InstalledWell'
  BY DEF TypeOK, DecidedFirst, Choosing, ChosenWell, Chosen, Remote,
         SettledWell, MayInstall, Settled, InstalledWell
<1>3. PolicyKept' /\ StartWell' /\ BudgetKept'
  BY DEF PolicyKept, StartWell, Authorized, TypeOK, BudgetKept
<1>4. QED
  BY <1>1, <1>2, <1>3 DEF Inv

\* A command that ends keeps what it had established.
LEMMA AbortKeeps == Inv /\ Abort => Inv'
<1> SUFFICES ASSUME Inv, Abort PROVE Inv'
  OBVIOUS
<1> USE Types DEF Abort, Inv, world, lifecycle, selection, clocks, results,
                  history, command
<1>1. TypeOK'
  BY DEF TypeOK, Pcs
<1>2. DecidedFirst' /\ ChosenWell' /\ SettledWell' /\ InstalledWell'
  BY DEF TypeOK, DecidedFirst, Choosing, ChosenWell, Chosen, Remote,
         SettledWell, MayInstall, Settled, InstalledWell
<1>3. PolicyKept' /\ StartWell' /\ BudgetKept'
  BY DEF PolicyKept, StartWell, Authorized, TypeOK, BudgetKept
<1>4. QED
  BY <1>1, <1>2, <1>3 DEF Inv

\* A lifecycle check authorizes the start it decides on, and spends the
\* budget it waits for.
LEMMA CheckLifecycleKeeps == Inv /\ CheckLifecycle => Inv'
<1> SUFFICES ASSUME Inv, CheckLifecycle PROVE Inv'
  OBVIOUS
<1> USE Types DEF CheckLifecycle, Choices, Decide, WaitForJoining,
                  WaitExpired, Statuses, PRE_JOINING_STATUSES,
                  REFUSED_STATUSES, Inv, world, lifecycle, selection, clocks,
                  results, history, command
<1>1. TypeOK'
  <2>1. pc' \in Pcs /\ policy' \in {"ask", "wait", "start", "leave-stopped"}
    BY DEF TypeOK, Pcs
  <2>2. seen' \in Statuses
    BY DEF TypeOK
  <2>3. start' \in BOOLEAN /\ early' \in BOOLEAN /\ fresh' = TRUE
    BY DEF TypeOK
  <2>4. decidedAt' \in Epochs \cup {NoEpoch}
    BY DEF TypeOK
  <2>5. waitLeft' \in 0 .. args.wait /\ snapshotLeft' = snapshotLeft
    BY LessBounds DEF TypeOK
  <2>6. slept' \in 0 .. args.wait + 1
    BY DEF TypeOK
  <2>7. QED
    BY <2>1, <2>2, <2>3, <2>4, <2>5, <2>6 DEF TypeOK
<1>2. DecidedFirst'
  BY DEF TypeOK, DecidedFirst, Choosing
<1>3. ChosenWell'
  BY DEF TypeOK, ChosenWell, Chosen, Remote
<1>4. SettledWell'
  BY DEF TypeOK, DecidedFirst, ChosenWell, SettledWell, MayInstall, Choosing,
         Chosen, Settled, Remote
<1>5. InstalledWell'
  BY DEF TypeOK, DecidedFirst, ChosenWell, SettledWell, InstalledWell,
         MayInstall, Choosing, Chosen, Settled, Remote
<1>6. PolicyKept'
  BY DEF PolicyKept
<1>7. StartWell'
  BY DEF StartWell, PolicyKept, Authorized
<1>8. BudgetKept'
  <2>1. CASE UNCHANGED <<waitLeft, slept>>
    BY <2>1 DEF BudgetKept
  <2>2. CASE ~UNCHANGED <<waitLeft, slept>>
    <3>1. WaitForJoining /\ ~WaitExpired
      BY <2>2
    <3>2. args.wait # 0 => waitLeft # 0
      BY <3>1
    <3>3. waitLeft \in 0 .. args.wait /\ waitLeft' = Less(waitLeft)
      BY <3>1 DEF TypeOK
    <3>4. args.wait # 0 => waitLeft' = waitLeft - 1
      BY <3>2, <3>3, LessBounds
    <3>5. slept' \in {slept, slept + 1}
      BY <3>1
    <3>6. QED
      BY <3>3, <3>4, <3>5 DEF BudgetKept
  <2>3. QED
    BY <2>1, <2>2
<1>9. QED
  BY <1>1, <1>2, <1>3, <1>4, <1>5, <1>6, <1>7, <1>8 DEF Inv

\* The default selection is the newest completed epoch, an explicit one is
\* kept.
LEMMA SelectKeeps == Inv /\ Select => Inv'
<1> SUFFICES ASSUME Inv, Select PROVE Inv'
  OBVIOUS
<1> USE Types DEF Select, SelectNewest, Inv, world, lifecycle, selection,
                  clocks, results, history, command
<1>1. TypeOK'
  <2>1. pc' \in Pcs /\ network' \in Epochs
    BY DEF TypeOK, Pcs
  <2>2. epoch # 0 => epoch - 1 \in Epochs
    BY DEF TypeOK, Epochs
  <2>3. selected' \in Epochs \cup {NoEpoch}
    BY <2>2 DEF TypeOK
  <2>4. snapshotLeft' \in 0 .. args.snapshot
    OBVIOUS
  <2>5. QED
    BY <2>1, <2>3, <2>4 DEF TypeOK
<1>2. DecidedFirst'
  BY DEF TypeOK, DecidedFirst, Choosing
<1>3. ChosenWell'
  <2>1. epoch # 0 => epoch - 1 \in Epochs
    BY DEF TypeOK, Epochs
  <2>2. pc' \in Chosen => selected' \in Epochs
    BY <2>1 DEF TypeOK, Chosen
  <2>3. pc' = "await_epoch" \/ pc' = "probe" =>
          Remote' /\ selected' = args'.requested
    BY DEF Remote
  <2>4. network' <= epoch' /\ pc' # "probe"
    BY DEF ChosenWell
  <2>5. QED
    BY <2>2, <2>3, <2>4 DEF ChosenWell
<1>4. SettledWell'
  BY DEF TypeOK, DecidedFirst, ChosenWell, SettledWell, MayInstall, Choosing,
         Chosen, Settled, Remote
<1>5. InstalledWell'
  BY DEF TypeOK, DecidedFirst, ChosenWell, SettledWell, InstalledWell,
         MayInstall, Choosing, Chosen, Settled, Remote
<1>6. PolicyKept'
  BY DEF PolicyKept
<1>7. StartWell'
  BY DEF StartWell, PolicyKept, Authorized
<1>8. BudgetKept'
  BY DEF TypeOK, BudgetKept
<1>9. QED
  BY <1>1, <1>2, <1>3, <1>4, <1>5, <1>6, <1>7, <1>8 DEF Inv

\* The epoch asked for is completed before anything is fetched for it.
LEMMA AwaitEpochKeeps == Inv /\ AwaitEpoch => Inv'
<1> SUFFICES ASSUME Inv, AwaitEpoch PROVE Inv'
  OBVIOUS
<1> USE Types DEF AwaitEpoch, Completed, Inv, world, lifecycle, selection,
                  clocks, results, history, command
<1>1. TypeOK'
  BY RetryBounds DEF TypeOK, Pcs
<1>2. DecidedFirst' /\ ChosenWell' /\ SettledWell' /\ InstalledWell'
  BY RetryBounds DEF TypeOK, DecidedFirst, Choosing, ChosenWell, Chosen,
         Remote, SettledWell, MayInstall, Settled, InstalledWell
<1>3. PolicyKept' /\ StartWell' /\ BudgetKept'
  BY RetryBounds DEF PolicyKept, StartWell, Authorized, TypeOK, BudgetKept
<1>4. QED
  BY <1>1, <1>2, <1>3 DEF Inv

\* A later epoch replaces the one asked for under a policy that allows it.
LEMMA ProbeNewestKeeps == Inv /\ ProbeNewest => Inv'
<1> SUFFICES ASSUME Inv, ProbeNewest PROVE Inv'
  OBVIOUS
<1> USE Types DEF ProbeNewest, Answers, Inv, world, lifecycle, selection,
                  clocks, results, history, command
<1>1. TypeOK'
  <2>1. pc' \in Pcs
    BY DEF Pcs
  <2>2. selected \in Epochs
    BY DEF ChosenWell, Chosen
  <2>3. network - 1 > selected => network - 1 \in Epochs
    BY <2>2 DEF TypeOK, Epochs
  <2>4. selected' \in Epochs
    BY <2>2, <2>3
  <2>5. QED
    BY <2>1, <2>4 DEF TypeOK
<1>2. DecidedFirst'
  BY DEF TypeOK, DecidedFirst, Choosing
<1>3. ChosenWell'
  <2>1. selected \in Epochs
    BY DEF ChosenWell, Chosen
  <2>2. network - 1 > selected => network - 1 \in Epochs
    BY <2>1 DEF TypeOK, Epochs
  <2>3. selected' \in Epochs
    BY <2>1, <2>2
  <2>4. pc' \in {"manifest", "anchor", "ended"}
    OBVIOUS
  <2>5. QED
    BY <2>3, <2>4 DEF ChosenWell
<1>4. SettledWell'
  BY DEF TypeOK, DecidedFirst, ChosenWell, SettledWell, MayInstall, Choosing,
         Chosen, Settled, Remote
<1>5. InstalledWell'
  BY DEF TypeOK, DecidedFirst, ChosenWell, SettledWell, InstalledWell,
         MayInstall, Choosing, Chosen, Settled, Remote
<1>6. PolicyKept'
  BY DEF PolicyKept
<1>7. StartWell'
  BY DEF StartWell, PolicyKept, Authorized
<1>8. BudgetKept'
  BY DEF TypeOK, BudgetKept
<1>9. QED
  BY <1>1, <1>2, <1>3, <1>4, <1>5, <1>6, <1>7, <1>8 DEF Inv

\* The manifest must name the epoch selected.
LEMMA FetchManifestKeeps == Inv /\ FetchManifest => Inv'
<1> SUFFICES ASSUME Inv, FetchManifest PROVE Inv'
  OBVIOUS
<1> USE Types DEF FetchManifest, Inv, world, lifecycle, selection, clocks,
                  results, history, command
<1>1. TypeOK'
  BY RetryBounds DEF TypeOK, Pcs
<1>2. DecidedFirst' /\ ChosenWell' /\ SettledWell' /\ InstalledWell'
  BY RetryBounds DEF TypeOK, DecidedFirst, Choosing, ChosenWell, Chosen,
         Remote, SettledWell, MayInstall, Settled, InstalledWell
<1>3. PolicyKept' /\ StartWell' /\ BudgetKept'
  BY RetryBounds DEF PolicyKept, StartWell, Authorized, TypeOK, BudgetKept
<1>4. QED
  BY <1>1, <1>2, <1>3 DEF Inv

\* The anchor must name an epoch not after the one selected.
LEMMA AnchorKeeps == Inv /\ Anchor => Inv'
<1> SUFFICES ASSUME Inv, Anchor PROVE Inv'
  OBVIOUS
<1> USE Types DEF Anchor, Inv, world, lifecycle, selection, clocks, results,
                  history, command
<1>1. TypeOK'
  BY DEF TypeOK, Pcs
<1>2. DecidedFirst' /\ ChosenWell' /\ SettledWell' /\ InstalledWell'
  BY DEF TypeOK, DecidedFirst, Choosing, ChosenWell, Chosen, Remote,
         SettledWell, MayInstall, Settled, InstalledWell
<1>3. PolicyKept' /\ StartWell' /\ BudgetKept'
  BY DEF PolicyKept, StartWell, Authorized, TypeOK, BudgetKept
<1>4. QED
  BY <1>1, <1>2, <1>3 DEF Inv

\* What is installed is what was selected; the status is no longer fresh.
LEMMA InstallKeeps == Inv /\ Install => Inv'
<1> SUFFICES ASSUME Inv, Install PROVE Inv'
  OBVIOUS
<1> USE Types DEF Install, Inv, world, lifecycle, selection, clocks, results,
                  history, command
<1>1. TypeOK'
  BY DEF TypeOK, Pcs
<1>2. DecidedFirst' /\ ChosenWell' /\ SettledWell' /\ InstalledWell'
  BY DEF TypeOK, DecidedFirst, Choosing, ChosenWell, Chosen, Remote,
         SettledWell, MayInstall, Settled, InstalledWell
<1>3. PolicyKept' /\ StartWell' /\ BudgetKept'
  BY DEF PolicyKept, StartWell, Authorized, TypeOK, BudgetKept
<1>4. QED
  BY <1>1, <1>2, <1>3 DEF Inv

\* The start ends the command.
LEMMA StartValidatorKeeps == Inv /\ StartValidator => Inv'
<1> SUFFICES ASSUME Inv, StartValidator PROVE Inv'
  OBVIOUS
<1> USE Types DEF StartValidator, Inv, world, lifecycle, selection, clocks,
                  results, history, command
<1>1. TypeOK'
  BY DEF TypeOK, Pcs
<1>2. DecidedFirst' /\ ChosenWell' /\ SettledWell' /\ InstalledWell'
  BY DEF TypeOK, DecidedFirst, Choosing, ChosenWell, Chosen, Remote,
         SettledWell, MayInstall, Settled, InstalledWell
<1>3. PolicyKept' /\ StartWell' /\ BudgetKept'
  BY DEF PolicyKept, StartWell, Authorized, TypeOK, BudgetKept
<1>4. QED
  BY <1>1, <1>2, <1>3 DEF Inv

-----------------------------------------------------------------------------
(* The theorems. *)

\* Every state of the command is in the inductive invariant.
THEOREM Invariance == Spec => []Inv
<1>1. Init => Inv
  BY InitInv
<1>2. Inv /\ [Next]_vars => Inv'
  <2> SUFFICES ASSUME Inv, [Next]_vars PROVE Inv'
    OBVIOUS
  <2>1. CASE Step
    BY <2>1, PrepareKeeps, CheckLifecycleKeeps, SelectKeeps, AwaitEpochKeeps,
       ProbeNewestKeeps, FetchManifestKeeps, AnchorKeeps, InstallKeeps,
       StartValidatorKeeps DEF Step
  <2>2. CASE Abort \/ AdvanceEpoch \/ TimePasses
    BY <2>2, AbortKeeps, AdvanceEpochKeeps, TimePassesKeeps
  <2>3. CASE UNCHANGED vars
    BY <2>3 DEF Inv, TypeOK, DecidedFirst, ChosenWell, SettledWell,
       InstalledWell, PolicyKept, StartWell, BudgetKept, MayInstall, Authorized,
       Choosing, Chosen, Settled, Remote, vars, world, lifecycle, selection,
       clocks, results, history
  <2>4. QED
    BY <2>1, <2>2, <2>3 DEF Next
<1>3. QED
  BY <1>1, <1>2, PTL DEF Spec

\* Types, for every value of the bounds and timeouts.
THEOREM TypeCorrectness == Spec => []TypeOK
<1>1. Inv => TypeOK
  BY DEF Inv
<1>2. QED
  BY <1>1, Invariance, PTL

\* State is replaced only after the lifecycle check has decided, and by
\* default with an epoch no older than the newest completed at that time.
THEOREM InstallationFollowsDecision == Spec => []InstallFollowsDecision
<1>1. Inv => InstallFollowsDecision
  BY DEF Inv, InstalledWell, MayInstall, Remote, InstallFollowsDecision
<1>2. QED
  BY <1>1, Invariance, PTL

\* A downloaded checkpoint is of a completed epoch, and an explicit epoch is
\* replaced by a later one only under a policy that allows it.
THEOREM EpochSelection == Spec => []ExplicitEpochIsKept
<1>1. Inv => ExplicitEpochIsKept
  BY Types DEF Inv, TypeOK, InstalledWell, MayInstall, Remote,
               ExplicitEpochIsKept
<1>2. QED
  BY <1>1, Invariance, PTL

\* The two lifecycle checks share one wait budget.
THEOREM WaitBudget == Spec => []WaitBudgetIsShared
<1>1. Inv => WaitBudgetIsShared
  BY Types DEF Inv, BudgetKept, WaitBudgetIsShared
<1>2. QED
  BY <1>1, Invariance, PTL

\* Services start only on a fresh status that permits it.
THEOREM StartAuthorization == Spec => StartIsAuthorized
<1>1. Inv /\ [Next]_vars =>
        [services' # services =>
           /\ fresh
           /\ \/ seen \in {"Joining", "Active"}
              \/ /\ seen \in PRE_JOINING_STATUSES
                 /\ args.policy \in {"start", "ask"}]_vars
  <2> SUFFICES ASSUME Inv, Next, services' # services
               PROVE  Authorized
    BY DEF Authorized
  <2>1. StartValidator
    BY DEF Next, Step, Prepare, CheckLifecycle, Select, AwaitEpoch,
           ProbeNewest, FetchManifest, Anchor, Install, Abort, AdvanceEpoch,
           TimePasses, results, command
  <2>2. QED
    BY <2>1 DEF StartValidator, Inv, StartWell
<1>2. QED
  BY <1>1, Invariance, PTL DEF Spec, StartIsAuthorized

-----------------------------------------------------------------------------
(* That the command comes to an end.                                       *)

\* Both waits are bounded (--validator-wait-timeout, --snapshot-wait-timeout).
Bounded == args.wait # 0 /\ (Remote => args.snapshot # 0)

StageOf == [prepare  |-> 10, first  |-> 9, select  |-> 8, await_epoch |-> 7,
            probe    |-> 6,  manifest |-> 5, anchor |-> 4, install    |-> 3,
            second   |-> 2,  start  |-> 1, ended   |-> 0]

\* The polls the snapshot wait has left; its clock is set by select_epoch.
SnapshotPolls == IF pc \in {"prepare", "first", "select"} THEN args.snapshot
                 ELSE snapshotLeft

\* How many steps the command has left at most.
Remaining == IF pc = "ended" THEN 0 ELSE StageOf[pc] + waitLeft + SnapshotPolls

\* A poll of the manifest comes out of the snapshot wait, and there is a
\* source where a checkpoint is selected.
SourceKnown ==
  /\ pc = "select" => args.source # "none"
  /\ pc = "manifest" => Remote

\* What is left is counted.
LEMMA RemainingType ==
  TypeOK => /\ StageOf[pc] \in 0 .. 10 /\ (StageOf[pc] = 0 <=> pc = "ended")
            /\ SnapshotPolls \in 0 .. args.snapshot
            /\ waitLeft \in 0 .. args.wait
            /\ Remaining \in 0 .. 10 + args.wait + args.snapshot
            /\ Remaining = 0 <=> pc = "ended"
<1>1. TypeOK => StageOf[pc] \in 0 .. 10 /\ (StageOf[pc] = 0 <=> pc = "ended")
  BY DEF TypeOK, Pcs, StageOf
<1>2. TypeOK => SnapshotPolls \in 0 .. args.snapshot /\ waitLeft \in 0 .. args.wait
  BY Types DEF TypeOK, SnapshotPolls
<1>3. QED
  BY <1>1, <1>2, Types DEF Remaining

\* A poll of the manifest or of the epoch comes out of the snapshot wait.
LEMMA RetryRemaining ==
  ASSUME TypeOK, Bounded, Remote, pc \in {"await_epoch", "manifest"}, SleepUntilRetry,
         UNCHANGED args
  PROVE  Remaining' < Remaining
<1>1. CASE pc' = "ended"
  BY <1>1, RemainingType DEF Remaining
<1>2. CASE pc' # "ended"
  <2>1. /\ pc' = pc /\ waitLeft' = Less(waitLeft) /\ snapshotLeft' = Less(snapshotLeft)
        /\ snapshotLeft # 0
    BY <1>2 DEF SleepUntilRetry, Bounded
  <2>2. waitLeft \in Nat /\ snapshotLeft \in Nat
    BY Types
  <2>3. waitLeft' <= waitLeft /\ snapshotLeft' = snapshotLeft - 1
    BY <2>1, <2>2 DEF Less
  <2>4. waitLeft' \in Nat /\ StageOf[pc] \in Nat
    BY <2>1, <2>2, RemainingType DEF Less
  <2>5. QED
    BY <2>1, <2>2, <2>3, <2>4 DEF Remaining, SnapshotPolls
<1>3. QED
  BY <1>1, <1>2

\* A step into a later stage comes out of the number of stages.
LEMMA StageRemaining ==
  ASSUME TypeOK, TypeOK', pc # "ended", UNCHANGED <<args, waitLeft>>,
         \/ pc' = "ended"
         \/ StageOf[pc'] < StageOf[pc] /\ SnapshotPolls' <= SnapshotPolls
  PROVE  Remaining' < Remaining
<1>1. (TypeOK => /\ StageOf[pc] \in 0 .. 10 /\ (StageOf[pc] = 0 <=> pc = "ended")
                 /\ SnapshotPolls \in 0 .. args.snapshot
                 /\ waitLeft \in 0 .. args.wait
                 /\ Remaining \in 0 .. 10 + args.wait + args.snapshot
                 /\ Remaining = 0 <=> pc = "ended")'
  BY RemainingType, PTL
<1>2. /\ StageOf[pc'] \in Nat /\ StageOf[pc] \in Nat \ {0} /\ waitLeft \in Nat
      /\ SnapshotPolls \in Nat /\ SnapshotPolls' \in Nat
  BY <1>1, RemainingType, Types
<1>3. QED
  BY <1>2 DEF Remaining

\* Only the two lifecycle checks, the wait for the epoch and the poll of the
\* manifest come back to where they were, each for one poll interval.
LEMMA StepRemaining ==
  ASSUME Inv, SourceKnown, TypeOK', Bounded, Step
  PROVE  Remaining' < Remaining
<1>. USE DEF world, lifecycle, selection, clocks, results, history
<1>0. TypeOK /\ UNCHANGED args
  BY DEF Inv, Step, Prepare, CheckLifecycle, Select, AwaitEpoch, ProbeNewest, FetchManifest,
         Anchor, Install, StartValidator
<1>1. CASE Prepare \/ Anchor \/ Install \/ StartValidator
  <2>1. snapshotLeft \in Nat /\ args.snapshot \in Nat
    BY <1>0, Types
  <2>2. pc # "ended" /\ waitLeft' = waitLeft
    BY <1>1 DEF Prepare, Anchor, Install, StartValidator
  <2>3. pc' = "ended" \/ StageOf[pc'] < StageOf[pc]
    BY <1>1 DEF Prepare, Anchor, Install, StartValidator, StageOf
  <2>4. SnapshotPolls' <= SnapshotPolls
    BY <1>0, <1>1, <2>1 DEF Prepare, Anchor, Install, StartValidator, SnapshotPolls
  <2>5. QED
    BY <1>0, <2>2, <2>3, <2>4, StageRemaining
<1>2. CASE CheckLifecycle
  <2>1. ASSUME NEW s, NEW go, NEW pre_joining, Decide(s, go, pre_joining)
        PROVE  Remaining' < Remaining
    <3>1. StageOf[pc'] < StageOf[pc] /\ pc # "ended"
      BY <1>2, <2>1 DEF CheckLifecycle, Decide, StageOf
    <3>2. waitLeft' = waitLeft /\ snapshotLeft' = snapshotLeft
      BY <2>1 DEF Decide
    <3>3. pc = "first" => snapshotLeft \in 0 .. args.snapshot
      BY <1>0, Types DEF TypeOK
    <3>4. SnapshotPolls' <= SnapshotPolls
      BY <1>0, <1>2, <2>1, <3>2, <3>3, Types DEF CheckLifecycle, Decide, SnapshotPolls
    <3>5. QED
      BY <1>0, <3>1, <3>2, <3>4, StageRemaining
  <2>2. CASE WaitForJoining
    <3>1. CASE WaitExpired
      BY <1>0, <1>2, <2>2, <3>1, StageRemaining DEF CheckLifecycle, WaitForJoining
    <3>2. CASE ~WaitExpired
      <4>1. pc' = pc /\ waitLeft' = Less(waitLeft) /\ waitLeft # 0 /\ snapshotLeft' = snapshotLeft
        BY <2>2, <3>2 DEF WaitForJoining, WaitExpired, Bounded
      <4>2. waitLeft \in Nat /\ StageOf[pc] \in Nat /\ SnapshotPolls \in Nat
        BY <1>0, Types, RemainingType
      <4>3. waitLeft' = waitLeft - 1 /\ SnapshotPolls' = SnapshotPolls
        BY <1>0, <4>1, <4>2 DEF Less, SnapshotPolls
      <4>4. pc # "ended"
        BY <1>2 DEF CheckLifecycle
      <4>5. QED
        BY <4>1, <4>2, <4>3, <4>4 DEF Remaining
    <3>3. QED
      BY <3>1, <3>2
  <2>3. CASE pc' = "ended" /\ UNCHANGED clocks
    BY <1>0, <1>2, <2>3, StageRemaining DEF CheckLifecycle
  <2>4. QED
    BY <1>2, <2>1, <2>2, <2>3 DEF CheckLifecycle
<1>3. CASE Select
  <2>1. StageOf[pc'] < StageOf[pc] /\ pc = "select" /\ waitLeft' = waitLeft
    BY <1>3 DEF Select, SelectNewest, StageOf
  <2>2. SnapshotPolls' = args.snapshot /\ SnapshotPolls = args.snapshot
    BY <1>0, <1>3 DEF Select, SelectNewest, SnapshotPolls
  <2>3. args.snapshot \in Nat
    BY <1>0, Types
  <2>4. QED
    BY <1>0, <2>1, <2>2, <2>3, StageRemaining
<1>4. CASE AwaitEpoch
  <2>1. Remote
    BY <1>4 DEF Inv, ChosenWell, AwaitEpoch
  <2>2. CASE SleepUntilRetry
    BY <1>0, <1>4, <2>1, <2>2, RetryRemaining DEF AwaitEpoch
  <2>3. CASE pc' = "probe" /\ UNCHANGED clocks
    <3>1. snapshotLeft \in Nat
      BY <1>0, Types
    <3>2. QED
      BY <1>0, <1>4, <2>3, <3>1, StageRemaining DEF AwaitEpoch, StageOf, SnapshotPolls
  <2>4. QED
    BY <1>4, <2>2, <2>3 DEF AwaitEpoch
<1>5. CASE ProbeNewest
  <2>1. snapshotLeft \in Nat
    BY <1>0, Types
  <2>2. QED
    BY <1>0, <1>5, <2>1, StageRemaining DEF ProbeNewest, StageOf, SnapshotPolls
<1>6. CASE FetchManifest
  <2>1. CASE SleepUntilRetry
    <3>1. Remote
      BY <1>6 DEF FetchManifest, SourceKnown
    <3>2. QED
      BY <1>0, <1>6, <2>1, <3>1, RetryRemaining DEF FetchManifest
  <2>2. CASE pc' \in {"anchor", "ended"} /\ UNCHANGED clocks
    <3>1. snapshotLeft \in Nat
      BY <1>0, Types
    <3>2. QED
      BY <1>0, <1>6, <2>2, <3>1, StageRemaining DEF FetchManifest, StageOf, SnapshotPolls
  <2>3. QED
    BY <1>6, <2>1, <2>2 DEF FetchManifest
<1>7. QED
  BY <1>1, <1>2, <1>3, <1>4, <1>5, <1>6 DEF Step

\* A checkpoint is selected from a source, and its manifest is polled from a
\* provider.
LEMMA SourceInvariance == Spec => []SourceKnown
<1>1. Init => SourceKnown
  BY DEF Init, SourceKnown
<1>2. ASSUME Inv, SourceKnown, [Next]_vars
      PROVE  SourceKnown'
  <2>. USE DEF SourceKnown, Remote, world, lifecycle, selection, clocks, results, history
  <2>1. CASE CheckLifecycle
    BY <2>1 DEF CheckLifecycle, Decide, WaitForJoining
  <2>2. CASE Select
    BY <2>2 DEF Select, SelectNewest
  <2>3. CASE ProbeNewest
    BY <1>2, <2>3 DEF ProbeNewest, Inv, ChosenWell
  <2>4. CASE AwaitEpoch \/ FetchManifest
    BY <1>2, <2>4 DEF AwaitEpoch, FetchManifest, SleepUntilRetry
  <2>5. CASE Prepare \/ Anchor \/ Install \/ StartValidator
    BY <2>5 DEF Prepare, Anchor, Install, StartValidator
  <2>6. CASE Abort \/ AdvanceEpoch \/ TimePasses \/ UNCHANGED vars
    BY <1>2, <2>6 DEF Abort, AdvanceEpoch, TimePasses, command, vars
  <2>7. QED
    BY <1>2, <2>1, <2>2, <2>3, <2>4, <2>5, <2>6 DEF Next, Step
<1>3. QED
  BY <1>1, <1>2, Invariance, PTL DEF Spec

\* Time and the network never put the end off.
LEMMA OthersRemaining ==
  ASSUME TypeOK, Abort \/ AdvanceEpoch \/ TimePasses \/ UNCHANGED vars
  PROVE  Remaining' <= Remaining
<1>. USE DEF world, lifecycle, selection, clocks, results, history, command, vars
<1>1. /\ StageOf[pc] \in Nat /\ waitLeft \in Nat /\ snapshotLeft \in Nat
      /\ args.snapshot \in Nat /\ Remaining \in Nat
  BY RemainingType, Types
<1>2. CASE Abort
  BY <1>1, <1>2 DEF Abort, Remaining
<1>3. CASE AdvanceEpoch \/ UNCHANGED vars
  BY <1>1, <1>3 DEF AdvanceEpoch, Remaining, SnapshotPolls
<1>4. CASE TimePasses
  <2>1. waitLeft' \in Nat /\ waitLeft' <= waitLeft
    BY <1>1, <1>4 DEF TimePasses, Less
  <2>2. snapshotLeft' \in Nat /\ snapshotLeft' <= snapshotLeft
    BY <1>1, <1>4 DEF TimePasses, Less
  <2>3. pc' = pc /\ args' = args
    BY <1>4 DEF TimePasses
  <2>4. QED
    BY <1>1, <2>1, <2>2, <2>3 DEF Remaining, SnapshotPolls
<1>5. QED
  BY <1>2, <1>3, <1>4

\* The guards of the command's steps.
CanStep == pc \in Pcs \ {"select", "ended"} \/ (pc = "select" /\ args.source # "none")

\* With both timeouts set the command takes at most ten steps and one for each
\* poll interval of its two waits, whatever the network and the provider
\* answer: each of its steps uses one up, the two lifecycle checks and the two
\* polls of select_epoch draw on the same two budgets, and nothing gives back.
\* Until it ends it has a step to take, so this is OnboardingEnds but for the
\* scheduling (handle_validator, sleep_until_retry).
THEOREM OnboardingIsBounded ==
  Spec => /\ [](/\ Remaining \in 0 .. 10 + args.wait + args.snapshot
                /\ Remaining = 0 <=> pc = "ended"
                /\ pc # "ended" => CanStep)
          /\ [][/\ Bounded /\ Step => Remaining' < Remaining
                /\ ~Step => Remaining' <= Remaining]_vars
<1>1. Inv /\ SourceKnown => /\ Remaining \in 0 .. 10 + args.wait + args.snapshot
                            /\ Remaining = 0 <=> pc = "ended"
                            /\ pc # "ended" => CanStep
  BY RemainingType DEF Inv, TypeOK, SourceKnown, CanStep
<1>2. Inv /\ Inv' /\ SourceKnown /\ [Next]_vars =>
        [/\ Bounded /\ Step => Remaining' < Remaining
         /\ ~Step => Remaining' <= Remaining]_vars
  <2>1. ASSUME Inv, Inv', SourceKnown, Next
        PROVE  /\ Bounded /\ Step => Remaining' < Remaining
               /\ ~Step => Remaining' <= Remaining
    BY <2>1, StepRemaining, OthersRemaining DEF Next, Inv
  <2>2. QED
    BY <2>1
<1>3. QED
  BY <1>1, <1>2, Invariance, SourceInvariance, PTL DEF Spec

=============================================================================
