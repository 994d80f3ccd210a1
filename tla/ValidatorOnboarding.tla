------------------------ MODULE ValidatorOnboarding ------------------------
(***************************************************************************)
(* `validator onboard` (seismic-node.py, validator.py, download.py): ask   *)
(* the network whether the validator may start, select and install a       *)
(* checkpoint, ask again, start.  The network and the provider are not     *)
(* trusted: a call may fail, the account may have any status at each read  *)
(* and the provider may serve any manifest or none.  Only the network's    *)
(* epoch is taken to be what it says, and it grows while the command runs. *)
(*                                                                         *)
(* One step is one network call with the decision taken on its answer, or  *)
(* one local operation.  The installation and the start of the services    *)
(* are CheckpointTransaction and NodeServices; here they succeed or raise. *)
(* Time is the number of poll intervals a deadline is away.                *)
(***************************************************************************)
EXTENDS Integers

CONSTANTS
  MaxEpoch,         \* bound on the network's epoch
  MaxAge,           \* WEAK_SUBJECTIVITY_MAX_AGE_EPOCHS
  WaitTimeouts,     \* values of --validator-wait-timeout; 0 waits forever
  SnapshotTimeouts, \* values of --snapshot-wait-timeout; 0 waits forever
  NoEpoch           \* no --checkpoint-epoch; nothing installed

ASSUME BoundsAssumption ==
  /\ {MaxEpoch, MaxAge} \subseteq Nat
  /\ WaitTimeouts \subseteq Nat
  /\ SnapshotTimeouts \subseteq Nat
  /\ NoEpoch \notin Nat

Epochs == 0 .. MaxEpoch

PRE_JOINING_STATUSES == {"NotFound", "Inactive"}
REFUSED_STATUSES     == {"SubmittedExitRequest", "FullPayoutPending"}
Statuses == PRE_JOINING_STATUSES \cup REFUSED_STATUSES
            \cup {"Joining", "Active", "Unknown"}

\* The options that steer the command.  Normal mode takes no source, and the
\* installation options need one.
Arguments ==
  {a \in [source     : {"none", "local", "remote"},
          policy     : {"ask", "wait", "start", "leave-stopped"},
          requested  : Epochs \cup {NoEpoch},
          checkpoint : {"ask", "exact", "latest-available", "fail-if-newer"},
          wait       : WaitTimeouts,
          snapshot   : SnapshotTimeouts] :
     /\ a.source = "none" => a.requested = NoEpoch
     /\ a.source # "remote" => a.snapshot = 0 /\ a.checkpoint = "ask"
     /\ a.requested = NoEpoch => a.checkpoint = "ask"}

VARIABLES
  args,
  epoch,        \* the network's, as getLatestEpoch reports it
  pc,
  policy,       \* pre-joining policy in force in the current check
  seen,         \* the status it decided on
  start, early, \* the StartDecision: start; pre_joining
  network,      \* network_epoch of select_epoch
  selected,     \* the epoch chosen
  waitLeft, snapshotLeft, \* poll intervals left before each deadline
  installed,    \* epoch of the checkpoint this command installed
  services,     \* it started the services
  \* history
  decidedAt,    \* network epoch when the first check decided
  slept,        \* poll intervals spent waiting for Joining
  fresh         \* the status was read after the installation

world     == <<args, epoch>>
lifecycle == <<policy, seen, start, early>>
selection == <<network, selected>>
clocks    == <<waitLeft, snapshotLeft>>
results   == <<installed, services>>
history   == <<decidedAt, slept, fresh>>
vars      == <<world, pc, lifecycle, selection, clocks, results, history>>

Pcs == {"prepare", "first", "select", "await_epoch", "probe", "manifest",
        "anchor", "install", "second", "start", "ended"}

TypeOK ==
  /\ args \in Arguments
  /\ epoch \in Epochs
  /\ pc \in Pcs
  /\ policy \in {"ask", "wait", "start", "leave-stopped"}
  /\ seen \in Statuses
  /\ {start, early, services, fresh} \subseteq BOOLEAN
  /\ network \in Epochs
  /\ selected \in Epochs \cup {NoEpoch}
  /\ waitLeft \in 0 .. args.wait
  /\ snapshotLeft \in 0 .. args.snapshot
  /\ installed \in Epochs \cup {NoEpoch}
  /\ decidedAt \in Epochs \cup {NoEpoch}
  /\ slept \in 0 .. args.wait + 1

Init ==
  /\ args \in Arguments
  /\ epoch = 0
  /\ pc = "prepare"
  /\ policy = args.policy
  /\ seen = "NotFound"
  /\ start = FALSE
  /\ early = FALSE
  /\ network = 0
  /\ selected = NoEpoch
  /\ waitLeft = args.wait
  /\ snapshotLeft = 0
  /\ installed = NoEpoch
  /\ services = FALSE
  /\ decidedAt = NoEpoch
  /\ slept = 0
  /\ fresh = FALSE

-----------------------------------------------------------------------------
(* The network and time. *)

command == <<pc, lifecycle, selection, results, history>>

AdvanceEpoch ==
  /\ epoch < MaxEpoch
  /\ epoch' = epoch + 1
  /\ UNCHANGED <<args, command, clocks>>

Less(left) == IF left = 0 THEN 0 ELSE left - 1

\* Downloads, installation and prompts take time.
TimePasses ==
  /\ waitLeft' = Less(waitLeft)
  /\ snapshotLeft' = Less(snapshotLeft)
  /\ UNCHANGED <<world, command>>


-----------------------------------------------------------------------------
(* The lifecycle checks. *)

\* Mutant: the checkpoint is prepared before the first check.
PrepareSelectsFirst ==
  /\ pc = "prepare"
  /\ pc' = IF args.source = "none" THEN "first" ELSE "select"
  /\ UNCHANGED <<world, lifecycle, selection, clocks, results, history>>

\* Arguments, node.env and the deposit response are valid, the node's public
\* key has been read.
Prepare ==
  /\ pc = "prepare"
  /\ pc' = "first"
  /\ UNCHANGED <<world, lifecycle, selection, clocks, results, history>>

\* choose_pre_joining_action, unless an early start was agreed to before.
Choices ==
  IF pc = "second" /\ early THEN {"start"}
  ELSE IF policy = "ask" THEN {"wait", "start", "leave-stopped"}
  ELSE {policy}

\* Mutant: each check has a deadline of its own.
DecideForgetsDeadline(s, go, pre_joining) ==
  /\ seen' = s
  /\ start' = go
  /\ early' = pre_joining
  /\ policy' = args.policy
  /\ pc' = IF pc = "first" /\ args.source # "none" THEN "select"
           ELSE IF ~go THEN "ended"
           ELSE IF pc = "first" THEN "second" ELSE "start"
  /\ decidedAt' = IF pc = "first" THEN epoch ELSE decidedAt
  /\ waitLeft' = args.wait
  /\ UNCHANGED <<snapshotLeft, slept>>

\* The StartDecision returned, and what handle_validator or
\* start_onboarded_validator does with it.
Decide(s, go, pre_joining) ==
  /\ seen' = s
  /\ start' = go
  /\ early' = pre_joining
  /\ policy' = args.policy
  /\ pc' = IF pc = "first" /\ args.source # "none" THEN "select"
           ELSE IF ~go THEN "ended"
           ELSE IF pc = "first" THEN "second" ELSE "start"
  /\ decidedAt' = IF pc = "first" THEN epoch ELSE decidedAt
  /\ UNCHANGED <<clocks, slept>>

WaitExpired == args.wait # 0 /\ waitLeft = 0

\* One poll interval of waiting for Joining; at the deadline the loop raises.
WaitForJoining ==
  /\ policy' = "wait"
  /\ pc' = IF WaitExpired THEN "ended" ELSE pc
  /\ IF WaitExpired THEN UNCHANGED <<clocks, slept>>
     ELSE /\ waitLeft' = Less(waitLeft)
          /\ slept' = IF slept > args.wait THEN slept ELSE slept + 1
          /\ UNCHANGED snapshotLeft
  /\ UNCHANGED <<seen, start, early, decidedAt>>

CheckLifecycle ==
  /\ pc \in {"first", "second"}
  /\ \E status \in Statuses :
       \/ status \in {"Joining", "Active"} /\ Decide(status, TRUE, FALSE)
       \/ /\ status \in PRE_JOINING_STATUSES
          /\ \/ "start" \in Choices /\ Decide(status, TRUE, TRUE)
             \/ "leave-stopped" \in Choices /\ Decide(status, FALSE, FALSE)
             \/ "wait" \in Choices /\ WaitForJoining
       \/ /\ status \in REFUSED_STATUSES \cup {"Unknown"}
          /\ pc' = "ended"
          /\ UNCHANGED <<policy, seen, start, early, clocks, decidedAt, slept>>
  /\ fresh' = TRUE
  /\ UNCHANGED <<world, selection, results>>

-----------------------------------------------------------------------------
(* The checkpoint: select_epoch, resolve_weak_subjectivity, the download and *)
(* the installation.                                                         *)

\* Mutant: the deadline is never looked at.
SleepForever ==
  /\ waitLeft' = Less(waitLeft)
  /\ snapshotLeft' = Less(snapshotLeft)
  /\ UNCHANGED pc

\* sleep_until_retry.
SleepUntilRetry ==
  IF args.snapshot # 0 /\ snapshotLeft = 0
  THEN pc' = "ended" /\ UNCHANGED clocks
  ELSE /\ waitLeft' = Less(waitLeft)
       /\ snapshotLeft' = Less(snapshotLeft)
       /\ UNCHANGED pc

\* Mutant: epoch 0 has a predecessor.
NewestOfEpochZero == selected' = epoch - 1 /\ pc' = "manifest"

\* The newest completed epoch, if there is one.
SelectNewest ==
  IF epoch = 0 THEN pc' = "ended" /\ UNCHANGED selected
  ELSE selected' = epoch - 1 /\ pc' = "manifest"

\* The local manifest's epoch, the newest completed epoch, or the epoch asked
\* for, which has yet to be completed.
Select ==
  /\ pc = "select"
  /\ snapshotLeft' = args.snapshot
  /\ \/ /\ args.source = "local"
        /\ \E m \in Epochs :
             IF args.requested \in {NoEpoch, m}
             THEN selected' = m /\ pc' = "anchor"
             ELSE pc' = "ended" /\ UNCHANGED selected
        /\ UNCHANGED network
     \/ /\ args.source = "remote"
        /\ args.requested = NoEpoch
        /\ network' = epoch
        /\ SelectNewest
     \/ /\ args.source = "remote"
        /\ args.requested # NoEpoch
        /\ selected' = args.requested
        /\ pc' = "await_epoch"
        /\ UNCHANGED network
  /\ UNCHANGED <<world, lifecycle, waitLeft, results, history>>

\* Mutant: the live epoch passes for completed.
CompletedOffByOne(e) == epoch >= e

Completed(e) == epoch > e

AwaitEpoch ==
  /\ pc = "await_epoch"
  /\ \/ /\ Completed(selected)
        /\ network' = epoch
        /\ pc' = "probe"
        /\ UNCHANGED clocks
     \/ /\ ~Completed(selected)
        /\ SleepUntilRetry
        /\ UNCHANGED network
  /\ UNCHANGED <<world, lifecycle, selected, results, history>>

\* choose_newer_checkpoint: the epochs it may return; it may also raise.
Answers(newer) ==
  IF args.checkpoint = "exact" THEN {selected}
  ELSE IF args.checkpoint = "latest-available" THEN {newer}
  ELSE IF args.checkpoint = "ask" THEN {selected, newer}
  ELSE {}

\* One look at the newest completed epoch, if that is a later one.  There may
\* be no manifest; one that does not name its epoch ends the command.
ProbeNewest ==
  LET newest == network - 1 IN
  /\ pc = "probe"
  /\ \/ /\ pc' = "manifest"
        /\ UNCHANGED selected
     \/ /\ newest > selected
        /\ \/ /\ selected' \in Answers(newest)
              /\ pc' = IF selected' = newest THEN "anchor" ELSE "manifest"
           \/ pc' = "ended" /\ UNCHANGED selected
  /\ UNCHANGED <<world, lifecycle, network, clocks, results, history>>

\* Poll the manifest, whatever epoch m it names; only a 404 is retried.
FetchManifest ==
  /\ pc = "manifest"
  /\ \/ SleepUntilRetry
     \/ /\ \E m \in Epochs :
             pc' = IF m = selected THEN "anchor" ELSE "ended"
        /\ UNCHANGED clocks
  /\ UNCHANGED <<world, lifecycle, selection, results, history>>

\* The trust anchor names an epoch a; then the archive is downloaded.
Anchor ==
  /\ pc = "anchor"
  /\ \E a \in Epochs :
       pc' = IF a <= selected /\ selected - a <= MaxAge
             THEN "install" ELSE "ended"
  /\ UNCHANGED <<world, lifecycle, selection, clocks, results, history>>

\* Mutant: no second look at the account's status.
InstallSkipsRecheck ==
  /\ pc = "install"
  /\ installed' = selected
  /\ fresh' = FALSE
  /\ pc' = IF start THEN "start" ELSE "ended"
  /\ UNCHANGED <<world, lifecycle, selection, clocks, services, decidedAt, slept>>

Install ==
  /\ pc = "install"
  /\ installed' = selected
  /\ fresh' = FALSE
  /\ pc' = IF start THEN "second" ELSE "ended"
  /\ UNCHANGED <<world, lifecycle, selection, clocks, services, decidedAt, slept>>

-----------------------------------------------------------------------------
(* The start, and the specification. *)

\* start_validator: it refuses when the keys are no longer those whose account
\* was checked, when the checkpoint is unusable, or when a unit fails.
StartValidator ==
  /\ pc = "start"
  /\ services' \in BOOLEAN
  /\ pc' = "ended"
  /\ UNCHANGED <<world, lifecycle, selection, clocks, installed, history>>

\* An RPC error, a refused confirmation, a failed operation, or Ctrl-C.
Abort ==
  /\ pc # "ended"
  /\ pc' = "ended"
  /\ UNCHANGED <<world, lifecycle, selection, clocks, results, history>>

Step == \/ Prepare \/ CheckLifecycle \/ Select \/ AwaitEpoch \/ ProbeNewest
        \/ FetchManifest \/ Anchor \/ Install \/ StartValidator

Next == Step \/ Abort \/ AdvanceEpoch \/ TimePasses

Spec == Init /\ [][Next]_vars

\* Only the command's process is scheduled fairly; the network owes nothing.
FairSpec == Spec /\ WF_vars(Step)

-----------------------------------------------------------------------------
(* Properties. *)

\* Services start only on a status read after the installation, and on one
\* from before Joining only if the operator chose an early start
\* (handle_validator: "Recheck immediately before startup").
StartIsAuthorized ==
  [][services' # services =>
       /\ fresh
       /\ \/ seen \in {"Joining", "Active"}
          \/ /\ seen \in PRE_JOINING_STATUSES
             /\ args.policy \in {"start", "ask"}]_vars

\* State is replaced only after the lifecycle check has decided, and the
\* epoch selected by default is no older than the newest one completed then
\* (handle_validator: "Decide ... before downloading or replacing state").
InstallFollowsDecision ==
  installed # NoEpoch =>
    /\ decidedAt # NoEpoch
    /\ args.source = "remote" /\ args.requested = NoEpoch =>
         installed >= decidedAt - 1

\* A downloaded checkpoint is of a completed epoch, whatever the provider
\* serves, and an epoch asked for is replaced by a later one only under a
\* policy that allows it (select_epoch: "Select a completed checkpoint
\* without silently changing an explicit epoch").
ExplicitEpochIsKept ==
  installed # NoEpoch /\ args.source = "remote" =>
    /\ installed < epoch
    /\ args.requested \notin {NoEpoch, installed} =>
         /\ installed > args.requested
         /\ args.checkpoint \in {"ask", "latest-available"}

\* Both checks together wait no longer than --validator-wait-timeout
\* (handle_validator: "Use one deadline across both lifecycle checks so
\* installation cannot reset the operator's total wait budget").
WaitBudgetIsShared == args.wait # 0 => slept <= args.wait

\* With both timeouts set the command ends, whatever the network does.
OnboardingEnds ==
  args.wait # 0 /\ (args.source = "remote" => args.snapshot # 0)
    ~> pc = "ended"
=============================================================================
