---------------------------- MODULE NodeServices ----------------------------
(***************************************************************************)
(* Service control of a validator: systemd.py (start_node, stop_node) and  *)
(* the deposit command of validator.py, run by any number of operators at  *)
(* once, over the units of install/templates/systemd.  Units exit and are  *)
(* restarted by systemd between any two systemctl calls of a command.      *)
(*                                                                         *)
(* systemd itself is external.  Of it the model keeps what the unit files  *)
(* ask for: Requires= starts Reth with a Summit unit and stops the Summit  *)
(* unit with Reth, Conflicts= stops the other owners of the key store      *)
(* while the new one starts (no ordering is declared between them),        *)
(* Restart=on-failure brings a failed unit back, and with it systemd       *)
(* restarts the running units that require it: they are stopped before it  *)
(* starts (After=) and started after it.  Such a unit is "restarting"      *)
(* while its process is being stopped, which ActiveState calls             *)
(* deactivating, and "activating" from then on; that ActiveState says      *)
(* inactive for the instant between the halves of one restart job is not   *)
(* modelled.  The start job of a Type=simple unit is done after fork(2): a *)
(* start that fails is a unit that exits before the command looks again.   *)
(*                                                                         *)
(* An observer runs the same code over its own units and has no deposit    *)
(* command.                                                                *)
(***************************************************************************)
EXTENDS Integers, Sequences

CONSTANTS
  Operators,           \* operators, each running one command after another
  Operations,          \* the commands they issue
  CheckpointerEnabled, \* CHECKPOINTER_ENABLED of node.env
  MaxExits,            \* bound on processes that exit by themselves
  MaxRefusals,         \* bound on `systemctl stop` calls that fail
  MaxInterrupts        \* bound on Ctrl-C

ASSUME BoundsAssumption ==
  /\ CheckpointerEnabled \in BOOLEAN
  /\ {MaxExits, MaxRefusals, MaxInterrupts} \subseteq Nat
  /\ Operations \subseteq {"start", "start-checkpoint", "deposit", "stop"}

KeyStoreOwners == {"summit", "summit-checkpoint", "deposit-rpc"}
Units          == KeyStoreOwners \cup {"custodian", "reth", "checkpointer"}

STOPPED_STATES   == {"inactive", "failed"}
TRANSIENT_STATES == {"activating", "deactivating", "restarting"}
UnitStates       == STOPPED_STATES \cup TRANSIENT_STATES \cup {"active"}

VARIABLES
  unit,       \* unit[u]: ActiveState of unit u
  pc,         \* pc[o]: where the command of operator o is
  op,         \* op[o]: the command
  rest,       \* rest[o]: programs left in its current loop
  started,    \* started[o]: start requests it recorded, latest first
  exits, refusals, interrupts, \* how often each has happened
  \* history
  alone,      \* operators whose command has met no other command
  abandoned   \* Ctrl-C has cut a deposit command's cleanup short

command == <<pc, op, rest, started, alone>>
bounds  == <<exits, refusals, interrupts, abandoned>>
vars    == <<unit, command, bounds>>

Pcs == {"idle", "check", "start", "request", "confirm", "poll", "unwind",
        "await"}

TypeOK ==
  /\ unit \in [Units -> UnitStates]
  /\ pc \in [Operators -> Pcs]
  /\ op \in [Operators -> Operations \cup {"none"}]
  /\ rest \in [Operators -> Seq(Units)]
  /\ started \in [Operators -> Seq(Units)]
  /\ exits \in 0 .. MaxExits
  /\ refusals \in 0 .. MaxRefusals
  /\ interrupts \in 0 .. MaxInterrupts
  /\ alone \in SUBSET Operators
  /\ abandoned \in BOOLEAN

Init ==
  /\ unit = [u \in Units |-> "inactive"]
  /\ pc = [o \in Operators |-> "idle"]
  /\ op = [o \in Operators |-> "none"]
  /\ rest = [o \in Operators |-> <<>>]
  /\ started = [o \in Operators |-> <<>>]
  /\ exits = 0
  /\ refusals = 0
  /\ interrupts = 0
  /\ alone = {}
  /\ abandoned = FALSE

-----------------------------------------------------------------------------
(* systemd and the unit files. *)

Stopped(u) == unit[u] \in STOPPED_STATES

Requires(u)  == IF u \in {"summit", "summit-checkpoint"} THEN {"reth"} ELSE {}
RequiredBy(u) == {v \in Units : u \in Requires(v)}
Conflicts(u) == IF u \in KeyStoreOwners THEN KeyStoreOwners \ {u} ELSE {}

\* A stop request on every unit of D; a pending automatic restart is dropped.
Halted(D) ==
  [u \in Units |-> IF u \notin D THEN unit[u]
                   ELSE IF unit[u] \in {"active", "restarting"} THEN "deactivating"
                   ELSE IF unit[u] = "activating" THEN "inactive"
                   ELSE unit[u]]

StartJob(u) ==
  unit' = [v \in Units |-> IF v \in {u} \cup Requires(u) THEN "active"
                           ELSE Halted(Conflicts(u))[v]]

StopJob(u) == unit' = Halted({u} \cup RequiredBy(u))

Moves(u) == unit[u] \in TRANSIENT_STATES

\* A process ends by itself.  systemd restarts a failed one, unless the
\* unit has Restart=no or its start limit is reached.
Exit(u) ==
  /\ unit[u] = "active"
  /\ exits < MaxExits
  /\ \E s \in STOPPED_STATES
              \cup (IF u = "deposit-rpc" THEN {} ELSE {"activating"}) :
       unit' = [unit EXCEPT ![u] = s]
  /\ exits' = exits + 1
  /\ UNCHANGED <<command, refusals, interrupts, abandoned>>

\* The restart of u, once it is due, is passed on to the running units that
\* require it.
RestartDependents(u) ==
  /\ unit[u] = "activating"
  /\ \E v \in RequiredBy(u) : unit[v] = "active"
  /\ unit' = [v \in Units |-> IF v \in RequiredBy(u) /\ unit[v] = "active"
                              THEN "restarting" ELSE unit[v]]
  /\ UNCHANGED <<command, bounds>>

\* It waits for what it requires and until those that require it are down.
AutoRestart(u) ==
  /\ unit[u] = "activating"
  /\ \A v \in Requires(u) : ~Moves(v)
  /\ \A v \in RequiredBy(u) : unit[v] \in STOPPED_STATES \cup {"activating"}
  /\ StartJob(u)
  /\ UNCHANGED <<command, bounds>>

\* The last process of u is gone.  Reth's stop is ordered after Summit's.
StopDone(u) ==
  /\ unit[u] \in {"deactivating", "restarting"}
  /\ \A v \in RequiredBy(u) : unit[v] # "deactivating"
  /\ unit' = [unit EXCEPT ![u] = IF @ = "restarting" THEN "activating" ELSE "inactive"]
  /\ UNCHANGED <<command, bounds>>

-----------------------------------------------------------------------------
(* The commands. *)

\* Mutant: the observer's unit on a validator.
SummitOfObserver(c) == IF c = "start" THEN "summit-observer" ELSE "summit-checkpoint"

SummitOf(c) == IF c = "start" THEN "summit" ELSE "summit-checkpoint"

\* Mutant: a start overlooks the deposit RPC.
MustBeStoppedNoRpc(c) ==
  IF c = "deposit"
  THEN <<"custodian", "reth", "summit", "summit-checkpoint", "deposit-rpc",
         "checkpointer">>
  ELSE IF c = "start" THEN <<"summit-checkpoint">> ELSE <<"summit">>

\* The programs require_stopped looks at.
MustBeStopped(c) ==
  IF c = "deposit"
  THEN <<"custodian", "reth", "summit", "summit-checkpoint", "deposit-rpc",
         "checkpointer">>
  ELSE IF c = "start" THEN <<"summit-checkpoint", "deposit-rpc">>
  ELSE <<"summit", "deposit-rpc">>

StartSequence(c) ==
  IF c = "deposit" THEN <<"deposit-rpc">>
  ELSE <<"custodian", "reth", SummitOf(c)>>
       \o (IF CheckpointerEnabled THEN <<"checkpointer">> ELSE <<>>)

StopSequence ==
  <<"checkpointer", "deposit-rpc", "summit", "summit-checkpoint", "reth",
    "custodian">>

Goto(o, label, sequence) ==
  /\ pc' = [pc EXCEPT ![o] = label]
  /\ rest' = [rest EXCEPT ![o] = sequence]

End(o) ==
  /\ Goto(o, "idle", <<>>)
  /\ op' = [op EXCEPT ![o] = "none"]
  /\ started' = [started EXCEPT ![o] = <<>>]
  /\ alone' = alone \ {o}

Begin(o, c) ==
  /\ pc[o] = "idle"
  /\ Goto(o, IF c = "stop" THEN "unwind" ELSE "check",
             IF c = "stop" THEN StopSequence ELSE MustBeStopped(c))
  /\ op' = [op EXCEPT ![o] = c]
  /\ alone' = IF \A other \in Operators : pc[other] = "idle" THEN {o} ELSE {}
  /\ UNCHANGED <<unit, started, bounds>>

At(o, label) == pc[o] = label /\ rest[o] # <<>>
Done(o, label) == pc[o] = label /\ rest[o] = <<>>

\* Mutant: a unit waiting for its automatic restart passes for stopped.
AcceptableNotRunning(u) == unit[u] # "active"

\* require_stopped reads the units one after another.
Acceptable(u) == Stopped(u)

Check(o) ==
  /\ At(o, "check")
  /\ \/ /\ Acceptable(Head(rest[o]))
        /\ Goto(o, "check", Tail(rest[o]))
        /\ UNCHANGED <<op, started, alone>>
     \/ /\ ~Acceptable(Head(rest[o]))
        /\ End(o)
  /\ UNCHANGED <<unit, bounds>>

Checked(o) ==
  /\ Done(o, "check")
  /\ Goto(o, "start", StartSequence(op[o]))
  /\ UNCHANGED <<unit, op, started, alone, bounds>>

\* Mutant: a start is recorded only once it has succeeded.
UnwindForgetsLatest(o) ==
  /\ Goto(o, "unwind", IF started[o] = <<>> THEN <<>> ELSE Tail(started[o]))
  /\ UNCHANGED <<op, started, alone>>

\* The except clause of start_node, the finally clause of the deposit command.
Unwind(o) == Goto(o, "unwind", started[o]) /\ UNCHANGED <<op, started, alone>>

\* start_service up to the request: a running unit is left alone, a failed
\* one is reset, and the request is recorded before it is issued.
ReadBefore(o) ==
  LET u == Head(rest[o]) IN
  /\ At(o, "start")
  /\ \/ /\ unit[u] = "active"
        /\ Goto(o, "start", Tail(rest[o]))
        /\ UNCHANGED <<unit, op, started, alone>>
     \/ /\ Stopped(u)
        /\ unit' = [unit EXCEPT ![u] = "inactive"]
        /\ Goto(o, "request", rest[o])
        /\ started' = [started EXCEPT ![o] = <<u>> \o @]
        /\ UNCHANGED <<op, alone>>
     \/ Moves(u) /\ Unwind(o) /\ UNCHANGED unit
  /\ UNCHANGED bounds

\* systemctl start: the job waits for a unit that is stopping or restarting.
RequestStart(o) ==
  LET u == Head(rest[o]) IN
  /\ pc[o] = "request"
  /\ \A v \in {u} \cup Requires(u) : ~Moves(v)
  /\ StartJob(u)
  /\ Goto(o, "confirm", rest[o])
  /\ UNCHANGED <<op, started, alone, bounds>>

\* The look after the start job; a unit already gone fails the command.
ReadAfter(o) ==
  /\ pc[o] = "confirm"
  /\ \/ /\ unit[Head(rest[o])] = "active"
        /\ Goto(o, "start", Tail(rest[o]))
        /\ UNCHANGED <<op, started, alone>>
     \/ unit[Head(rest[o])] # "active" /\ Unwind(o)
  /\ UNCHANGED <<unit, bounds>>

StartsDone(o) ==
  /\ Done(o, "start")
  /\ \/ /\ op[o] = "deposit"
        /\ Goto(o, "poll", <<>>)
        /\ UNCHANGED <<op, started, alone>>
     \/ op[o] # "deposit" /\ End(o)
  /\ UNCHANGED <<unit, bounds>>

\* Mutant: only an answer of the RPC ends the loop.
EndPollNoDeadline(o) ==
  /\ pc[o] = "poll"
  /\ unit["deposit-rpc"] = "active"
  /\ Unwind(o)
  /\ UNCHANGED <<unit, bounds>>

\* The signature arrives, is refused, or the deadline passes.
EndPoll(o) ==
  /\ pc[o] = "poll"
  /\ Unwind(o)
  /\ UNCHANGED <<unit, bounds>>

\* Mutant: only a running unit is stopped.
RequestStopRunning(o) ==
  LET u == Head(rest[o]) IN
  /\ At(o, "unwind")
  /\ \/ /\ unit[u] # "active"
        /\ Goto(o, "unwind", Tail(rest[o]))
        /\ UNCHANGED unit
     \/ /\ unit[u] = "active"
        /\ StopJob(u)
        /\ Goto(o, "await", rest[o])
  /\ UNCHANGED <<op, started, alone, bounds>>

\* stop_service: the request, unless the unit is stopped already.
RequestStop(o) ==
  LET u == Head(rest[o]) IN
  /\ At(o, "unwind")
  /\ \/ /\ Stopped(u)
        /\ Goto(o, "unwind", Tail(rest[o]))
        /\ UNCHANGED unit
     \/ /\ ~Stopped(u)
        /\ StopJob(u)
        /\ Goto(o, "await", rest[o])
  /\ UNCHANGED <<op, started, alone, bounds>>

\* systemctl stop blocks until the unit has stopped.
AwaitStop(o) ==
  /\ pc[o] = "await"
  /\ unit[Head(rest[o])] # "deactivating"
  /\ Goto(o, "unwind", Tail(rest[o]))
  /\ UNCHANGED <<unit, op, started, alone, bounds>>

\* Mutant: stop_node goes on to the next unit.
StopRefusedGoesOn(o) ==
  /\ At(o, "unwind")
  /\ ~Stopped(Head(rest[o]))
  /\ refusals < MaxRefusals
  /\ refusals' = refusals + 1
  /\ Goto(o, "unwind", Tail(rest[o]))
  /\ UNCHANGED <<unit, op, started, alone, exits, interrupts, abandoned>>

\* systemctl stop fails: stop_node gives up, a cleanup goes on.
StopRefused(o) ==
  /\ At(o, "unwind")
  /\ ~Stopped(Head(rest[o]))
  /\ refusals < MaxRefusals
  /\ refusals' = refusals + 1
  /\ \/ op[o] = "stop" /\ End(o)
     \/ /\ op[o] # "stop"
        /\ Goto(o, "unwind", Tail(rest[o]))
        /\ UNCHANGED <<op, started, alone>>
  /\ UNCHANGED <<unit, exits, interrupts, abandoned>>

StopsDone(o) ==
  /\ Done(o, "unwind")
  /\ End(o)
  /\ UNCHANGED <<unit, bounds>>

\* Mutant: the deposit command cleans up after an Exception only.
InterruptSkipsFinally(o) ==
  /\ pc[o] # "idle"
  /\ interrupts < MaxInterrupts
  /\ interrupts' = interrupts + 1
  /\ End(o)
  /\ UNCHANGED <<unit, exits, refusals, abandoned>>

\* Ctrl-C is no Exception: start_node leaves what it started, and an except or
\* finally clause that is under way is left as well.  The finally clause of the
\* deposit command runs after a Ctrl-C in its try block.
Interrupt(o) ==
  LET cleaning == pc[o] \in {"unwind", "await"} IN
  /\ pc[o] # "idle"
  /\ interrupts < MaxInterrupts
  /\ interrupts' = interrupts + 1
  /\ \/ op[o] = "deposit" /\ ~cleaning /\ Unwind(o)
     \/ (op[o] # "deposit" \/ cleaning) /\ End(o)
  /\ abandoned' = (abandoned \/ (op[o] = "deposit" /\ cleaning))
  /\ UNCHANGED <<unit, exits, refusals>>

-----------------------------------------------------------------------------
(* The specification. *)

Step(o) ==
  \/ Check(o) \/ Checked(o) \/ ReadBefore(o) \/ RequestStart(o)
  \/ ReadAfter(o) \/ StartsDone(o) \/ EndPoll(o)
  \/ RequestStop(o) \/ AwaitStop(o) \/ StopsDone(o)

Next ==
  \/ \E o \in Operators : \/ \E c \in Operations : Begin(o, c)
                          \/ Step(o) \/ StopRefused(o) \/ Interrupt(o)
  \/ \E u \in Units : Exit(u) \/ RestartDependents(u) \/ AutoRestart(u) \/ StopDone(u)

Spec == Init /\ [][Next]_vars

\* A command's process is scheduled, systemd finishes what it began, and a
\* command's subprocess calls return.
FairSpec ==
  /\ Spec
  /\ \A o \in Operators : WF_vars(Step(o))
  /\ \A u \in Units : /\ WF_vars(RestartDependents(u)) /\ WF_vars(AutoRestart(u))
                      /\ WF_vars(StopDone(u))

-----------------------------------------------------------------------------
(* Properties. *)

Recorded(o) == {started[o][k] : k \in 1 .. Len(started[o])}

\* The deposit RPC never outlives its command (validator.py: "always stop
\* it"): while it runs, a deposit command that recorded its start has yet to
\* stop it, whatever the other operators do and wherever Ctrl-C falls in the
\* try block.  A refused stop or a Ctrl-C in the cleanup does leave it running.
DepositRpcIsOwned ==
  unit["deposit-rpc"] = "active" /\ refusals = 0 /\ ~abandoned =>
    \E o \in Operators : /\ op[o] = "deposit"
                         /\ "deposit-rpc" \in Recorded(o)
                         /\ ~Done(o, "unwind")

\* A start that meets no other command never has a running unit stopped by
\* Conflicts= before it has failed: its check left no unit that could come
\* back (start_node, generate_deposit_signature: require_stopped).
StartStopsNothing ==
  [][\A o \in alone : op[o] # "stop" /\ pc[o] \notin {"unwind", "await"} =>
       \A u \in Units : ~(unit[u] = "active" /\ unit'[u] = "deactivating")]_vars

\* Once a start or deposit command that meets no other has recorded a unit
\* that uses the validator's keys, no other such unit runs, is being stopped
\* or waits for its restart, whatever earlier commands left behind
\* (require_stopped in start_node and generate_deposit_signature).
KeysAreExclusive ==
  \A o \in alone : op[o] # "stop" =>
    \A u \in Recorded(o) \cap KeyStoreOwners :
      \A v \in KeyStoreOwners \ {u} : Stopped(v)

\* A failed start that met no other command leaves no unit it requested
\* running or in a restart (start_node's except clause).  Reth is
\* excepted when the command did not start Summit: a Summit that ran before
\* may have restarted and brought Reth back as its requirement.
UnwoundStart ==
  \A o \in alone : Done(o, "unwind") /\ op[o] # "stop" /\ refusals = 0 =>
    \A u \in Recorded(o) :
      Stopped(u) \/ (u = "reth" /\ SummitOf(op[o]) \notin Recorded(o))

\* stop_node that met no other command and reached its end leaves nothing
\* running, stopping or waiting for an automatic restart.
NodeStopped ==
  \A o \in alone : Done(o, "unwind") /\ op[o] = "stop" =>
    \A u \in Units : Stopped(u)

\* stop_node never stops Reth under a Summit that has not stopped, also when
\* a stop failed (README.md: "A stop failure aborts before lower-level
\* dependencies are stopped").
RethStopsLast ==
  [][\A o \in alone : op[o] = "stop" =>
       (unit["reth"] = "active" /\ unit'["reth"] = "deactivating" =>
          \A u \in RequiredBy("reth") : Stopped(u))]_vars

\* Every command ends.
CommandsEnd == \A o \in Operators : pc[o] # "idle" ~> pc[o] = "idle"
=============================================================================
