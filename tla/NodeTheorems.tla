---------------------------- MODULE NodeTheorems ----------------------------
(***************************************************************************)
(* The inductive invariant of NodeServices, in named parts, and the safety *)
(* properties that follow from it: for any number of operators, whichever  *)
(* commands they issue, with any bounds on exits, refusals and interrupts. *)
(***************************************************************************)
EXTENDS NodeServices, SequenceTheorems, TLAPS

-----------------------------------------------------------------------------
(* The invariant.                                                          *)

Elements(s) == {s[k] : k \in 1 .. Len(s)}
Pending(o)  == Elements(rest[o])

\* No element of s that is in A comes before one that is in B.
NoneBefore(A, B, s) ==
  \A j, k \in 1 .. Len(s) : j < k => ~(s[j] \in A /\ s[k] \in B)

Starts   == {"start", "start-checkpoint", "deposit"}
Starting == {"start", "request", "confirm"}
Stopping == {"unwind", "await"}
Summits  == {"summit", "summit-checkpoint"}

\* The units a command starts, and those that must not run beside them.
ToStart(c) == IF c = "deposit" THEN {"deposit-rpc"}
              ELSE {"custodian", "reth", SummitOf(c), "checkpointer"}
Rivals(c)  == KeyStoreOwners \ ToStart(c)

\* Where a command is says what it is doing.
CommandOk(o) ==
  /\ pc[o] = "idle" <=> op[o] = "none"
  /\ pc[o] \in Starting \cup {"check", "poll"} => op[o] \in Starts
  /\ pc[o] \in {"idle", "check"} => started[o] = <<>>
  /\ pc[o] \in {"request", "confirm", "await"} => rest[o] # <<>>
  /\ pc[o] \in {"request", "confirm"} => Head(rest[o]) \in Recorded(o)
  /\ pc[o] \in Starting => Pending(o) \subseteq ToStart(op[o])
  /\ pc[o] \in Stopping /\ op[o] # "stop" => Pending(o) \subseteq Recorded(o)
  /\ Recorded(o) \subseteq ToStart(op[o])

CommandInv == \A o \in Operators : CommandOk(o)

\* Reth is started before Summit and stopped after it.
OrderOk(o) ==
  /\ NoneBefore({"reth"}, Summits, started[o])
  /\ pc[o] \in Starting =>
       /\ NoneBefore(Summits, {"reth"}, rest[o])
       /\ Summits \cap Recorded(o) # {} => "reth" \notin Pending(o)
  /\ pc[o] \in Stopping => NoneBefore({"reth"}, Summits, rest[o])

OrderInv == \A o \in Operators : OrderOk(o)

\* Units that run and that will run again unless they are stopped.
Up == {"active", "activating", "restarting"}

\* systemd wants one owner of the key store to run; the deposit RPC is not
\* restarted.
UnitInv ==
  /\ unit["deposit-rpc"] \notin {"activating", "restarting"}
  /\ \A u, v \in KeyStoreOwners : u # v => ~({unit[u], unit[v]} \subseteq Up)

\* The command that will stop the deposit RPC has not come to its stop.
Owner(o) ==
  /\ op[o] = "deposit" /\ "deposit-rpc" \in Recorded(o)
  /\ pc[o] # "await" /\ ~Done(o, "unwind")

OwnedInv ==
  unit["deposit-rpc"] = "active" /\ refusals = 0 /\ ~abandoned =>
    \E o \in Operators : Owner(o)

\* Who is alone is the only one.
AloneInv ==
  \A o \in alone : /\ pc[o] # "idle"
                   /\ \A other \in Operators : other # o => pc[other] = "idle"

\* What a lone command has checked stays stopped.
CheckOk(o) ==
  op[o] # "stop" =>
    \A u \in Rivals(op[o]) :
      \/ Stopped(u)
      \/ pc[o] = "check" /\ u \in Pending(o)
      \/ pc[o] \in Stopping /\ Recorded(o) = {}

CheckInv == \A o \in alone : CheckOk(o)

\* What a stop or a cleanup is about, and what of it is done.
Handled(o) == IF op[o] = "stop" THEN Units ELSE Recorded(o)
Swept(o)   == Handled(o) \ Pending(o)

\* A Reth that a cleanup stops may come back with a Summit it does not stop.
MayReturn(o, u) == u = "reth" /\ op[o] # "stop" /\ SummitOf(op[o]) \notin Recorded(o)

\* What a lone command has stopped stays stopped, Reth because no Summit is
\* left that would bring it back.
SweepOk(o) ==
  pc[o] \in Stopping =>
    /\ op[o] = "stop" \/ refusals = 0 =>
         \A u \in Swept(o) : Stopped(u) \/ MayReturn(o, u)
    /\ "reth" \in Swept(o) => Summits \cap Pending(o) = {}
    /\ pc[o] = "await" =>
         /\ unit[Head(rest[o])] \in STOPPED_STATES \cup {"deactivating"}
         /\ Head(rest[o]) = "reth" =>
              \A s \in Summits : unit[s] \notin Up

SweepInv == \A o \in alone : SweepOk(o)

IndInv ==
  /\ TypeOK   /\ CommandInv /\ OrderInv /\ UnitInv /\ OwnedInv
  /\ AloneInv /\ CheckInv   /\ SweepInv

-----------------------------------------------------------------------------
(* Sequences of units.                                                     *)

\* A loop over units takes one after another.
LEMMA Loop ==
  ASSUME NEW s \in Seq(Units), s # <<>>
  PROVE  /\ Head(s) \in Units /\ Tail(s) \in Seq(Units)
         /\ Elements(s) = {Head(s)} \cup Elements(Tail(s))
<1>1. /\ Head(s) \in Units /\ Tail(s) \in Seq(Units) /\ Len(s) \in Nat \ {0}
      /\ Len(Tail(s)) = Len(s) - 1
      /\ \A k \in 1 .. Len(Tail(s)) : Tail(s)[k] = s[k + 1]
  BY HeadTailProperties, EmptySeq
<1>2. Head(s) = s[1]
  BY <1>1
<1>3. \A k \in 1 .. Len(s) : k = 1 \/ (k - 1 \in 1 .. Len(Tail(s)) /\ s[k] = Tail(s)[k - 1])
  BY <1>1
<1>4. Elements(s) \subseteq {Head(s)} \cup Elements(Tail(s))
  BY <1>2, <1>3 DEF Elements
<1>5. \A k \in 1 .. Len(Tail(s)) : k + 1 \in 1 .. Len(s)
  BY <1>1
<1>6. Elements(Tail(s)) \subseteq Elements(s)
  BY <1>1, <1>5 DEF Elements
<1>7. Head(s) \in Elements(s)
  BY <1>1, <1>2 DEF Elements
<1>. QED
  BY <1>1, <1>4, <1>6, <1>7

\* The empty sequence has no elements, and only it.
LEMMA Empty ==
  /\ <<>> \in Seq(Units) /\ Elements(<<>>) = {}
  /\ \A s \in Seq(Units) : Elements(s) = {} => s = <<>>
<1>1. Elements(<<>>) = {}
  BY DEF Elements
<1>2. \A s \in Seq(Units) : Elements(s) = {} => s = <<>>
  BY Loop
<1>. QED
  BY <1>1, <1>2

\* A start request is recorded in front of the earlier ones.
LEMMA Record ==
  ASSUME NEW s \in Seq(Units), NEW u \in Units
  PROVE  /\ <<u>> \o s \in Seq(Units)
         /\ Elements(<<u>> \o s) = {u} \cup Elements(s)
         /\ <<u>> \o s # <<>>
<1>1. /\ <<u>> \o s \in Seq(Units) /\ Len(s) \in Nat
      /\ Len(<<u>> \o s) = Len(s) + 1
      /\ \A k \in 1 .. Len(s) + 1 :
           (<<u>> \o s)[k] = IF k <= 1 THEN u ELSE s[k - 1]
  BY ConcatProperties, LenProperties
<1>2. Elements(<<u>> \o s) \subseteq {u} \cup Elements(s)
  BY <1>1 DEF Elements
<1>3. \A k \in 1 .. Len(s) : k + 1 \in 1 .. Len(s) + 1 /\ (<<u>> \o s)[k + 1] = s[k]
  BY <1>1
<1>4. u \in Elements(<<u>> \o s)
  <2>1. 1 \in 1 .. Len(<<u>> \o s) /\ (<<u>> \o s)[1] = u
    BY <1>1
  <2>. QED
    BY <2>1 DEF Elements
<1>5. Elements(s) \subseteq Elements(<<u>> \o s)
  <2>1. \A k \in 1 .. Len(s) : k + 1 \in 1 .. Len(<<u>> \o s)
    BY <1>1
  <2>. QED
    BY <1>3, <2>1 DEF Elements
<1>. QED
  BY <1>1, <1>2, <1>4, <1>5, Empty

\* The order of a loop is that of what is left of it.
LEMMA LoopOrder ==
  ASSUME NEW s \in Seq(Units), s # <<>>, NEW A, NEW B, NoneBefore(A, B, s)
  PROVE  /\ NoneBefore(A, B, Tail(s))
         /\ Head(s) \in A => Elements(Tail(s)) \cap B = {}
<1>1. /\ Len(s) \in Nat \ {0} /\ Len(Tail(s)) = Len(s) - 1
      /\ \A k \in 1 .. Len(Tail(s)) : k + 1 \in 1 .. Len(s) /\ Tail(s)[k] = s[k + 1]
  BY HeadTailProperties, EmptySeq
<1>2. Head(s) = s[1] /\ 1 \in 1 .. Len(s)
  BY <1>1
<1>3. \A j, k \in 1 .. Len(Tail(s)) : j < k => j + 1 < k + 1
  BY <1>1
<1>4. NoneBefore(A, B, Tail(s))
  BY <1>1, <1>3 DEF NoneBefore
<1>5. Head(s) \in A => \A k \in 1 .. Len(Tail(s)) : Tail(s)[k] \notin B
  BY <1>1, <1>2 DEF NoneBefore
<1>. QED
  BY <1>4, <1>5 DEF Elements

\* So is that of the recorded requests.
LEMMA RecordOrder ==
  ASSUME NEW s \in Seq(Units), NEW u \in Units, NEW A, NEW B,
         NoneBefore(A, B, s), u \in A => Elements(s) \cap B = {}
  PROVE  NoneBefore(A, B, <<u>> \o s)
<1>1. /\ Len(s) \in Nat
      /\ Len(<<u>> \o s) = Len(s) + 1
      /\ \A k \in 1 .. Len(s) + 1 :
           (<<u>> \o s)[k] = IF k <= 1 THEN u ELSE s[k - 1]
  BY ConcatProperties, LenProperties
<1>2. ASSUME NEW j \in 1 .. Len(s) + 1, NEW k \in 1 .. Len(s) + 1, j < k,
             (<<u>> \o s)[j] \in A, (<<u>> \o s)[k] \in B
      PROVE  FALSE
  <2>1. k - 1 \in 1 .. Len(s) /\ s[k - 1] \in B
    BY <1>1, <1>2
  <2>2. CASE j = 1
    BY <1>1, <1>2, <2>1, <2>2 DEF Elements
  <2>3. CASE j # 1
    <3>1. j - 1 \in 1 .. Len(s) /\ s[j - 1] \in A /\ j - 1 < k - 1
      BY <1>1, <1>2, <2>3
    <3>. QED
      BY <2>1, <3>1 DEF NoneBefore
  <2>. QED
    BY <2>2, <2>3
<1>. QED
  BY <1>1, <1>2 DEF NoneBefore

\* The loops of the code.
LEMMA Loops ==
  /\ StopSequence \in Seq(Units) /\ Elements(StopSequence) = Units
  /\ NoneBefore({"reth"}, Summits, StopSequence)
  /\ \A c \in Starts :
       /\ MustBeStopped(c) \in Seq(Units) /\ StartSequence(c) \in Seq(Units)
       /\ Rivals(c) \subseteq Elements(MustBeStopped(c))
       /\ Elements(StartSequence(c)) \subseteq ToStart(c)
       /\ NoneBefore(Summits, {"reth"}, StartSequence(c))
<1>. USE DEF Units, KeyStoreOwners
<1>1. StopSequence \in Seq(Units) /\ Elements(StopSequence) = Units
      /\ NoneBefore({"reth"}, Summits, StopSequence)
  BY DEF StopSequence, Elements, NoneBefore, Summits
<1>2. ASSUME NEW c \in Starts
      PROVE  MustBeStopped(c) \in Seq(Units) /\ Rivals(c) \subseteq Elements(MustBeStopped(c))
  <2>. USE DEF MustBeStopped, Rivals, ToStart, SummitOf, Elements
  <2>1. CASE c = "deposit"
    <3>1. MustBeStopped(c)[3] = "summit" /\ MustBeStopped(c)[4] = "summit-checkpoint"
          /\ Len(MustBeStopped(c)) = 6 /\ MustBeStopped(c) \in Seq(Units)
      BY <2>1
    <3>2. {"summit", "summit-checkpoint"} \subseteq Elements(MustBeStopped(c))
      BY <3>1
    <3>. QED
      BY <2>1, <3>1, <3>2
  <2>2. CASE c = "start"
    BY <2>2
  <2>3. CASE c = "start-checkpoint"
    BY <2>3
  <2>. QED
    BY <2>1, <2>2, <2>3 DEF Starts
<1>3. ASSUME NEW c \in Starts
      PROVE  /\ StartSequence(c) \in Seq(Units)
             /\ Elements(StartSequence(c)) \subseteq ToStart(c)
             /\ NoneBefore(Summits, {"reth"}, StartSequence(c))
  <2>1. CASE c = "deposit"
    BY <2>1 DEF StartSequence, Elements, ToStart, NoneBefore, Summits
  <2>2. CASE c # "deposit"
    <3>1. SummitOf(c) \in Summits
      BY DEF SummitOf, Summits
    <3>. DEFINE s == <<"custodian", "reth", SummitOf(c)>>
    <3>. DEFINE t == <<"custodian", "reth", SummitOf(c), "checkpointer">>
    <3>2. s \in Seq(Units) /\ s \o <<>> = s
      <4>1. s \in Seq(Units)
        BY <3>1 DEF Summits
      <4>. QED
        BY <4>1, ConcatEmptySeq
    <3>3. s \o <<"checkpointer">> = t
      <4>. DEFINE q == <<"checkpointer">>
      <4>1. q \in Seq(Units) /\ t \in Seq(Units)
        BY <3>1 DEF Summits
      <4>2. Len(s) = 3 /\ Len(q) = 1 /\ Len(t) = 4
        OBVIOUS
      <4>3. \A k \in 1 .. 4 : t[k] = IF k <= 3 THEN s[k] ELSE q[k - 3]
        OBVIOUS
      <4>. HIDE DEF s, t, q
      <4>4. /\ s \o q \in Seq(Units) /\ Len(s \o q) = Len(s) + Len(q)
            /\ \A k \in 1 .. Len(s) + Len(q) :
                 (s \o q)[k] = IF k <= Len(s) THEN s[k] ELSE q[k - Len(s)]
        BY <3>2, <4>1, ConcatProperties
      <4>5. Len(s \o q) = 4 /\ \A k \in 1 .. 4 : (s \o q)[k] = t[k]
        BY <4>2, <4>3, <4>4
      <4>6. s \o q = t
        BY <4>1, <4>2, <4>4, <4>5, SeqEqual
      <4>. QED
        BY <4>6 DEF q
    <3>4. StartSequence(c) \in {s, t}
      BY <2>2, <3>2, <3>3 DEF StartSequence
    <3>5. /\ {s, t} \subseteq Seq(Units)
          /\ Elements(s) \subseteq ToStart(c) /\ Elements(t) \subseteq ToStart(c)
      BY <2>2, <3>1 DEF Elements, ToStart, Summits
    <3>6. NoneBefore(Summits, {"reth"}, s) /\ NoneBefore(Summits, {"reth"}, t)
      BY DEF NoneBefore, Summits
    <3>. HIDE DEF s, t
    <3>. QED
      BY <3>4, <3>5, <3>6
  <2>. QED
    BY <2>1, <2>2
<1>. QED
  BY <1>1, <1>2, <1>3

-----------------------------------------------------------------------------
(* What steps do, command by command.                                      *)

Keeps(o) == /\ pc'[o] = pc[o]     /\ op'[o] = op[o]
            /\ rest'[o] = rest[o] /\ started'[o] = started[o]

Goes(o, label, sequence) ==
  /\ pc'[o] = label   /\ rest'[o] = sequence
  /\ op'[o] = op[o]   /\ started'[o] = started[o]
  /\ alone' = alone

Ends(o) ==
  /\ pc[o] # "idle"
  /\ pc'[o] = "idle"  /\ rest'[o] = <<>>
  /\ op'[o] = "none"  /\ started'[o] = <<>>
  /\ alone' = alone \ {o}

Fresh(o, c) ==
  /\ pc[o] = "idle"
  /\ pc'[o] = IF c = "stop" THEN "unwind" ELSE "check"
  /\ rest'[o] = IF c = "stop" THEN StopSequence ELSE MustBeStopped(c)
  /\ op'[o] = c       /\ started'[o] = started[o]
  /\ alone' = IF \A other \in Operators : pc[other] = "idle" THEN {o} ELSE {}

\* The steps that leave the units alone.
Proceeds(o) ==
  \/ Ends(o)
  \/ At(o, "check") /\ Stopped(Head(rest[o])) /\ Goes(o, "check", Tail(rest[o]))
  \/ Done(o, "check") /\ Goes(o, "start", StartSequence(op[o]))
  \/ pc[o] \in {"start", "confirm"} /\ rest[o] # <<>> /\ Goes(o, "start", Tail(rest[o]))
  \/ pc[o] \in Starting \cup {"check", "poll"} /\ Goes(o, "unwind", started[o])
  \/ Done(o, "start") /\ op[o] = "deposit" /\ Goes(o, "poll", <<>>)
  \/ At(o, "unwind") /\ Stopped(Head(rest[o])) /\ Goes(o, "unwind", Tail(rest[o]))
  \/ /\ At(o, "unwind") /\ op[o] # "stop" /\ refusals' = refusals + 1
     /\ Goes(o, "unwind", Tail(rest[o]))
  \/ /\ pc[o] = "await" /\ rest[o] # <<>> /\ unit[Head(rest[o])] # "deactivating"
     /\ Goes(o, "unwind", Tail(rest[o]))

\* The steps that do not.
Records(o) ==
  /\ At(o, "start") /\ Stopped(Head(rest[o]))
  /\ unit' = [unit EXCEPT ![Head(rest[o])] = "inactive"]
  /\ pc'[o] = "request" /\ rest'[o] = rest[o] /\ op'[o] = op[o]
  /\ started'[o] = <<Head(rest[o])>> \o started[o]
  /\ alone' = alone

Requests(o) ==
  /\ pc[o] = "request" /\ StartJob(Head(rest[o])) /\ Goes(o, "confirm", rest[o])
  /\ \A v \in {Head(rest[o])} \cup Requires(Head(rest[o])) : ~Moves(v)

Stops(o) ==
  /\ At(o, "unwind") /\ ~Stopped(Head(rest[o]))
  /\ StopJob(Head(rest[o])) /\ Goes(o, "await", rest[o])

OperatorStep(o) == Step(o) \/ StopRefused(o) \/ Interrupt(o)

\* A move is a move of one command.
LEMMA GotoEffect ==
  ASSUME TypeOK, NEW o \in Operators, NEW label, NEW sequence, Goto(o, label, sequence),
         UNCHANGED <<op, started, alone>>
  PROVE  Goes(o, label, sequence) /\ \A other \in Operators \ {o} : Keeps(other)
  BY DEF TypeOK, Goto, Goes, Keeps

\* So is an end.
LEMMA EndEffect ==
  ASSUME TypeOK, NEW o \in Operators, End(o), pc[o] # "idle"
  PROVE  Ends(o) /\ \A other \in Operators \ {o} : Keeps(other)
  BY DEF TypeOK, Goto, End, Ends, Keeps

\* And a beginning.
LEMMA BeginEffect ==
  ASSUME TypeOK, NEW o \in Operators, NEW c \in Operations, Begin(o, c)
  PROVE  /\ Fresh(o, c) /\ \A other \in Operators \ {o} : Keeps(other)
         /\ UNCHANGED <<unit, bounds>>
  BY DEF TypeOK, Goto, Begin, Fresh, Keeps

\* What a command's step does to its own place, and to no other's.
LEMMA StepEffect ==
  ASSUME TypeOK, CommandInv, NEW o \in Operators, OperatorStep(o)
  PROVE  /\ \A other \in Operators \ {o} : Keeps(other)
         /\ \/ Proceeds(o) /\ unit' = unit
            \/ Records(o) \/ Requests(o) \/ Stops(o)
<1>. USE GotoEffect, EndEffect DEF Starting, At, Done, Proceeds
<1>1. CASE Check(o)
  BY <1>1 DEF Check, Acceptable
<1>2. CASE Checked(o)
  BY <1>2 DEF Checked
<1>3. CASE ReadBefore(o)
  <2>1. CASE Stopped(Head(rest[o])) /\ pc'[o] = "request"
    BY <1>3, <2>1 DEF ReadBefore, Records, Keeps, Goto, TypeOK, Unwind
  <2>2. CASE ~(Stopped(Head(rest[o])) /\ pc'[o] = "request")
    BY <1>3, <2>2 DEF ReadBefore, Unwind, Goto, TypeOK
  <2>. QED
    BY <2>1, <2>2
<1>4. CASE RequestStart(o)
  BY <1>4 DEF RequestStart, Requests
<1>5. CASE ReadAfter(o)
  BY <1>5 DEF ReadAfter, Unwind, CommandInv, CommandOk
<1>6. CASE StartsDone(o)
  BY <1>6 DEF StartsDone
<1>7. CASE EndPoll(o)
  BY <1>7 DEF EndPoll, Unwind
<1>8. CASE RequestStop(o)
  BY <1>8 DEF RequestStop, Stops
<1>9. CASE AwaitStop(o)
  BY <1>9 DEF AwaitStop, CommandInv, CommandOk
<1>10. CASE StopsDone(o)
  BY <1>10 DEF StopsDone
<1>11. CASE StopRefused(o)
  BY <1>11 DEF StopRefused
<1>12. CASE Interrupt(o)
  <2>1. CASE End(o)
    BY <1>12, <2>1 DEF Interrupt
  <2>2. CASE op[o] = "deposit" /\ pc[o] \notin {"unwind", "await"} /\ Unwind(o)
    <3>1. pc[o] \in Starting \cup {"check", "poll"}
      BY <1>12, <2>2 DEF Interrupt, TypeOK, Pcs
    <3>. QED
      BY <1>12, <2>2, <3>1 DEF Interrupt, Unwind
  <2>. QED
    BY <1>12, <2>1, <2>2 DEF Interrupt
<1>. QED
  BY <1>1, <1>2, <1>3, <1>4, <1>5, <1>6, <1>7, <1>8, <1>9, <1>10, <1>11, <1>12
  DEF OperatorStep, Step

-----------------------------------------------------------------------------
(* Types.                                                                  *)

\* Jobs leave units units.
LEMMA JobType ==
  ASSUME TypeOK
  PROVE  /\ \A D \in SUBSET Units : Halted(D) \in [Units -> UnitStates]
         /\ \A u \in Units : /\ StartJob(u) => unit' \in [Units -> UnitStates]
                             /\ StopJob(u)  => unit' \in [Units -> UnitStates]
<1>1. \A D : Halted(D) \in [Units -> UnitStates]
  BY DEF TypeOK, Halted, UnitStates, STOPPED_STATES, TRANSIENT_STATES
<1>2. \A u \in Units : StartJob(u) => unit' \in [Units -> UnitStates]
  BY <1>1 DEF StartJob, UnitStates
<1>. QED
  BY <1>1, <1>2 DEF StopJob

\* A move to a label, with a sequence of units, is well typed.
LEMMA GotoType ==
  ASSUME TypeOK, NEW o \in Operators, NEW label \in Pcs, NEW sequence \in Seq(Units),
         Goto(o, label, sequence)
  PROVE  pc' \in [Operators -> Pcs] /\ rest' \in [Operators -> Seq(Units)]
  BY DEF TypeOK, Goto

\* An end is.
LEMMA EndType ==
  ASSUME TypeOK, NEW o \in Operators, End(o)
  PROVE  /\ pc' \in [Operators -> Pcs] /\ rest' \in [Operators -> Seq(Units)]
         /\ op' \in [Operators -> Operations \cup {"none"}]
         /\ started' \in [Operators -> Seq(Units)]
         /\ alone' \in SUBSET Operators
<1>1. "idle" \in Pcs /\ <<>> \in Seq(Units)
  BY DEF Pcs
<1>2. Goto(o, "idle", <<>>)
  BY DEF End
<1>. QED
  BY <1>1, <1>2, GotoType DEF TypeOK, End

\* So is a cleanup.
LEMMA UnwindType ==
  ASSUME TypeOK, NEW o \in Operators, Unwind(o)
  PROVE  /\ pc' \in [Operators -> Pcs] /\ rest' \in [Operators -> Seq(Units)]
         /\ UNCHANGED <<op, started, alone>>
<1>1. "unwind" \in Pcs /\ started[o] \in Seq(Units)
  BY DEF Pcs, TypeOK
<1>. QED
  BY <1>1, GotoType DEF Unwind

CommandTypes ==
  /\ pc \in [Operators -> Pcs]
  /\ op \in [Operators -> Operations \cup {"none"}]
  /\ rest \in [Operators -> Seq(Units)]
  /\ started \in [Operators -> Seq(Units)]
  /\ alone \in SUBSET Operators

\* Every variable keeps its type.
LEMMA StepType ==
  ASSUME TypeOK, CommandInv, [Next]_vars
  PROVE  TypeOK'
<1>0. /\ \A o \in Operators : rest[o] # <<>> =>
           Head(rest[o]) \in Units /\ Tail(rest[o]) \in Seq(Units)
      /\ \A o \in Operators : rest[o] \in Seq(Units) /\ started[o] \in Seq(Units)
      /\ <<>> \in Seq(Units)
      /\ {"idle", "check", "start", "request", "confirm", "poll", "unwind", "await"} = Pcs
  BY Loop, Empty DEF TypeOK, Pcs
<1>1. ASSUME NEW o \in Operators, NEW c \in Operations, Begin(o, c)
      PROVE  TypeOK'
  <2>1. c # "stop" => c \in Starts
    BY BoundsAssumption DEF Starts
  <2>2. CommandTypes'
    BY <1>0, <1>1, <2>1, GotoType, Loops DEF Begin, TypeOK, CommandTypes
  <2>. QED
    BY <1>1, <2>2 DEF Begin, TypeOK, CommandTypes, bounds
<1>2. ASSUME NEW o \in Operators, Check(o) \/ Checked(o) \/ StartsDone(o) \/ ReadAfter(o)
                                  \/ EndPoll(o) \/ StopsDone(o) \/ AwaitStop(o)
      PROVE  TypeOK'
  <2>1. UNCHANGED <<unit, bounds>>
    BY <1>2 DEF Check, Checked, StartsDone, ReadAfter, EndPoll, StopsDone, AwaitStop
  <2>2. CommandTypes'
    <3>1. CASE Check(o)
      BY <1>0, <3>1, GotoType, EndType DEF Check, At, TypeOK, CommandTypes
    <3>2. CASE Checked(o)
      <4>1. op[o] \in Starts
        BY <3>2 DEF Checked, Done, CommandInv, CommandOk, Starting
      <4>. QED
        BY <1>0, <3>2, <4>1, GotoType, Loops DEF Checked, TypeOK, CommandTypes
    <3>3. CASE StartsDone(o)
      BY <1>0, <3>3, GotoType, EndType DEF StartsDone, TypeOK, CommandTypes
    <3>4. CASE ReadAfter(o)
      BY <1>0, <3>4, GotoType, UnwindType DEF ReadAfter, TypeOK, CommandTypes, CommandInv, CommandOk
    <3>5. CASE EndPoll(o)
      BY <3>5, UnwindType DEF EndPoll, TypeOK, CommandTypes
    <3>6. CASE StopsDone(o)
      BY <3>6, EndType DEF StopsDone, TypeOK, CommandTypes
    <3>7. CASE AwaitStop(o)
      BY <1>0, <3>7, GotoType DEF AwaitStop, TypeOK, CommandTypes, CommandInv, CommandOk
    <3>. QED
      BY <1>2, <3>1, <3>2, <3>3, <3>4, <3>5, <3>6, <3>7
  <2>. QED
    BY <2>1, <2>2 DEF TypeOK, CommandTypes, bounds
<1>3. ASSUME NEW o \in Operators, ReadBefore(o) \/ RequestStart(o) \/ RequestStop(o)
      PROVE  TypeOK'
  <2>1. Head(rest[o]) \in Units /\ UNCHANGED bounds
    BY <1>0, <1>3 DEF ReadBefore, RequestStart, RequestStop, At, CommandInv, CommandOk
  <2>2. unit' \in [Units -> UnitStates]
    <3>1. "inactive" \in UnitStates
      BY DEF UnitStates, STOPPED_STATES
    <3>. QED
      BY <1>3, <2>1, <3>1, JobType DEF ReadBefore, RequestStart, RequestStop, TypeOK
  <2>3. CommandTypes'
    <3>1. CASE ReadBefore(o)
      <4>1. <<Head(rest[o])>> \o started[o] \in Seq(Units)
        BY <1>0, <2>1, Record
      <4>. QED
        BY <1>0, <3>1, <4>1, GotoType, UnwindType DEF ReadBefore, At, TypeOK, CommandTypes
    <3>2. CASE RequestStart(o)
      BY <1>0, <3>2, GotoType DEF RequestStart, TypeOK, CommandTypes
    <3>3. CASE RequestStop(o)
      BY <1>0, <3>3, GotoType DEF RequestStop, At, TypeOK, CommandTypes
    <3>. QED
      BY <1>3, <3>1, <3>2, <3>3
  <2>. QED
    BY <2>1, <2>2, <2>3 DEF TypeOK, CommandTypes, bounds
<1>4. ASSUME NEW o \in Operators, StopRefused(o) \/ Interrupt(o)
      PROVE  TypeOK'
  <2>1. unit' = unit /\ exits' = exits /\ abandoned' \in BOOLEAN
    BY <1>4 DEF StopRefused, Interrupt, TypeOK
  <2>2. refusals' \in 0 .. MaxRefusals /\ interrupts' \in 0 .. MaxInterrupts
    BY <1>4, BoundsAssumption DEF StopRefused, Interrupt, TypeOK
  <2>3. CASE StopRefused(o)
    <3>1. CommandTypes'
      BY <1>0, <2>3, GotoType, EndType DEF StopRefused, At, TypeOK, CommandTypes
    <3>. QED
      BY <2>1, <2>2, <3>1 DEF TypeOK, CommandTypes
  <2>4. CASE Interrupt(o)
    <3>1. CommandTypes'
      BY <2>4, UnwindType, EndType DEF Interrupt, TypeOK, CommandTypes
    <3>. QED
      BY <2>1, <2>2, <3>1 DEF TypeOK, CommandTypes
  <2>. QED
    BY <1>4, <2>3, <2>4
<1>5. ASSUME NEW u \in Units,
             Exit(u) \/ RestartDependents(u) \/ AutoRestart(u) \/ StopDone(u)
      PROVE  TypeOK'
  <2>1. unit' \in [Units -> UnitStates]
    <3>1. STOPPED_STATES \cup {"activating", "restarting", "inactive"} \subseteq UnitStates
      BY DEF UnitStates, STOPPED_STATES, TRANSIENT_STATES
    <3>. QED
      BY <1>5, <3>1, JobType DEF Exit, RestartDependents, AutoRestart, StopDone, TypeOK
  <2>2. UNCHANGED <<command, refusals, interrupts, abandoned>>
        /\ exits' \in 0 .. MaxExits
    BY <1>5, BoundsAssumption
    DEF Exit, RestartDependents, AutoRestart, StopDone, TypeOK, bounds
  <2>. QED
    BY <2>1, <2>2 DEF TypeOK, command
<1>6. CASE UNCHANGED vars
  BY <1>6 DEF vars, command, bounds, TypeOK
<1>. QED
  BY <1>1, <1>2, <1>3, <1>4, <1>5, <1>6 DEF Next, Step

-----------------------------------------------------------------------------
(* The invariant of the commands.                                          *)

UnitStep ==
  \E u \in Units : Exit(u) \/ RestartDependents(u) \/ AutoRestart(u) \/ StopDone(u)

\* The steps.
LEMMA Kinds ==
  ASSUME [Next]_vars
  PROVE  \/ \E o \in Operators : OperatorStep(o) \/ \E c \in Operations : Begin(o, c)
         \/ UnitStep /\ UNCHANGED <<command, refusals, abandoned>>
         \/ UNCHANGED vars
  BY DEF Next, OperatorStep, UnitStep, Exit, RestartDependents, AutoRestart, StopDone,
     bounds

\* A command that does not move stays as it is.
LEMMA Kept ==
  ASSUME NEW o \in Operators, Keeps(o), CommandOk(o), OrderOk(o)
  PROVE  CommandOk(o)' /\ OrderOk(o)'
  BY DEF Keeps, CommandOk, OrderOk, Recorded, Pending

\* One that begins has everything before it.
LEMMA BeginCommand ==
  ASSUME TypeOK, NEW o \in Operators, NEW c \in Operations, Fresh(o, c),
         CommandOk(o), OrderOk(o)
  PROVE  CommandOk(o)' /\ OrderOk(o)'
<1>1. c = "stop" \/ c \in Starts
  BY BoundsAssumption DEF Starts
<1>2. started[o] = <<>> /\ Elements(<<>>) = {}
  BY Empty DEF CommandOk, Fresh
<1>. QED
  BY <1>1, <1>2, Loops
  DEF Fresh, CommandOk, OrderOk, Starts, Starting, Stopping, Recorded, Pending, Elements

\* One that moves keeps to its loop.
LEMMA MoveCommand ==
  ASSUME TypeOK, NEW o \in Operators, CommandOk(o), OrderOk(o),
         \/ Proceeds(o) \/ Records(o) \/ Requests(o) \/ Stops(o)
  PROVE  CommandOk(o)' /\ OrderOk(o)'
<1>. USE DEF Starting, Stopping, At, Done
<1>0. /\ rest[o] \in Seq(Units) /\ started[o] \in Seq(Units)
      /\ Recorded(o) = Elements(started[o]) /\ Recorded(o)' = Elements(started'[o])
      /\ Pending(o) = Elements(rest[o]) /\ Pending(o)' = Elements(rest'[o])
      /\ Elements(<<>>) = {}
      /\ pc[o] \in Pcs
  BY Empty DEF TypeOK, Recorded, Pending, Elements
<1>1. rest[o] # <<>> => Pending(o) = {Head(rest[o])} \cup Elements(Tail(rest[o]))
  BY <1>0, Loop
<1>2. CASE Ends(o)
  BY <1>0, <1>2 DEF Ends, CommandOk, OrderOk, ToStart, NoneBefore
<1>3. CASE At(o, "check") /\ Goes(o, "check", Tail(rest[o]))
  BY <1>0, <1>3 DEF Goes, CommandOk, OrderOk
<1>4. CASE Done(o, "check") /\ Goes(o, "start", StartSequence(op[o]))
  <2>1. op[o] \in Starts /\ started[o] = <<>>
    BY <1>4 DEF CommandOk
  <2>2. /\ Elements(StartSequence(op[o])) \subseteq ToStart(op[o])
        /\ NoneBefore(Summits, {"reth"}, StartSequence(op[o]))
    BY <2>1, Loops
  <2>. QED
    BY <1>0, <1>4, <2>1, <2>2 DEF Goes, CommandOk, OrderOk, Starts
<1>5. CASE pc[o] \in {"start", "confirm"} /\ rest[o] # <<>> /\ Goes(o, "start", Tail(rest[o]))
  <2>1. NoneBefore(Summits, {"reth"}, Tail(rest[o]))
    BY <1>0, <1>5, LoopOrder DEF OrderOk
  <2>. QED
    BY <1>0, <1>1, <1>5, <2>1 DEF Goes, CommandOk, OrderOk
<1>6. CASE pc[o] \in Starting \cup {"check", "poll"} /\ Goes(o, "unwind", started[o])
  BY <1>0, <1>6 DEF Goes, CommandOk, OrderOk
<1>7. CASE Done(o, "start") /\ op[o] = "deposit" /\ Goes(o, "poll", <<>>)
  BY <1>0, <1>7 DEF Goes, CommandOk, OrderOk, Starts
<1>8. CASE pc[o] \in Stopping /\ rest[o] # <<>> /\ Goes(o, "unwind", Tail(rest[o]))
  <2>1. NoneBefore({"reth"}, Summits, Tail(rest[o]))
    BY <1>0, <1>8, LoopOrder DEF OrderOk
  <2>. QED
    BY <1>0, <1>1, <1>8, <2>1 DEF Goes, CommandOk, OrderOk
<1>9. CASE Records(o)
  <2>1. Head(rest[o]) \in Units /\ Head(rest[o]) \in Pending(o)
    BY <1>0, <1>1, <1>9, Loop DEF Records
  <2>2. /\ Recorded(o)' = {Head(rest[o])} \cup Recorded(o)
        /\ started'[o] # <<>>
    BY <1>0, <1>9, <2>1, Record DEF Records
  <2>3. NoneBefore({"reth"}, Summits, started'[o])
    BY <1>0, <1>9, <2>1, RecordOrder DEF Records, OrderOk
  <2>4. Head(rest[o]) \in Summits => "reth" \notin Pending(o)
    BY <1>0, <1>1, <1>9, LoopOrder DEF Records, OrderOk, Summits
  <2>. QED
    BY <1>0, <1>9, <2>1, <2>2, <2>3, <2>4 DEF Records, CommandOk, OrderOk
<1>10. CASE Requests(o) \/ Stops(o)
  BY <1>0, <1>10 DEF Requests, Stops, Goes, CommandOk, OrderOk
<1>. QED
  BY <1>2, <1>3, <1>4, <1>5, <1>6, <1>7, <1>8, <1>9, <1>10 DEF Proceeds

\* Every command keeps to its loop.
LEMMA StepCommand ==
  ASSUME TypeOK, CommandInv, OrderInv, [Next]_vars
  PROVE  CommandInv' /\ OrderInv'
<1>1. ASSUME NEW o \in Operators, OperatorStep(o) \/ \E c \in Operations : Begin(o, c)
      PROVE  CommandInv' /\ OrderInv'
  <2>1. \A other \in Operators \ {o} : Keeps(other)
    BY <1>1, StepEffect, BeginEffect
  <2>2. CommandOk(o)' /\ OrderOk(o)'
    BY <1>1, StepEffect, BeginEffect, BeginCommand, MoveCommand DEF CommandInv, OrderInv
  <2>. QED
    BY <2>1, <2>2, Kept DEF CommandInv, OrderInv
<1>2. CASE UNCHANGED command
  <2>1. \A o \in Operators : Keeps(o)
    BY <1>2 DEF command, Keeps
  <2>. QED
    BY <2>1, Kept DEF CommandInv, OrderInv
<1>. QED
  BY <1>1, <1>2, Kinds DEF vars, command

-----------------------------------------------------------------------------
(* The units.                                                              *)

\* Who requires whom.
LEMMA Relations ==
  /\ Summits \subseteq KeyStoreOwners /\ KeyStoreOwners \subseteq Units
  /\ "reth" \in Units \ KeyStoreOwners /\ "deposit-rpc" \in KeyStoreOwners \ Summits
  /\ \A u : Requires(u) = IF u \in Summits THEN {"reth"} ELSE {}
  /\ \A u : RequiredBy(u) = IF u = "reth" THEN Summits ELSE {}
  /\ \A u : Conflicts(u) = IF u \in KeyStoreOwners THEN KeyStoreOwners \ {u} ELSE {}
  BY DEF Summits, KeyStoreOwners, Units, Requires, RequiredBy, Conflicts

\* What a start job does to each unit.
LEMMA StartEffect ==
  ASSUME TypeOK, NEW u \in Units, StartJob(u), NEW v \in Units
  PROVE  /\ v \in {u} \cup Requires(u) => unit'[v] = "active"
         /\ v \notin {u} \cup Requires(u) =>
              /\ unit[v] \notin Up => unit'[v] = unit[v]
              /\ unit'[v] \in Up => unit'[v] = unit[v] /\ v \notin Conflicts(u)
              /\ unit[v] \in Up /\ unit'[v] = "deactivating" => v \in Conflicts(u)
  BY DEF StartJob, Halted, Up

\* What a stop job does to each unit.
LEMMA StopEffect ==
  ASSUME TypeOK, NEW u \in Units, StopJob(u), NEW v \in Units
  PROVE  /\ unit[v] \notin Up => unit'[v] = unit[v]
         /\ unit'[v] \in Up => unit'[v] = unit[v] /\ v \notin {u} \cup RequiredBy(u)
         /\ unit[v] \in Up /\ v \in {u} \cup RequiredBy(u) =>
              unit'[v] \in {"deactivating", "inactive"}
         /\ unit[v] \in Up /\ unit'[v] = "deactivating" =>
              v \in {u} \cup RequiredBy(u)
  BY DEF StopJob, Halted, Up

\* Neither restarts a unit, nor stops a restart for good but by a request.
LEMMA JobEffect ==
  ASSUME TypeOK, NEW u \in Units, NEW v \in Units,
         \/ StartJob(u) /\ \A w \in {u} \cup Requires(u) : unit[w] # "restarting"
         \/ StopJob(u)
         \/ unit' = [unit EXCEPT ![u] = "inactive"] /\ unit[u] # "restarting"
  PROVE  /\ unit'[v] = "restarting" => unit[v] = "restarting"
         /\ unit[v] = "restarting" => unit'[v] \in {"restarting", "deactivating"}
  BY DEF StartJob, StopJob, Halted, TypeOK

\* What systemd does by itself.
LEMMA UnitEffect ==
  ASSUME TypeOK, NEW u \in Units, Exit(u) \/ StopDone(u), NEW v \in Units
  PROVE  /\ v # u => unit'[v] = unit[v]
         /\ unit'[u] # "active" /\ unit[u] \notin STOPPED_STATES
         /\ unit'[u] # "deactivating"
         /\ unit[u] = "deactivating" => unit'[u] = "inactive"
         /\ unit[u] = "restarting" => unit'[u] = "activating"
         /\ unit'[u] \in Up => unit'[u] = "activating" /\ unit[u] \in Up
         /\ unit'[u] = "activating" /\ u = "deposit-rpc" => unit[u] = "restarting"
  BY DEF Exit, StopDone, TypeOK, STOPPED_STATES, Up

\* What an automatic restart does to the units that require its own.
LEMMA RestartEffect ==
  ASSUME TypeOK, NEW u \in Units, RestartDependents(u), NEW v \in Units
  PROVE  \/ unit'[v] = unit[v]
         \/ /\ v \in Summits /\ unit["reth"] = "activating"
            /\ unit[v] = "active" /\ unit'[v] = "restarting"
  BY Relations DEF RestartDependents

\* What is stopped stays so, unless it is started.
LEMMA StaysStopped ==
  ASSUME TypeOK, NEW v \in Units, Stopped(v),
         \/ unit' = unit
         \/ \E u \in Units : unit' = [unit EXCEPT ![u] = "inactive"] \/ StopJob(u)
                             \/ Exit(u) \/ RestartDependents(u) \/ StopDone(u)
         \/ \E u \in Units : StartJob(u) /\ v \notin {u} \cup Requires(u)
  PROVE  Stopped(v)'
<1>1. STOPPED_STATES \cap Up = {} /\ "inactive" \in STOPPED_STATES /\ "active" \in Up
  BY DEF STOPPED_STATES, Up
<1>. QED
  BY <1>1, StartEffect, StopEffect, UnitEffect, RestartEffect DEF Stopped, TypeOK

\* The unit a command works on.
LEMMA AtUnit ==
  ASSUME TypeOK, NEW o \in Operators, rest[o] # <<>>
  PROVE  /\ Head(rest[o]) \in Units /\ Head(rest[o]) \in Pending(o)
         /\ Pending(o) = {Head(rest[o])} \cup Elements(Tail(rest[o]))
<1>1. rest[o] \in Seq(Units)
  BY DEF TypeOK
<1>. QED
  BY <1>1, Loop DEF Pending

\* The steps that change units.
LEMMA UnitKinds ==
  ASSUME TypeOK, CommandInv, [Next]_vars
  PROVE  \/ unit' = unit
         \/ \E o \in Operators : Records(o) \/ Requests(o) \/ Stops(o)
         \/ /\ UNCHANGED <<command, refusals, abandoned>>
            /\ UnitStep
<1>1. ASSUME NEW o \in Operators, OperatorStep(o) \/ \E c \in Operations : Begin(o, c)
      PROVE  unit' = unit \/ Records(o) \/ Requests(o) \/ Stops(o)
  BY <1>1, StepEffect, BeginEffect
<1>. QED
  BY <1>1, Kinds DEF vars

\* A command works on a unit of its own.
LEMMA WorkUnit ==
  ASSUME TypeOK, CommandInv, NEW o \in Operators, Records(o) \/ Requests(o) \/ Stops(o)
  PROVE  /\ rest[o] # <<>>
         /\ Head(rest[o]) \in Units /\ Head(rest[o]) \in Pending(o)
         /\ Requests(o) => Head(rest[o]) \in ToStart(op[o]) \cap Recorded(o)
  BY AtUnit DEF Records, Requests, Stops, At, CommandInv, CommandOk, Starting

\* One owner of the key store at a time.
LEMMA StepUnits ==
  ASSUME TypeOK, CommandInv, UnitInv, [Next]_vars
  PROVE  UnitInv'
<1>1. ASSUME NEW u \in Units, StartJob(u), unit["deposit-rpc"] \notin {"activating", "restarting"}
      PROVE  UnitInv'
  <2>1. unit'["deposit-rpc"] \notin {"activating", "restarting"}
    BY <1>1, Relations, StartEffect DEF Up
  <2>2. CASE u \in KeyStoreOwners
    <3>1. \A v \in KeyStoreOwners \ {u} : unit'[v] \notin Up
      BY <1>1, <2>2, Relations, StartEffect
    <3>. QED
      BY <2>1, <3>1 DEF UnitInv, Up
  <2>3. CASE u \notin KeyStoreOwners
    <3>1. \A v \in KeyStoreOwners : unit'[v] \in Up => unit'[v] = unit[v]
      BY <1>1, <2>3, Relations, StartEffect
    <3>. QED
      BY <2>1, <3>1 DEF UnitInv, Up
  <2>. QED
    BY <2>2, <2>3
<1>2. ASSUME \A v \in KeyStoreOwners : unit'[v] \in Up => unit[v] \in Up,
             unit'["deposit-rpc"] \notin {"activating", "restarting"}
      PROVE  UnitInv'
  BY <1>2 DEF UnitInv, Up
<1>3. CASE unit' = unit
  BY <1>3 DEF UnitInv
<1>4. ASSUME NEW o \in Operators, Records(o) \/ Stops(o)
      PROVE  UnitInv'
  <2>1. \A v \in Units : unit'[v] \in Up => unit'[v] = unit[v]
    BY <1>4, WorkUnit, StopEffect DEF Records, Stops, TypeOK, Up
  <2>. QED
    BY <1>2, <2>1, Relations DEF UnitInv, Up
<1>5. ASSUME NEW o \in Operators, Requests(o)
      PROVE  UnitInv'
  BY <1>1, <1>5, WorkUnit DEF Requests, UnitInv
<1>6. ASSUME NEW u \in Units, AutoRestart(u)
      PROVE  UnitInv'
  BY <1>1, <1>6 DEF AutoRestart, UnitInv
<1>7. ASSUME NEW u \in Units, Exit(u) \/ StopDone(u)
      PROVE  UnitInv'
  <2>1. \A v \in Units : unit'[v] \in Up => unit[v] \in Up
    BY <1>7, UnitEffect DEF Up
  <2>2. unit'["deposit-rpc"] \notin {"activating", "restarting"}
    BY <1>7, Relations, UnitEffect DEF UnitInv, Up
  <2>. QED
    BY <1>2, <2>1, <2>2, Relations
<1>8. ASSUME NEW u \in Units, RestartDependents(u)
      PROVE  UnitInv'
  <2>1. \A v \in Units : unit'[v] \in Up => unit[v] \in Up
    BY <1>8, RestartEffect DEF Up
  <2>2. unit'["deposit-rpc"] \notin {"activating", "restarting"}
    BY <1>8, Relations, RestartEffect DEF UnitInv
  <2>. QED
    BY <1>2, <2>1, <2>2, Relations
<1>. QED
  BY <1>3, <1>4, <1>5, <1>6, <1>7, <1>8, UnitKinds DEF UnitStep

-----------------------------------------------------------------------------
(* The owner of the deposit RPC.                                           *)

\* A refused stop and a cut cleanup are remembered.
LEMMA Monotone ==
  ASSUME TypeOK, CommandInv, [Next]_vars
  PROVE  (refusals' = 0 => refusals = 0) /\ (~abandoned' => ~abandoned)
<1>1. ASSUME NEW o \in Operators, StopRefused(o) \/ Interrupt(o)
      PROVE  (refusals' = 0 => refusals = 0) /\ (~abandoned' => ~abandoned)
  BY <1>1 DEF StopRefused, Interrupt, TypeOK
<1>2. ASSUME NEW o \in Operators, Step(o) \/ \E c \in Operations : Begin(o, c)
      PROVE  UNCHANGED bounds
  BY <1>2 DEF Step, Begin, Check, Checked, ReadBefore, RequestStart, ReadAfter,
              StartsDone, EndPoll, RequestStop, AwaitStop, StopsDone
<1>. QED
  BY <1>1, <1>2, Kinds DEF OperatorStep, bounds, vars

\* An owner's command does not end.
LEMMA OwnerStays ==
  ASSUME TypeOK, CommandInv, NEW o \in Operators, OperatorStep(o), Owner(o), ~abandoned'
  PROVE  pc'[o] # "idle"
<1>1. pc[o] # "check"
  BY Empty DEF Owner, CommandInv, CommandOk, Recorded, Elements
<1>2. ~Check(o) /\ ~StopsDone(o) /\ ~AwaitStop(o)
  BY <1>1 DEF Check, At, StopsDone, AwaitStop, Owner
<1>3. ASSUME StopRefused(o) \/ Interrupt(o)
      PROVE  pc'[o] # "idle"
  BY <1>3 DEF StopRefused, Interrupt, Owner, Unwind, Goto, TypeOK
<1>4. ASSUME Checked(o) \/ ReadBefore(o) \/ RequestStart(o) \/ ReadAfter(o)
             \/ StartsDone(o) \/ EndPoll(o) \/ RequestStop(o)
      PROVE  pc'[o] # "idle"
  BY <1>4 DEF Checked, ReadBefore, RequestStart, ReadAfter, StartsDone, EndPoll,
              RequestStop, Owner, Unwind, Goto, TypeOK
<1>. QED
  BY <1>2, <1>3, <1>4 DEF OperatorStep, Step

\* Its cleanup is about the deposit RPC.
LEMMA OwnerCleans ==
  ASSUME TypeOK, CommandInv, NEW o \in Operators, Owner(o), At(o, "unwind")
  PROVE  Head(rest[o]) = "deposit-rpc"
  BY AtUnit DEF Owner, At, CommandInv, CommandOk, Stopping, ToStart

\* Who requests the deposit RPC owns it, and an owner stays one until the
\* deposit RPC has stopped.
LEMMA StepOwned ==
  ASSUME TypeOK, CommandInv, UnitInv, OwnedInv, [Next]_vars
  PROVE  OwnedInv'
<1>. SUFFICES ASSUME unit'["deposit-rpc"] = "active", refusals' = 0, ~abandoned'
              PROVE  \E o \in Operators : Owner(o)'
  BY DEF OwnedInv
<1>0. refusals = 0 /\ ~abandoned
  BY Monotone
<1>1. ASSUME NEW o \in Operators, Keeps(o), Owner(o)
      PROVE  Owner(o)'
  BY <1>1 DEF Keeps, Owner, Recorded, Done
<1>2. ASSUME NEW o \in Operators, OperatorStep(o), Owner(o)
      PROVE  Owner(o)'
  <2>1. pc'[o] # "idle" /\ ~Ends(o)
    BY <1>2, OwnerStays DEF Ends
  <2>2. started[o] # <<>> /\ pc[o] # "check" /\ Recorded(o) = Elements(started[o])
    BY <1>2, Empty DEF Owner, CommandInv, CommandOk, Recorded, Elements
  <2>3. CASE Proceeds(o) /\ unit' = unit
    <3>1. ASSUME At(o, "unwind")
          PROVE  ~Stopped(Head(rest[o]))
      BY <1>2, <2>3, <3>1, OwnerCleans DEF Stopped, STOPPED_STATES
    <3>2. refusals' # refusals + 1
      BY <1>0
    <3>3. Proceeds(o) =>
            \/ Goes(o, "start", StartSequence(op[o])) \/ Goes(o, "start", Tail(rest[o]))
            \/ Goes(o, "unwind", started[o]) \/ Goes(o, "poll", <<>>)
      BY <1>2, <2>1, <2>2, <3>1, <3>2 DEF Proceeds, At, Owner
    <3>. QED
      BY <1>2, <2>2, <2>3, <3>3 DEF Goes, Owner, Done, Recorded
  <2>4. CASE Records(o)
    <3>1. Recorded(o)' = {Head(rest[o])} \cup Recorded(o)
      <4>1. Head(rest[o]) \in Units /\ started[o] \in Seq(Units)
        BY <2>4, WorkUnit DEF TypeOK
      <4>2. started'[o] = <<Head(rest[o])>> \o started[o]
        BY <2>4 DEF Records
      <4>3. Elements(started'[o]) = {Head(rest[o])} \cup Elements(started[o])
        BY <4>1, <4>2, Record
      <4>. QED
        BY <4>3 DEF Recorded, Elements
    <3>. QED
      BY <1>2, <2>4, <3>1 DEF Records, Owner, Done
  <2>5. CASE Requests(o)
    BY <1>2, <2>5 DEF Requests, Goes, Owner, Done, Recorded
  <2>6. CASE Stops(o)
    <3>1. Head(rest[o]) = "deposit-rpc"
      BY <1>2, <2>6, OwnerCleans DEF Stops
    <3>. QED
      BY <2>6, <3>1, Relations, StopEffect DEF Stops, Up
  <2>. QED
    BY <1>2, <2>3, <2>4, <2>5, <2>6, StepEffect
<1>3. ASSUME NEW o \in Operators, Requests(o), Head(rest[o]) = "deposit-rpc"
      PROVE  Owner(o)'
  <2>1. op[o] = "deposit" /\ "deposit-rpc" \in Recorded(o)
    <3>1. "deposit-rpc" \in ToStart(op[o]) \cap Recorded(o)
      BY <1>3, WorkUnit
    <3>. QED
      BY <3>1 DEF ToStart, SummitOf
  <2>. QED
    BY <1>3, <2>1 DEF Requests, Goes, Owner, Done, Recorded
<1>4. ASSUME unit["deposit-rpc"] # "active"
      PROVE  \E o \in Operators : Requests(o) /\ Head(rest[o]) = "deposit-rpc"
  <2>1. ASSUME NEW u \in Units, StartJob(u)
        PROVE  u = "deposit-rpc"
    BY <1>4, <2>1, Relations, StartEffect DEF Up
  <2>2. ASSUME NEW o \in Operators, Records(o) \/ Stops(o)
        PROVE  FALSE
    BY <1>4, <2>2, WorkUnit, Relations, StopEffect DEF Records, Stops, TypeOK, Up
  <2>3. ASSUME UnitStep
        PROVE  FALSE
    BY <1>4, <2>1, <2>3, Relations, UnitEffect, RestartEffect
    DEF UnitStep, AutoRestart, UnitInv
  <2>. QED
    BY <1>4, <2>1, <2>2, <2>3, UnitKinds, WorkUnit DEF Requests
<1>5. ASSUME NEW o \in Operators, Owner(o)
      PROVE  Owner(o)'
  <2>1. CASE UNCHANGED command
    BY <1>1, <1>5, <2>1 DEF command, Keeps
  <2>2. ASSUME NEW c \in Operations, Begin(o, c)
        PROVE  FALSE
    BY <1>5, <2>2, Empty DEF Begin, Owner, CommandInv, CommandOk, Recorded, Elements
  <2>. QED
    BY <1>1, <1>2, <1>5, <2>1, <2>2, Kinds, StepEffect, BeginEffect DEF vars, command
<1>. QED
  BY <1>0, <1>3, <1>4, <1>5 DEF OwnedInv

-----------------------------------------------------------------------------
(* A command that meets no other.                                          *)

\* The ways a command moves without ending.
Moving(o) ==
  \/ Proceeds(o) /\ ~Ends(o) /\ unit' = unit
  \/ Records(o) \/ Requests(o) \/ Stops(o)

\* A command that moves is under way, and goes on with the same operation.
LEMMA MovingIs ==
  ASSUME NEW o \in Operators, Moving(o)
  PROVE  /\ pc[o] # "idle" /\ pc'[o] # "idle" /\ alone' = alone /\ op'[o] = op[o]
         /\ Recorded(o)' = Recorded(o) \/ Records(o)
  BY DEF Moving, Proceeds, Records, Requests, Stops, Goes, At, Done, Starting, Recorded

\* What happens to a command that is alone afterwards.
LEMMA LoneKinds ==
  ASSUME TypeOK, CommandInv, AloneInv, [Next]_vars, NEW p \in alone'
  PROVE  /\ p \in Operators
         /\ \A other \in Operators : other # p => pc'[other] = "idle"
         /\ \/ p \in alone /\ Moving(p)
            \/ \E c \in Operations : Fresh(p, c) /\ UNCHANGED unit
            \/ /\ p \in alone /\ Keeps(p) /\ UNCHANGED refusals
               /\ UnitStep \/ UNCHANGED unit
<1>1. CASE (UnitStep /\ UNCHANGED <<command, refusals, abandoned>>) \/ UNCHANGED vars
  BY <1>1 DEF command, AloneInv, Keeps, TypeOK, vars, bounds
<1>2. ASSUME NEW o \in Operators, OperatorStep(o)
      PROVE  /\ p \in alone /\ p = o /\ Moving(p)
             /\ \A other \in Operators : other # p => pc'[other] = "idle"
  <2>1. Ends(o) \/ Moving(o)
    BY <1>2, StepEffect DEF Moving
  <2>2. pc[o] # "idle" /\ p \in alone /\ (Ends(o) => p # o)
    BY <2>1, MovingIs DEF Ends
  <2>3. p = o /\ \A other \in Operators : other # p => pc[other] = "idle"
    BY <2>2 DEF AloneInv
  <2>. QED
    BY <1>2, <2>1, <2>2, <2>3, StepEffect DEF Keeps
<1>3. ASSUME NEW o \in Operators, NEW c \in Operations, Begin(o, c)
      PROVE  /\ p = o /\ Fresh(p, c) /\ UNCHANGED unit
             /\ \A other \in Operators : other # p => pc'[other] = "idle"
  BY <1>3, BeginEffect DEF Fresh, Keeps
<1>. QED
  BY <1>1, <1>2, <1>3, Kinds

\* A lone command stays the only one.
LEMMA StepAlone ==
  ASSUME TypeOK, CommandInv, AloneInv, [Next]_vars
  PROVE  AloneInv'
<1>. SUFFICES ASSUME NEW p \in alone'
              PROVE  pc'[p] # "idle"
  BY LoneKinds DEF AloneInv
<1>. QED
  BY LoneKinds, MovingIs DEF Fresh, Keeps, AloneInv

\* What it has checked stays stopped.
LEMMA StepCheck ==
  ASSUME TypeOK, CommandInv, AloneInv, CheckInv, [Next]_vars
  PROVE  CheckInv'
<1>. SUFFICES ASSUME NEW p \in alone', op'[p] # "stop", NEW u \in Rivals(op'[p])
              PROVE  \/ Stopped(u)'
                     \/ pc'[p] = "check" /\ u \in Pending(p)'
                     \/ pc'[p] \in Stopping /\ Recorded(p)' = {}
  BY DEF CheckInv, CheckOk, Rivals, ToStart, SummitOf
<1>1. u \in Units /\ u \in KeyStoreOwners /\ u # "reth" /\ p \in Operators
  BY Relations, LoneKinds DEF Rivals
<1>2. ASSUME NEW c \in Operations, Fresh(p, c)
      PROVE  pc'[p] = "check" /\ u \in Pending(p)'
  <2>1. c \in Starts
    BY <1>2, BoundsAssumption DEF Fresh, Starts
  <2>. QED
    <3>1. pc'[p] = "check" /\ rest'[p] = MustBeStopped(c) /\ op'[p] = c
      BY <1>2, <2>1 DEF Fresh, Starts
    <3>2. u \in Elements(rest'[p])
      BY <2>1, <3>1, Loops
    <3>. QED
      BY <3>1, <3>2 DEF Pending, Elements
<1>3. CASE p \in alone /\ Keeps(p) /\ (UnitStep \/ UNCHANGED unit)
  <2>1. \/ Stopped(u)
        \/ pc[p] = "check" /\ u \in Pending(p)
        \/ pc[p] \in Stopping /\ Recorded(p) = {}
    BY <1>3 DEF Keeps, CheckInv, CheckOk
  <2>2. ASSUME Stopped(u), NEW w \in Units, AutoRestart(w)
        PROVE  StartJob(w) /\ u \notin {w} \cup Requires(w)
    BY <1>1, <2>2, Relations DEF AutoRestart, Stopped, STOPPED_STATES
  <2>3. Stopped(u) => Stopped(u)'
    BY <1>1, <1>3, <2>2, StaysStopped DEF UnitStep
  <2>. QED
    BY <1>3, <2>1, <2>3 DEF Keeps, Pending, Recorded, Elements
<1>4. CASE p \in alone /\ Moving(p)
  <2>1. op'[p] = op[p] /\ (Recorded(p)' = Recorded(p) \/ Records(p))
    BY <1>1, <1>4, MovingIs
  <2>2. \/ Stopped(u)
        \/ pc[p] = "check" /\ u \in Pending(p)
        \/ pc[p] \in Stopping /\ Recorded(p) = {}
    BY <1>4, <2>1 DEF CheckInv, CheckOk
  <2>3. Stopped(u) => Stopped(u)'
    <3>1. ASSUME Requests(p)
          PROVE  u \notin {Head(rest[p])} \cup Requires(Head(rest[p]))
      BY <1>1, <2>1, <3>1, WorkUnit, Relations DEF Rivals
    <3>. QED
      BY <1>1, <1>4, <3>1, WorkUnit, StaysStopped DEF Moving, Records, Requests, Stops
  <2>4. ASSUME pc[p] = "check", u \in Pending(p)
        PROVE  \/ Stopped(u)
               \/ pc'[p] = "check" /\ u \in Pending(p)'
               \/ pc'[p] = "unwind" /\ Recorded(p)' = {}
    <3>1. rest[p] # <<>> /\ Recorded(p) = {}
      BY <1>1, <2>4, Empty DEF CommandInv, CommandOk, Pending, Recorded, Elements
    <3>2. /\ ~Done(p, "check") /\ ~Records(p) /\ Recorded(p)' = {}
          /\ Pending(p) = {Head(rest[p])} \cup Elements(Tail(rest[p]))
      BY <1>1, <2>1, <2>4, <3>1, AtUnit DEF Done, Records, At
    <3>3. \/ Stopped(Head(rest[p])) /\ Goes(p, "check", Tail(rest[p]))
          \/ Goes(p, "unwind", started[p])
      BY <1>4, <2>4, <3>2
      DEF Moving, Proceeds, Records, Requests, Stops, At, Done, Starting
    <3>. QED
      BY <2>4, <3>2, <3>3 DEF Goes, Pending, Elements
  <2>5. pc[p] \in Stopping => pc'[p] \in Stopping /\ Recorded(p)' = Recorded(p)
    BY <1>4, <2>1
    DEF Moving, Proceeds, Records, Requests, Stops, Goes, At, Done, Starting, Stopping
  <2>. QED
    BY <2>2, <2>3, <2>4, <2>5 DEF Stopping
<1>. QED
  BY <1>2, <1>3, <1>4, LoneKinds

\* What is handled and not pending is swept.
LEMMA SweptTail ==
  ASSUME TypeOK, NEW o \in Operators, rest[o] # <<>>,
         rest'[o] = Tail(rest[o]), op'[o] = op[o], Recorded(o)' = Recorded(o)
  PROVE  /\ Swept(o)' \subseteq Swept(o) \cup {Head(rest[o])}
         /\ Pending(o)' \subseteq Pending(o)
         /\ Pending(o)' = Elements(Tail(rest[o]))
<1>1. Pending(o)' = Elements(Tail(rest[o])) /\ Handled(o)' = Handled(o)
  BY DEF Pending, Elements, Handled
<1>. QED
  BY <1>1, AtUnit DEF Swept

\* An automatic restart brings back Reth only for a Summit that a cleanup
\* does not stop.
LEMMA RestartSpares ==
  ASSUME TypeOK, CommandInv, NEW o \in Operators, CheckOk(o), SweepOk(o),
         pc[o] \in Stopping, op[o] = "stop" \/ refusals = 0,
         NEW w \in Units, AutoRestart(w), NEW u \in Swept(o), Stopped(u)
  PROVE  u \notin {w} \cup Requires(w) \/ MayReturn(o, u)
<1>1. ~Stopped(w)
  BY DEF AutoRestart, Stopped, STOPPED_STATES
<1>2. ASSUME u \in Requires(w)
      PROVE  MayReturn(o, u)
  <2>1. u = "reth" /\ w \in Summits /\ w \notin Pending(o)
    BY <1>2, Relations DEF SweepOk
  <2>2. w \notin Handled(o)
    BY <1>1, <2>1, Relations DEF SweepOk, Swept, MayReturn
  <2>3. op[o] # "stop" /\ w \notin Recorded(o) /\ "reth" \in Recorded(o)
    BY <2>1, <2>2 DEF Handled, Swept
  <2>4. ToStart(op[o]) = {"custodian", "reth", SummitOf(op[o]), "checkpointer"}
    BY <2>3 DEF CommandInv, CommandOk, ToStart
  <2>5. w \in Rivals(op[o]) => Stopped(w)
    BY <2>3 DEF CheckOk, Stopping
  <2>6. w = SummitOf(op[o])
    BY <1>1, <2>1, <2>4, <2>5, Relations DEF Rivals, Summits
  <2>. QED
    BY <2>1, <2>3, <2>6 DEF MayReturn
<1>. QED
  BY <1>1, <1>2

\* While systemd stops a unit, nothing brings it back.
LEMMA AwaitedStays ==
  ASSUME TypeOK, CommandInv, NEW o \in Operators, SweepOk(o), pc[o] = "await", UnitStep
  PROVE  /\ unit'[Head(rest[o])] \in STOPPED_STATES \cup {"deactivating"}
         /\ Head(rest[o]) = "reth" => \A s \in Summits : unit'[s] \notin Up
<1>1. /\ Head(rest[o]) \in Units
      /\ unit[Head(rest[o])] \in STOPPED_STATES \cup {"deactivating"}
      /\ Head(rest[o]) = "reth" => \A s \in Summits : unit[s] \notin Up
  BY AtUnit DEF SweepOk, CommandInv, CommandOk, Stopping, Up
<1>2. /\ STOPPED_STATES \cap Up = {} /\ "deactivating" \notin Up
      /\ "inactive" \in STOPPED_STATES
  BY DEF STOPPED_STATES, Up
<1>3. ASSUME NEW w \in Units, AutoRestart(w)
      PROVE  /\ unit'[Head(rest[o])] = unit[Head(rest[o])]
             /\ Head(rest[o]) = "reth" => \A s \in Summits : unit'[s] = unit[s]
  <2>1. unit[w] \in Up /\ StartJob(w)
    BY <1>3 DEF AutoRestart, Up
  <2>2. /\ Head(rest[o]) \notin {w} \cup Requires(w)
        /\ Head(rest[o]) = "reth" => \A s \in Summits : s \notin {w} \cup Requires(w)
    BY <1>1, <1>2, <2>1, Relations
  <2>. QED
    BY <1>1, <1>2, <2>1, <2>2, Relations, StartEffect
<1>4. ASSUME NEW w \in Units, Exit(w) \/ RestartDependents(w) \/ StopDone(w)
      PROVE  /\ unit'[Head(rest[o])] \in STOPPED_STATES \cup {"deactivating"}
             /\ Head(rest[o]) = "reth" => \A s \in Summits : unit'[s] \notin Up
  <2>1. /\ unit[Head(rest[o])] \notin Up
        /\ Head(rest[o]) = "reth" => \A s \in Summits : s \in Units
    BY <1>1, <1>2, Relations
  <2>2. CASE RestartDependents(w)
    BY <1>1, <2>1, <2>2, RestartEffect DEF Up
  <2>3. CASE Exit(w) \/ StopDone(w)
    <3>1. \A v \in Units : unit'[v] \in Up => unit[v] \in Up
      BY <2>3, UnitEffect
    <3>2. \/ unit'[Head(rest[o])] = unit[Head(rest[o])]
          \/ unit'[Head(rest[o])] = "inactive"
      BY <1>1, <2>3, UnitEffect
    <3>. QED
      BY <1>1, <1>2, <2>1, <3>1, <3>2
  <2>. QED
    BY <1>4, <2>2, <2>3
<1>. QED
  BY <1>1, <1>3, <1>4 DEF UnitStep

\* What a lone command has stopped stays stopped.
LEMMA StepSweep ==
  ASSUME TypeOK, CommandInv, OrderInv, AloneInv, CheckInv, SweepInv, [Next]_vars
  PROVE  SweepInv'
<1>. SUFFICES ASSUME NEW p \in alone'
              PROVE  SweepOk(p)'
  BY DEF SweepInv
<1>0. /\ p \in Operators
      /\ refusals' = 0 => refusals = 0
  BY LoneKinds, Monotone
<1>1. ASSUME NEW c \in Operations, Fresh(p, c)
      PROVE  SweepOk(p)'
  <2>1. CASE c = "stop"
    <3>1. pc'[p] = "unwind" /\ op'[p] = "stop" /\ rest'[p] = StopSequence
      BY <1>1, <2>1 DEF Fresh
    <3>2. Pending(p)' = Units /\ Handled(p)' = Units
      BY <3>1, Loops DEF Pending, Elements, Handled
    <3>. QED
      BY <3>1, <3>2 DEF SweepOk, Swept
  <2>2. CASE c # "stop"
    BY <1>1, <2>2 DEF Fresh, SweepOk, Stopping
  <2>. QED
    BY <2>1, <2>2
<1>2. CASE /\ p \in alone /\ Keeps(p) /\ UNCHANGED refusals
           /\ UnitStep \/ UNCHANGED unit
  <2>1. /\ Swept(p)' = Swept(p) /\ Pending(p)' = Pending(p)
        /\ \A u : MayReturn(p, u)' <=> MayReturn(p, u)
        /\ pc'[p] = pc[p] /\ op'[p] = op[p] /\ rest'[p] = rest[p]
    BY <1>2 DEF Keeps, Swept, Handled, Pending, Recorded, Elements, MayReturn
  <2>2. SweepOk(p) /\ CheckOk(p) /\ refusals' = refusals
    BY <1>2 DEF SweepInv, CheckInv
  <2>3. CASE UNCHANGED unit
    BY <2>1, <2>2, <2>3 DEF SweepOk, Stopped
  <2>4. CASE UnitStep
    <3>1. ASSUME pc[p] \in Stopping, op[p] = "stop" \/ refusals = 0, NEW u \in Swept(p)
          PROVE  Stopped(u)' \/ MayReturn(p, u)
      <4>1. u \in Units /\ (Stopped(u) \/ MayReturn(p, u))
        BY <1>0, <2>2, <3>1 DEF SweepOk, Swept, Handled, Recorded, TypeOK
      <4>. QED
        BY <1>0, <2>2, <2>4, <3>1, <4>1, RestartSpares, StaysStopped
        DEF UnitStep, AutoRestart
    <3>2. pc[p] = "await" =>
            /\ unit'[Head(rest[p])] \in STOPPED_STATES \cup {"deactivating"}
            /\ Head(rest[p]) = "reth" => \A s \in Summits : unit'[s] \notin Up
      BY <1>0, <2>2, <2>4, AwaitedStays
    <3>. QED
      BY <1>0, <2>1, <2>2, <3>1, <3>2 DEF SweepOk
  <2>. QED
    BY <1>2, <2>3, <2>4
<1>3. ASSUME p \in alone, Moving(p), pc'[p] \in Stopping
      PROVE  SweepOk(p)'
  <2>1. /\ op'[p] = op[p] /\ Recorded(p)' = Recorded(p)
        /\ \A u : MayReturn(p, u)' <=> MayReturn(p, u)
    <3>1. op'[p] = op[p] /\ Recorded(p)' = Recorded(p)
      BY <1>0, <1>3, MovingIs DEF Records, Stopping
    <3>. QED
      BY <3>1 DEF MayReturn
  <2>2. /\ SweepOk(p) /\ OrderOk(p) /\ CommandOk(p)
        /\ rest[p] \in Seq(Units) /\ refusals \in Nat
    BY <1>0, <1>3 DEF SweepInv, OrderInv, CommandInv, TypeOK
  <2>3. CASE pc[p] \in Starting \cup {"check", "poll"} /\ Goes(p, "unwind", started[p])
    <3>1. op[p] # "stop" /\ Pending(p)' = Recorded(p)
      BY <2>2, <2>3 DEF CommandOk, Starts, Goes, Pending, Recorded, Elements
    <3>2. Swept(p)' = {}
      BY <2>1, <3>1 DEF Swept, Handled
    <3>. QED
      BY <2>3, <3>2 DEF SweepOk, Goes
  <2>4. ASSUME pc[p] \in Stopping, rest[p] # <<>>, Goes(p, "unwind", Tail(rest[p])),
               unit' = unit,
               \/ Stopped(Head(rest[p])) /\ (refusals' = 0 => refusals = 0)
               \/ op[p] # "stop" /\ refusals' # 0
        PROVE  SweepOk(p)'
    <3>1. /\ Swept(p)' \subseteq Swept(p) \cup {Head(rest[p])}
          /\ Pending(p)' \subseteq Pending(p)
          /\ Pending(p)' = Elements(Tail(rest[p]))
      BY <1>0, <2>1, <2>4, SweptTail DEF Goes
    <3>2. Head(rest[p]) = "reth" => Summits \cap Pending(p)' = {}
      BY <2>2, <2>4, <3>1, LoopOrder DEF OrderOk
    <3>3. "reth" \in Swept(p)' => Summits \cap Pending(p)' = {}
      BY <2>2, <2>4, <3>1, <3>2 DEF SweepOk
    <3>4. (op[p] = "stop" \/ refusals' = 0) =>
            \A u \in Swept(p)' : Stopped(u)' \/ MayReturn(p, u)
      BY <2>2, <2>4, <3>1 DEF SweepOk, Stopped
    <3>. QED
      BY <2>1, <2>4, <3>3, <3>4 DEF SweepOk, Goes
  <2>5. CASE Stops(p)
    <3>1. /\ pc'[p] = "await" /\ rest'[p] = rest[p] /\ pc[p] \in Stopping
          /\ Head(rest[p]) \in Units /\ StopJob(Head(rest[p]))
          /\ ~Stopped(Head(rest[p]))
      BY <1>0, <2>5, WorkUnit DEF Stops, At, Goes, Stopping
    <3>2. Swept(p)' = Swept(p) /\ Pending(p)' = Pending(p) /\ Swept(p) \subseteq Units
      <4>1. Pending(p)' = Pending(p) /\ Handled(p)' = Handled(p)
        BY <2>1, <3>1 DEF Handled, Pending, Elements
      <4>2. Recorded(p) \subseteq Units
        BY <1>0 DEF Recorded, TypeOK
      <4>. QED
        BY <4>1, <4>2 DEF Swept, Handled
    <3>3. unit'[Head(rest[p])] \in STOPPED_STATES \cup {"deactivating"}
      <4>1. unit[Head(rest[p])] \in Up \cup {"deactivating"}
        BY <3>1 DEF TypeOK, UnitStates, TRANSIENT_STATES, Stopped, Up
      <4>. QED
        BY <3>1, <4>1, StopEffect DEF Up, STOPPED_STATES
    <3>4. Head(rest[p]) = "reth" => \A s \in Summits : unit'[s] \notin Up
      BY <3>1, Relations, StopEffect
    <3>5. \A u \in Swept(p) : Stopped(u) => Stopped(u)'
      BY <3>1, <3>2, StaysStopped
    <3>6. op[p] = "stop" \/ refusals' = 0 => op[p] = "stop" \/ refusals = 0
      BY <1>0
    <3>. QED
      BY <1>0, <2>1, <2>2, <3>1, <3>2, <3>3, <3>4, <3>5, <3>6 DEF SweepOk
  <2>6. ~Records(p) /\ ~Requests(p)
    BY <1>3 DEF Records, Requests, Goes, Stopping
  <2>7. ASSUME Proceeds(p), ~Ends(p), unit' = unit
        PROVE  SweepOk(p)'
    <3>1. CASE /\ At(p, "unwind") /\ Stopped(Head(rest[p]))
               /\ Goes(p, "unwind", Tail(rest[p]))
      BY <1>0, <2>4, <2>7, <3>1 DEF At, Stopping
    <3>2. CASE /\ At(p, "unwind") /\ op[p] # "stop" /\ refusals' = refusals + 1
               /\ Goes(p, "unwind", Tail(rest[p]))
      BY <2>2, <2>4, <2>7, <3>2 DEF At, Stopping
    <3>3. CASE /\ pc[p] = "await" /\ rest[p] # <<>>
               /\ unit[Head(rest[p])] # "deactivating"
               /\ Goes(p, "unwind", Tail(rest[p]))
      <4>1. Stopped(Head(rest[p]))
        BY <2>2, <3>3 DEF SweepOk, Stopped, Stopping
      <4>. QED
        BY <1>0, <2>4, <2>7, <3>3, <4>1 DEF Stopping
    <3>4. CASE \/ Goes(p, "check", Tail(rest[p])) \/ Goes(p, "start", StartSequence(op[p]))
               \/ Goes(p, "start", Tail(rest[p])) \/ Goes(p, "poll", <<>>)
      BY <1>3, <3>4 DEF Goes, Stopping
    <3>. QED
      BY <2>3, <2>7, <3>1, <3>2, <3>3, <3>4 DEF Proceeds
  <2>. QED
    BY <1>3, <2>5, <2>6, <2>7 DEF Moving
<1>4. ASSUME p \in alone, Moving(p), pc'[p] \notin Stopping
      PROVE  SweepOk(p)'
  BY <1>4 DEF SweepOk
<1>. QED
  BY <1>1, <1>2, <1>3, <1>4, LoneKinds

-----------------------------------------------------------------------------
(* The theorems.                                                           *)

\* The invariant holds at first.
LEMMA Initially == Init => IndInv
<1>. SUFFICES ASSUME Init PROVE IndInv
  OBVIOUS
<1>1. TypeOK
  <2>1. 0 \in 0 .. MaxExits /\ 0 \in 0 .. MaxRefusals /\ 0 \in 0 .. MaxInterrupts
    BY BoundsAssumption
  <2>2. <<>> \in Seq(Units) /\ "inactive" \in UnitStates /\ "idle" \in Pcs
    BY Empty DEF Pcs, UnitStates, STOPPED_STATES
  <2>3. unit \in [Units -> UnitStates]
    BY <2>2 DEF Init
  <2>. QED
    BY <2>1, <2>2, <2>3 DEF Init, TypeOK
<1>2. \A o \in Operators : Recorded(o) = {} /\ Pending(o) = {} /\ pc[o] = "idle"
                           /\ op[o] = "none" /\ started[o] = <<>>
  BY Empty DEF Init, Recorded, Pending, Elements
<1>3. CommandInv
  BY <1>2 DEF CommandInv, CommandOk, Starting, Stopping
<1>4. OrderInv
  <2>1. \A A, B : NoneBefore(A, B, <<>>)
    BY DEF NoneBefore
  <2>. QED
    BY <1>2, <2>1 DEF OrderInv, OrderOk, Starting, Stopping
<1>5. UnitInv /\ OwnedInv
  BY Relations DEF Init, UnitInv, OwnedInv, Up
<1>6. AloneInv /\ CheckInv /\ SweepInv
  BY DEF Init, AloneInv, CheckInv, SweepInv
<1>. QED
  BY <1>1, <1>3, <1>4, <1>5, <1>6 DEF IndInv

\* Every state the units and the commands can be in satisfies IndInv.
THEOREM Invariance == Spec => []IndInv
<1>1. IndInv /\ [Next]_vars => IndInv'
  BY StepType, StepCommand, StepUnits, StepOwned, StepAlone, StepCheck, StepSweep
  DEF IndInv
<1>. QED
  BY <1>1, Initially, PTL DEF Spec

\* The variables keep their types.
THEOREM TypeCorrectness == Spec => []TypeOK
<1>1. IndInv => TypeOK
  BY DEF IndInv
<1>. QED
  BY <1>1, Invariance, PTL

\* A deposit RPC that runs has a command that will stop it, however many
\* operators there are (validator.py: "always stop it").
THEOREM DepositRpcIsOwnedThm == Spec => []DepositRpcIsOwned
<1>1. IndInv => DepositRpcIsOwned
  BY DEF IndInv, OwnedInv, Owner, DepositRpcIsOwned
<1>. QED
  BY <1>1, Invariance, PTL

\* The keys have one user (start_node, generate_deposit_signature).
THEOREM KeysAreExclusiveThm == Spec => []KeysAreExclusive
<1>1. ASSUME IndInv, NEW o \in alone, op[o] # "stop",
             NEW u \in Recorded(o) \cap KeyStoreOwners,
             NEW v \in KeyStoreOwners \ {u}
      PROVE  Stopped(v)
  <2>1. CommandOk(o) /\ CheckOk(o)
    BY <1>1 DEF IndInv, CommandInv, CheckInv, TypeOK
  <2>2. u \in ToStart(op[o]) /\ Recorded(o) # {} /\ pc[o] # "check"
    BY <1>1, <2>1, Empty DEF CommandOk, Recorded, Elements
  <2>3. v \in Rivals(op[o])
    BY <1>1, <2>2 DEF Rivals, ToStart, SummitOf, KeyStoreOwners
  <2>. QED
    BY <1>1, <2>1, <2>2, <2>3 DEF CheckOk
<1>2. IndInv => KeysAreExclusive
  BY <1>1 DEF KeysAreExclusive
<1>. QED
  BY <1>2, Invariance, PTL

\* What is swept when a cleanup or a stop is done.
LEMMA AtEnd ==
  ASSUME IndInv, NEW o \in alone, Done(o, "unwind")
  PROVE  /\ op[o] = "stop" \/ refusals = 0 =>
              \A u \in Handled(o) : Stopped(u) \/ MayReturn(o, u)
<1>1. Swept(o) = Handled(o)
  BY DEF Done, Swept, Pending, Elements
<1>. QED
  BY <1>1 DEF IndInv, SweepInv, SweepOk, Done, Stopping

\* A failed start leaves nothing behind (start_node's except clause).
THEOREM UnwoundStartThm == Spec => []UnwoundStart
<1>1. IndInv => UnwoundStart
  BY AtEnd DEF UnwoundStart, Handled, MayReturn
<1>. QED
  BY <1>1, Invariance, PTL

\* A finished stop leaves nothing behind (stop_node).
THEOREM NodeStoppedThm == Spec => []NodeStopped
<1>1. IndInv => NodeStopped
  BY AtEnd DEF NodeStopped, Handled, MayReturn
<1>. QED
  BY <1>1, Invariance, PTL

\* Who is it that takes a running unit down.
LEMMA TakesDown ==
  ASSUME IndInv, [Next]_vars, NEW o \in alone,
         NEW u \in Units, unit[u] = "active", unit'[u] = "deactivating"
  PROVE  \/ Requests(o) /\ u \in Conflicts(Head(rest[o]))
         \/ Stops(o) /\ u \in {Head(rest[o])} \cup RequiredBy(Head(rest[o]))
<1>0. TypeOK /\ CommandInv /\ UnitInv /\ AloneInv
  BY DEF IndInv
<1>1. ASSUME NEW w \in Units, StartJob(w)
      PROVE  u \in Conflicts(w)
  BY <1>0, <1>1, StartEffect DEF Up
<1>2. ASSUME NEW w \in Units, AutoRestart(w)
      PROVE  FALSE
  <2>1. u \in Conflicts(w) /\ unit[w] = "activating"
    BY <1>1, <1>2 DEF AutoRestart
  <2>2. u \in KeyStoreOwners /\ w \in KeyStoreOwners /\ u # w
    BY <2>1, Relations
  <2>. QED
    BY <1>0, <2>1, <2>2 DEF UnitInv, Up
<1>3. ASSUME NEW w \in Units, Exit(w) \/ RestartDependents(w) \/ StopDone(w)
      PROVE  FALSE
  BY <1>0, <1>3, UnitEffect, RestartEffect
<1>4. ASSUME NEW p \in Operators, Records(p)
      PROVE  FALSE
  BY <1>0, <1>4, WorkUnit DEF Records, TypeOK
<1>5. ASSUME NEW p \in Operators, Requests(p) \/ Stops(p)
      PROVE  p = o
  BY <1>0, <1>5, MovingIs DEF Moving, AloneInv
<1>6. ASSUME Requests(o)
      PROVE  u \in Conflicts(Head(rest[o]))
  BY <1>0, <1>1, <1>6, WorkUnit DEF Requests, TypeOK
<1>7. ASSUME Stops(o)
      PROVE  u \in {Head(rest[o])} \cup RequiredBy(Head(rest[o]))
  BY <1>0, <1>7, WorkUnit, StopEffect DEF Stops, TypeOK, Up
<1>. QED
  BY <1>0, <1>2, <1>3, <1>4, <1>5, <1>6, <1>7, UnitKinds DEF UnitStep

\* A start takes no running unit down by Conflicts= (start_node).
THEOREM StartStopsNothingThm == Spec => StartStopsNothing
<1>1. ASSUME IndInv, [Next]_vars, NEW o \in alone, op[o] # "stop",
             pc[o] \notin {"unwind", "await"}, NEW u \in Units,
             unit[u] = "active", unit'[u] = "deactivating"
      PROVE  FALSE
  <2>1. Requests(o) /\ u \in Conflicts(Head(rest[o])) /\ o \in Operators
    BY <1>1, TakesDown DEF Stops, At, IndInv, TypeOK
  <2>2. Head(rest[o]) \in ToStart(op[o])
    BY <1>1, <2>1, WorkUnit DEF IndInv
  <2>3. u \in Rivals(op[o])
    BY <2>1, <2>2, Relations DEF Rivals, ToStart, SummitOf, KeyStoreOwners
  <2>. QED
    BY <1>1, <2>1, <2>3
    DEF IndInv, CheckInv, CheckOk, Requests, Stopping, Stopped, STOPPED_STATES
<1>2. IndInv /\ [Next]_vars =>
        [\A o \in alone : op[o] # "stop" /\ pc[o] \notin {"unwind", "await"} =>
           \A u \in Units : ~(unit[u] = "active" /\ unit'[u] = "deactivating")]_vars
  BY <1>1
<1>. QED
  BY <1>2, Invariance, PTL DEF Spec, StartStopsNothing

\* stop_node stops Reth under no Summit (README.md: "A stop failure aborts
\* before lower-level dependencies are stopped").
THEOREM RethStopsLastThm == Spec => RethStopsLast
<1>1. ASSUME IndInv, [Next]_vars, NEW o \in alone, op[o] = "stop",
             unit["reth"] = "active", unit'["reth"] = "deactivating",
             NEW u \in RequiredBy("reth")
      PROVE  Stopped(u)
  <2>1. TypeOK /\ CommandInv /\ OrderInv /\ SweepInv /\ o \in Operators
    BY <1>1 DEF IndInv, TypeOK
  <2>2. ~Requests(o)
    BY <1>1, <2>1 DEF Requests, CommandInv, CommandOk, Starting, Starts
  <2>3. Stops(o) /\ Head(rest[o]) = "reth"
    BY <1>1, <2>2, TakesDown, Relations DEF Summits
  <2>4. /\ rest[o] \in Seq(Units) /\ rest[o] # <<>>
        /\ NoneBefore({"reth"}, Summits, rest[o])
        /\ Pending(o) = {"reth"} \cup Elements(Tail(rest[o]))
    BY <2>1, <2>3, AtUnit DEF Stops, At, OrderInv, OrderOk, Stopping, TypeOK
  <2>5. Summits \cap Pending(o) = {}
    BY <2>3, <2>4, LoopOrder, Relations
  <2>6. u \in Swept(o) /\ u # "reth"
    BY <1>1, <2>5, Relations DEF Swept, Handled
  <2>. QED
    BY <1>1, <2>1, <2>3, <2>6
    DEF SweepInv, SweepOk, Stops, At, Stopping, MayReturn
<1>2. IndInv /\ [Next]_vars =>
        [\A o \in alone : op[o] = "stop" =>
           (unit["reth"] = "active" /\ unit'["reth"] = "deactivating" =>
              \A u \in RequiredBy("reth") : Stopped(u))]_vars
  BY <1>1
<1>. QED
  BY <1>2, Invariance, PTL DEF Spec, RethStopsLast

-----------------------------------------------------------------------------
(* Who takes units down, with any number of operators at once.             *)

\* The command that asks for it.
TakenDownBy(o, u) ==
  \/ /\ pc[o] = "request"
     /\ {u, Head(rest[o])} \subseteq KeyStoreOwners /\ u # Head(rest[o])
  \/ /\ At(o, "unwind")
     /\ u \in {Head(rest[o])} \cup RequiredBy(Head(rest[o]))
     /\ op[o] # "stop" => Head(rest[o]) \in Recorded(o)

\* A running unit is stopped for good by a command's request only: an owner
\* of the validator's keys by the start of another one (Conflicts=), any other
\* unit by a stop, or by the cleanup of a command that recorded its start or
\* that of the Reth it requires (start_node's except clause).  The one thing
\* systemd does to a running unit by itself is to restart a Summit with a Reth
\* that failed, and what is restarted comes back unless a command stops it.
THEOREM OnlyCommandsTakeDown ==
  Spec => [][\A u \in Units :
               /\ unit[u] \in Up /\ unit'[u] = "deactivating" =>
                    \E o \in Operators : TakenDownBy(o, u)
               /\ unit[u] = "active" /\ unit'[u] = "restarting" =>
                    u \in RequiredBy("reth") /\ unit["reth"] = "activating"
               /\ unit[u] = "restarting" =>
                    unit'[u] \in {"restarting", "activating", "deactivating"}]_vars
<1>1. ASSUME IndInv, [Next]_vars,
             NEW u \in Units, unit[u] \in Up, unit'[u] = "deactivating"
      PROVE  \E o \in Operators : TakenDownBy(o, u)
  <2>0. TypeOK /\ CommandInv /\ UnitInv
    BY <1>1 DEF IndInv
  <2>1. ASSUME NEW w \in Units, StartJob(w)
        PROVE  {u, w} \subseteq KeyStoreOwners /\ u # w
    <3>1. u \in Conflicts(w)
      BY <1>1, <2>0, <2>1, StartEffect
    <3>. QED
      BY <3>1, Relations
  <2>2. ASSUME NEW w \in Units, AutoRestart(w)
        PROVE  FALSE
    <3>1. StartJob(w) /\ unit[w] \in Up
      BY <2>2 DEF AutoRestart, Up
    <3>. QED
      BY <1>1, <2>0, <2>1, <3>1 DEF UnitInv
  <2>3. ASSUME NEW w \in Units, Exit(w) \/ RestartDependents(w) \/ StopDone(w)
        PROVE  FALSE
    BY <1>1, <2>0, <2>3, UnitEffect, RestartEffect DEF Up
  <2>4. ASSUME NEW o \in Operators, Records(o)
        PROVE  FALSE
    BY <1>1, <2>0, <2>4, WorkUnit DEF Records, TypeOK, Up
  <2>5. ASSUME NEW o \in Operators, Requests(o)
        PROVE  TakenDownBy(o, u)
    BY <2>0, <2>1, <2>5, WorkUnit DEF Requests, TakenDownBy
  <2>6. ASSUME NEW o \in Operators, Stops(o)
        PROVE  TakenDownBy(o, u)
    <3>1. u \in {Head(rest[o])} \cup RequiredBy(Head(rest[o]))
      BY <1>1, <2>0, <2>6, WorkUnit, StopEffect DEF Stops
    <3>2. op[o] # "stop" => Head(rest[o]) \in Recorded(o)
      BY <2>0, <2>6, WorkUnit DEF Stops, At, CommandInv, CommandOk, Stopping
    <3>. QED
      BY <2>6, <3>1, <3>2 DEF Stops, TakenDownBy
  <2>7. ~UNCHANGED unit
    BY <1>1 DEF Up
  <2>. QED
    BY <2>0, <1>1, <2>2, <2>3, <2>4, <2>5, <2>6, <2>7, UnitKinds DEF UnitStep
<1>2. ASSUME IndInv, [Next]_vars, NEW u \in Units
      PROVE  /\ unit[u] = "active" /\ unit'[u] = "restarting" =>
                  u \in RequiredBy("reth") /\ unit["reth"] = "activating"
             /\ unit[u] = "restarting" =>
                  unit'[u] \in {"restarting", "activating", "deactivating"}
  <2> DEFINE Spared == /\ unit'[u] = "restarting" => unit[u] = "restarting"
                       /\ unit[u] = "restarting" =>
                            unit'[u] \in {"restarting", "activating", "deactivating"}
  <2>0. TypeOK /\ CommandInv
    BY <1>2 DEF IndInv
  <2>1. ASSUME NEW o \in Operators, Records(o)
        PROVE  Spared
    BY <2>0, <2>1, WorkUnit, JobEffect DEF Records, Stopped, STOPPED_STATES
  <2>2. ASSUME NEW o \in Operators, Requests(o)
        PROVE  Spared
    BY <2>0, <2>2, WorkUnit, JobEffect DEF Requests, Moves, TRANSIENT_STATES
  <2>3. ASSUME NEW o \in Operators, Stops(o)
        PROVE  Spared
    BY <2>0, <2>3, WorkUnit, JobEffect DEF Stops
  <2>4. ASSUME NEW w \in Units, AutoRestart(w)
        PROVE  Spared
    BY <2>0, <2>4, JobEffect DEF AutoRestart, Moves, TRANSIENT_STATES
  <2>5. ASSUME NEW w \in Units, Exit(w) \/ StopDone(w)
        PROVE  Spared
    <3>1. unit'[w] # "restarting"
      BY <2>0, <2>5 DEF Exit, StopDone, TypeOK, STOPPED_STATES
    <3>. QED
      BY <2>0, <2>5, <3>1, UnitEffect
  <2>6. ASSUME NEW w \in Units, RestartDependents(w)
        PROVE  \/ Spared
               \/ u \in Summits /\ unit["reth"] = "activating" /\ unit[u] = "active"
    BY <2>0, <2>6, RestartEffect
  <2>7. \/ Spared
        \/ u \in Summits /\ unit["reth"] = "activating" /\ unit[u] = "active"
    BY <2>0, <1>2, <2>1, <2>2, <2>3, <2>4, <2>5, <2>6, UnitKinds DEF UnitStep
  <2>. QED
    BY <2>7, Relations
<1>3. IndInv /\ [Next]_vars =>
        [\A u \in Units :
           /\ unit[u] \in Up /\ unit'[u] = "deactivating" =>
                \E o \in Operators : TakenDownBy(o, u)
           /\ unit[u] = "active" /\ unit'[u] = "restarting" =>
                u \in RequiredBy("reth") /\ unit["reth"] = "activating"
           /\ unit[u] = "restarting" =>
                unit'[u] \in {"restarting", "activating", "deactivating"}]_vars
  BY <1>1, <1>2
<1>. QED
  BY <1>3, Invariance, PTL DEF Spec

\* However many starts and deposit commands overlap: while one program runs on
\* the validator's keys, each of the others is stopped or has been told to
\* stop, and none will be restarted (the unit files' Conflicts=, where
\* require_stopped has raced).  One that has been told may hold the keys for
\* up to its TimeoutStopSec=, as Conflicts= orders nothing: that two processes
\* never have them is KeysAreExclusive's, for commands that meet no other.
THEOREM RivalsAreStopped ==
  Spec => [](\A u, v \in KeyStoreOwners :
               u # v /\ unit[u] = "active" =>
                 unit[v] \in STOPPED_STATES \cup {"deactivating"})
<1>1. ASSUME IndInv, NEW u \in KeyStoreOwners, NEW v \in KeyStoreOwners, u # v,
             unit[u] = "active"
      PROVE  unit[v] \in STOPPED_STATES \cup {"deactivating"}
  <2>1. unit[v] \notin Up
    BY <1>1 DEF IndInv, UnitInv, Up
  <2>2. unit[v] \in UnitStates
    BY <1>1, Relations DEF IndInv, TypeOK
  <2>. QED
    BY <2>1, <2>2 DEF UnitStates, TRANSIENT_STATES, Up
<1>2. IndInv => \A u, v \in KeyStoreOwners :
                  u # v /\ unit[u] = "active" =>
                    unit[v] \in STOPPED_STATES \cup {"deactivating"}
  BY <1>1
<1>. QED
  BY <1>2, Invariance, PTL

-----------------------------------------------------------------------------
(* That commands come to an end.                                           *)

\* How many steps o's command has left at most.
Left(n, s) == [idle    |-> 0,                 check   |-> n + 24,
               start   |-> 5 * n + 2 * s + 3, request |-> 5 * n + 2 * s,
               confirm |-> 5 * n + 2 * s - 1, poll    |-> 2 * s + 2,
               unwind  |-> 2 * n + 1,         await   |-> 2 * n]

Remaining(o) == Left(Len(rest[o]), Len(started[o]))[pc[o]]

\* The loops are short.
LEMMA Lengths ==
  /\ Len(StopSequence) = 6
  /\ \A c \in Starts : Len(MustBeStopped(c)) \in 0 .. 6 /\ Len(StartSequence(c)) \in 0 .. 4
<1>1. Len(StopSequence) = 6
  BY DEF StopSequence
<1>2. ASSUME NEW c \in Starts
      PROVE  Len(MustBeStopped(c)) \in 0 .. 6
  BY DEF MustBeStopped
<1>3. ASSUME NEW c \in Starts
      PROVE  Len(StartSequence(c)) \in 0 .. 4
  <2>1. CASE c = "deposit"
    BY <2>1 DEF StartSequence
  <2>2. CASE c # "deposit"
    <3>. DEFINE a == <<"custodian", "reth", SummitOf(c)>>
                b == IF CheckpointerEnabled THEN <<"checkpointer">> ELSE <<>>
    <3>1. a \in Seq(Units) /\ b \in Seq(Units)
      <4>1. SummitOf(c) \in Units
        BY DEF SummitOf, Units, KeyStoreOwners
      <4>2. {"custodian", "reth", "checkpointer"} \subseteq Units
        BY DEF Units
      <4>. QED
        BY <4>1, <4>2
    <3>2. Len(a) = 3 /\ Len(b) \in 0 .. 1
      OBVIOUS
    <3>3. StartSequence(c) = a \o b
      BY <2>2 DEF StartSequence
    <3>. HIDE DEF a, b
    <3>4. Len(a \o b) = Len(a) + Len(b)
      BY <3>1, ConcatProperties
    <3>. QED
      BY <3>2, <3>3, <3>4
  <2>. QED
    BY <2>1, <2>2
<1>. QED
  BY <1>1, <1>2, <1>3

\* The table, read at a place where n units of the loop are left and s starts
\* are recorded.
Counted(o, n, s) ==
  Len(rest[o]) = n /\ Len(started[o]) = s =>
    /\ pc[o] = "idle"    => Remaining(o) = 0
    /\ pc[o] = "check"   => Remaining(o) = n + 24
    /\ pc[o] = "start"   => Remaining(o) = 5 * n + 2 * s + 3
    /\ pc[o] = "request" => Remaining(o) = 5 * n + 2 * s
    /\ pc[o] = "confirm" => Remaining(o) = 5 * n + 2 * s - 1
    /\ pc[o] = "poll"    => Remaining(o) = 2 * s + 2
    /\ pc[o] = "unwind"  => Remaining(o) = 2 * n + 1
    /\ pc[o] = "await"   => Remaining(o) = 2 * n

AllCounted == \A o \in Operators, n, s \in Nat : Counted(o, n, s)

\* It says what is left.
LEMMA RemainingIs == AllCounted
<1> SUFFICES ASSUME NEW o \in Operators, NEW n \in Nat, NEW s \in Nat,
                    Len(rest[o]) = n, Len(started[o]) = s
             PROVE  Counted(o, n, s)
  BY DEF AllCounted, Counted
<1>. USE DEF Remaining, Left
<1>1. pc[o] = "idle" => Remaining(o) = 0
  OBVIOUS
<1>2. pc[o] = "check" => Remaining(o) = n + 24
  OBVIOUS
<1>3. pc[o] = "start" => Remaining(o) = 5 * n + 2 * s + 3
  OBVIOUS
<1>4. pc[o] = "request" => Remaining(o) = 5 * n + 2 * s
  OBVIOUS
<1>5. pc[o] = "confirm" => Remaining(o) = 5 * n + 2 * s - 1
  OBVIOUS
<1>6. pc[o] = "poll" => Remaining(o) = 2 * s + 2
  OBVIOUS
<1>7. pc[o] = "unwind" => Remaining(o) = 2 * n + 1
  OBVIOUS
<1>8. pc[o] = "await" => Remaining(o) = 2 * n
  OBVIOUS
<1>. HIDE DEF Remaining, Left
<1>. QED
  BY <1>1, <1>2, <1>3, <1>4, <1>5, <1>6, <1>7, <1>8 DEF Counted

\* The loops are finite.
LEMMA FiniteLoops ==
  ASSUME TypeOK, NEW o \in Operators
  PROVE  /\ Len(rest[o]) \in Nat /\ Len(started[o]) \in Nat /\ pc[o] \in Pcs
         /\ rest[o] # <<>> =>
              /\ Len(rest[o]) > 0 /\ Len(Tail(rest[o])) = Len(rest[o]) - 1
              /\ Len(<<Head(rest[o])>> \o started[o]) = Len(started[o]) + 1
         /\ Len(<<>>) = 0
<1>1. rest[o] \in Seq(Units) /\ started[o] \in Seq(Units) /\ pc[o] \in Pcs
  BY DEF TypeOK
<1>2. ASSUME rest[o] # <<>>
      PROVE  /\ Len(rest[o]) > 0 /\ Len(Tail(rest[o])) = Len(rest[o]) - 1
             /\ Len(<<Head(rest[o])>> \o started[o]) = Len(started[o]) + 1
  <2>1. /\ Head(rest[o]) \in Units /\ Len(rest[o]) \in Nat \ {0}
        /\ Len(Tail(rest[o])) = Len(rest[o]) - 1
    BY <1>1, <1>2, HeadTailProperties, EmptySeq
  <2>2. <<Head(rest[o])>> \in Seq(Units) /\ Len(<<Head(rest[o])>>) = 1
    BY <2>1
  <2>. QED
    BY <1>1, <2>1, <2>2, ConcatProperties
<1>. QED
  BY <1>1, <1>2, LenProperties

\* What is left is counted.
LEMMA RemainingType ==
  TypeOK /\ CommandInv => \A o \in Operators :
    Remaining(o) \in Nat /\ (Remaining(o) = 0 <=> pc[o] = "idle")
<1>1. ASSUME TypeOK, CommandInv, NEW o \in Operators
      PROVE  Remaining(o) \in Nat /\ (Remaining(o) = 0 <=> pc[o] = "idle")
  <2>. DEFINE n == Len(rest[o])
              s == Len(started[o])
  <2>1. /\ n \in Nat /\ s \in Nat /\ pc[o] \in Pcs
        /\ pc[o] \in {"request", "confirm", "await"} => n > 0
    BY <1>1, FiniteLoops DEF CommandInv, CommandOk
  <2>2. Counted(o, n, s)
    BY <1>1, <2>1, RemainingIs DEF AllCounted
  <2>3. Len(rest[o]) = n /\ Len(started[o]) = s
    OBVIOUS
  <2>. HIDE DEF n, s
  <2>4. CASE pc[o] \in {"idle", "check", "poll"}
    BY <2>1, <2>2, <2>3, <2>4 DEF Counted
  <2>5. CASE pc[o] = "start"
    BY <2>1, <2>2, <2>3, <2>5 DEF Counted
  <2>6. CASE pc[o] = "request"
    <3>1. Remaining(o) = 5 * n + 2 * s /\ n > 0
      BY <2>1, <2>2, <2>3, <2>6 DEF Counted
    <3>. QED
      BY <2>1, <2>6, <3>1
  <2>7. CASE pc[o] = "confirm"
    <3>1. Remaining(o) = 5 * n + 2 * s - 1 /\ n > 0
      BY <2>1, <2>2, <2>3, <2>7 DEF Counted
    <3>. QED
      BY <2>1, <2>7, <3>1
  <2>8. CASE pc[o] = "unwind"
    BY <2>1, <2>2, <2>3, <2>8 DEF Counted
  <2>9. CASE pc[o] = "await"
    <3>1. Remaining(o) = 2 * n /\ n > 0
      BY <2>1, <2>2, <2>3, <2>9 DEF Counted
    <3>. QED
      BY <2>1, <2>9, <3>1
  <2>10. pc[o] \in Pcs
    BY <2>1
  <2>. QED
    BY <2>4, <2>5, <2>6, <2>7, <2>8, <2>9, <2>10 DEF Pcs
<1>. QED
  BY <1>1

\* Every step of a command, refusal or Ctrl-C brings it closer to its end.
LEMMA StepRemaining ==
  ASSUME TypeOK, CommandInv, NEW o \in Operators, OperatorStep(o)
  PROVE  Remaining(o)' < Remaining(o)
<1>. DEFINE n == Len(rest[o])
            s == Len(started[o])
<1>1. /\ n \in Nat /\ s \in Nat /\ pc[o] \in Pcs
      /\ rest[o] # <<>> => n > 0 /\ Len(Tail(rest[o])) = n - 1
      /\ rest[o] # <<>> => Len(<<Head(rest[o])>> \o started[o]) = s + 1
      /\ Len(<<>>) = 0
  BY FiniteLoops
<1>2. Counted(o, n, s)
  BY <1>1, RemainingIs DEF AllCounted
<1>3. \A m, t \in Nat : Counted(o, m, t)'
  <2>1. AllCounted'
    BY RemainingIs, PTL
  <2>. QED
    BY <2>1 DEF AllCounted
<1>. USE DEF At, Done
<1>4. CASE Ends(o)
  <2>1. Remaining(o)' = 0
    BY <1>3, <1>4, <1>1 DEF Ends, Counted
  <2>. QED
    BY <1>4, <2>1, RemainingType DEF Ends
<1>5. CASE At(o, "check") /\ Goes(o, "check", Tail(rest[o]))
  <2>1. Len(rest'[o]) = n - 1 /\ Len(started'[o]) = s /\ n - 1 \in Nat
    BY <1>1, <1>5 DEF Goes
  <2>2. Remaining(o)' = (n - 1) + 24 /\ Remaining(o) = n + 24
    BY <1>1, <1>2, <1>3, <1>5, <2>1 DEF Goes, Counted
  <2>. QED
    BY <1>1, <2>2
<1>6. CASE Done(o, "check") /\ Goes(o, "start", StartSequence(op[o]))
  <2>1. op[o] \in Starts /\ started[o] = <<>>
    BY <1>6 DEF CommandInv, CommandOk
  <2>2. PICK m \in 0 .. 4 : Len(StartSequence(op[o])) = m
    BY <2>1, Lengths
  <2>3. Remaining(o)' = 5 * m + 2 * 0 + 3 /\ Remaining(o) = 0 + 24
    <3>1. Len(rest'[o]) = m /\ Len(started'[o]) = 0 /\ n = 0
      BY <1>1, <1>6, <2>1, <2>2 DEF Goes
    <3>. QED
      BY <1>1, <1>2, <1>3, <1>6, <3>1 DEF Goes, Counted
  <2>. QED
    BY <2>3
<1>7. CASE pc[o] \in {"start", "confirm"} /\ rest[o] # <<>> /\ Goes(o, "start", Tail(rest[o]))
  <2>1. Len(rest'[o]) = n - 1 /\ Len(started'[o]) = s /\ n - 1 \in Nat
    BY <1>1, <1>7 DEF Goes
  <2>2. Remaining(o)' = 5 * (n - 1) + 2 * s + 3
    BY <1>1, <1>3, <1>7, <2>1 DEF Goes, Counted
  <2>3. Remaining(o) \in {5 * n + 2 * s + 3, 5 * n + 2 * s - 1}
    BY <1>2, <1>7 DEF Counted
  <2>. HIDE DEF n, s
  <2>. QED
    BY <1>1, <2>2, <2>3
<1>8. CASE pc[o] \in Starting \cup {"check", "poll"} /\ Goes(o, "unwind", started[o])
  <2>1. /\ pc[o] = "check" => s = 0
        /\ pc[o] \in {"request", "confirm"} => n > 0
    BY <1>1 DEF CommandInv, CommandOk
  <2>2. Remaining(o)' = 2 * s + 1
    BY <1>1, <1>3, <1>8 DEF Goes, Counted
  <2>3. \/ Remaining(o) = n + 24 /\ s = 0
        \/ Remaining(o) = 5 * n + 2 * s + 3
        \/ Remaining(o) \in {5 * n + 2 * s, 5 * n + 2 * s - 1} /\ n > 0
        \/ Remaining(o) = 2 * s + 2
    BY <1>2, <1>8, <2>1 DEF Counted, Starting
  <2>. HIDE DEF n, s
  <2>. QED
    BY <1>1, <2>2, <2>3
<1>9. CASE Done(o, "start") /\ Goes(o, "poll", <<>>)
  <2>1. Remaining(o)' = 2 * s + 2 /\ Remaining(o) = 5 * 0 + 2 * s + 3
    BY <1>1, <1>2, <1>3, <1>9 DEF Goes, Counted
  <2>. QED
    BY <1>1, <2>1
<1>10. CASE pc[o] \in Stopping /\ rest[o] # <<>> /\ Goes(o, "unwind", Tail(rest[o]))
  <2>1. Len(rest'[o]) = n - 1 /\ Len(started'[o]) = s /\ n - 1 \in Nat
    BY <1>1, <1>10 DEF Goes
  <2>2. Remaining(o)' = 2 * (n - 1) + 1
    BY <1>1, <1>3, <1>10, <2>1 DEF Goes, Counted
  <2>3. Remaining(o) \in {2 * n + 1, 2 * n}
    BY <1>2, <1>10 DEF Counted, Stopping
  <2>. HIDE DEF n, s
  <2>. QED
    BY <1>1, <2>2, <2>3
<1>11. CASE Records(o)
  <2>1. Len(rest'[o]) = n /\ Len(started'[o]) = s + 1 /\ s + 1 \in Nat
    BY <1>1, <1>11 DEF Records
  <2>2. Remaining(o)' = 5 * n + 2 * (s + 1)
    BY <1>1, <1>3, <1>11, <2>1 DEF Records, Counted
  <2>3. Remaining(o) = 5 * n + 2 * s + 3
    BY <1>2, <1>11 DEF Records, Counted
  <2>. HIDE DEF n, s
  <2>. QED
    BY <1>1, <2>2, <2>3
<1>12. CASE Requests(o)
  <2>1. Remaining(o)' = 5 * n + 2 * s - 1 /\ Remaining(o) = 5 * n + 2 * s
    BY <1>1, <1>2, <1>3, <1>12 DEF Requests, Goes, Counted
  <2>. HIDE DEF n, s
  <2>. QED
    BY <1>1, <2>1
<1>13. CASE Stops(o)
  <2>1. Remaining(o)' = 2 * n /\ Remaining(o) = 2 * n + 1
    BY <1>1, <1>2, <1>3, <1>13 DEF Stops, Goes, Counted
  <2>. HIDE DEF n, s
  <2>. QED
    BY <1>1, <2>1
<1>. QED
  BY <1>4, <1>5, <1>6, <1>7, <1>8, <1>9, <1>10, <1>11, <1>12, <1>13, StepEffect
  DEF Proceeds, Stopping

\* Where a command begins, and what others leave it.
LEMMA BeginRemaining ==
  ASSUME TypeOK, CommandInv, NEW o \in Operators
  PROVE  /\ \A c \in Operations : Fresh(o, c) => Remaining(o)' \in 0 .. 30
         /\ Keeps(o) => Remaining(o)' = Remaining(o)
<1>1. ASSUME NEW c \in Operations, Fresh(o, c)
      PROVE  Remaining(o)' \in 0 .. 30
  <2>1. c = "stop" \/ c \in Starts
    BY BoundsAssumption DEF Starts
  <2>2. AllCounted'
    BY RemainingIs, PTL
  <2>3. PICK m \in 0 .. 6 : Len(rest'[o]) = m
    BY <1>1, <2>1, Lengths DEF Fresh
  <2>4. PICK t \in Nat : Len(started'[o]) = t
    BY <1>1, FiniteLoops DEF Fresh
  <2>5. Remaining(o)' \in {m + 24, 2 * m + 1}
    BY <1>1, <2>2, <2>3, <2>4 DEF Fresh, AllCounted, Counted
  <2>. QED
    BY <2>5
<1>2. Keeps(o) => Remaining(o)' = Remaining(o)
  BY DEF Keeps, Remaining
<1>. QED
  BY <1>1, <1>2

\* A command that has begun comes closer to its end with each of its steps, a
\* refused stop and Ctrl-C included, and nothing another command or systemd
\* does throws it back; it never has more than thirty steps left.  With
\* WaitsEnd below it is CommandsEnd, but for the scheduling.
THEOREM CommandsAreShort ==
  Spec => /\ [](\A o \in Operators :
                  Remaining(o) \in 0 .. 30 /\ (Remaining(o) = 0 <=> pc[o] = "idle"))
          /\ [][\A o \in Operators : pc[o] # "idle" =>
                  Remaining(o)' < Remaining(o) \/ Keeps(o)]_vars
<1>. DEFINE Short == \A o \in Operators : Remaining(o) \in 0 .. 30
            Shorter(o) == Remaining(o)' < Remaining(o) \/ Keeps(o)
<1>1. Init => Short
  <2>1. ASSUME Init, NEW o \in Operators
        PROVE  Remaining(o) \in 0 .. 30
    <3>1. pc[o] = "idle"
      BY <2>1 DEF Init
    <3>2. Remaining(o) = 0
      BY <3>1 DEF Remaining, Left
    <3>. QED
      BY <3>2
  <2>. QED
    BY <2>1
<1>2. ASSUME IndInv, [Next]_vars, NEW o \in Operators
      PROVE  \/ Shorter(o)
             \/ pc[o] = "idle" /\ Remaining(o)' \in 0 .. 30
  <2>0. TypeOK /\ CommandInv
    BY <1>2 DEF IndInv
  <2>1. ASSUME NEW p \in Operators, OperatorStep(p)
        PROVE  Shorter(o)
    <3>1. p = o \/ Keeps(o)
      BY <2>0, <2>1, StepEffect
    <3>. QED
      BY <2>0, <2>1, <3>1, StepRemaining
  <2>2. ASSUME NEW p \in Operators, NEW c \in Operations, Begin(p, c)
        PROVE  Shorter(o) \/ (pc[o] = "idle" /\ Remaining(o)' \in 0 .. 30)
    <3>1. Keeps(o) \/ Fresh(o, c)
      BY <2>0, <2>2, BeginEffect
    <3>. QED
      BY <2>0, <3>1, BeginRemaining DEF Fresh
  <2>3. CASE UNCHANGED command
    BY <2>3 DEF command, Keeps
  <2>. QED
    BY <1>2, <2>1, <2>2, <2>3, Kinds DEF vars, command
<1>3. IndInv /\ IndInv' /\ Short /\ [Next]_vars => Short'
  <2>1. (TypeOK /\ CommandInv => \A o \in Operators :
           Remaining(o) \in Nat /\ (Remaining(o) = 0 <=> pc[o] = "idle"))'
    BY RemainingType, PTL
  <2>2. ASSUME IndInv, IndInv', Short, [Next]_vars, NEW o \in Operators
        PROVE  Remaining(o)' \in 0 .. 30
    <3>1. Remaining(o)' \in Nat /\ Remaining(o) \in 0 .. 30
      BY <2>1, <2>2 DEF IndInv
    <3>2. Keeps(o) => Remaining(o)' = Remaining(o)
      BY <2>2, BeginRemaining DEF IndInv
    <3>. QED
      BY <1>2, <2>2, <3>1, <3>2
  <2>. QED
    BY <2>2
<1>4. IndInv /\ Short => \A o \in Operators :
        Remaining(o) \in 0 .. 30 /\ (Remaining(o) = 0 <=> pc[o] = "idle")
  BY RemainingType DEF IndInv
<1>5. IndInv /\ [Next]_vars =>
        [\A o \in Operators : pc[o] # "idle" =>
           Remaining(o)' < Remaining(o) \/ Keeps(o)]_vars
  BY <1>2
<1>. HIDE DEF Short, Shorter
<1>. QED
  BY <1>1, <1>3, <1>4, <1>5, Invariance, PTL DEF Spec

\* What a command waits for: the jobs of systemctl start and systemctl stop.
Awaited(o) ==
  IF pc[o] = "request" THEN {v \in {Head(rest[o])} \cup Requires(Head(rest[o])) : Moves(v)}
  ELSE IF pc[o] = "await" THEN {v \in {Head(rest[o])} : unit[v] = "deactivating"}
  ELSE {}

\* The guards of a command's steps, at each place.
CanStep(o) ==
  \/ pc[o] \in {"check", "start", "confirm", "poll", "unwind"}
  \/ pc[o] \in {"request", "await"} /\ Awaited(o) = {}

\* The guards of systemd's jobs.
CanSettle(u) ==
  \/ unit[u] = "activating" /\ \E v \in RequiredBy(u) : unit[v] = "active"
  \/ /\ unit[u] = "activating" /\ \A v \in Requires(u) : ~Moves(v)
     /\ \A v \in RequiredBy(u) : unit[v] \in STOPPED_STATES \cup {"activating"}
  \/ /\ unit[u] \in {"deactivating", "restarting"}
     /\ \A v \in RequiredBy(u) : unit[v] # "deactivating"

\* What a unit on its way waits for.
InFront(u) ==
  IF unit[u] = "activating"
  THEN {v \in Requires(u) : Moves(v)}
         \cup {v \in RequiredBy(u) : unit[v] \in {"deactivating", "restarting"}}
  ELSE {v \in RequiredBy(u) : unit[v] = "deactivating"}

\* A unit on its way settles, or what it waits for does: Requires= and the
\* order of the stops never have two units wait for each other.
LEMMA Settles ==
  ASSUME TypeOK, NEW u \in Units, Moves(u)
  PROVE  \E v \in Units :
           /\ CanSettle(v)
           /\ v = u \/ v \in InFront(u) \/ \E w \in InFront(u) : v \in InFront(w)
<1>. USE DEF CanSettle, InFront, Moves, TRANSIENT_STATES
<1>1. ASSUME NEW s \in Summits, unit[s] \in {"deactivating", "restarting"}
      PROVE  s \in Units /\ CanSettle(s)
  BY <1>1, Relations
<1>2. ASSUME Moves("reth")
      PROVE  \E v \in Units : CanSettle(v) /\ (v = "reth" \/ v \in InFront("reth"))
  <2>1. CASE unit["reth"] = "activating"
    <3>1. \A s \in Summits : unit[s] \in UnitStates
      BY Relations DEF TypeOK
    <3>2. ASSUME NEW s \in Summits, unit[s] \in {"deactivating", "restarting"}
          PROVE  CanSettle(s) /\ s \in Units /\ s \in InFront("reth")
      BY <1>1, <2>1, <3>2, Relations
    <3>3. ASSUME \A s \in Summits : unit[s] \notin {"deactivating", "restarting"}
          PROVE  CanSettle("reth")
      BY <2>1, <3>1, <3>3, Relations DEF UnitStates
    <3>. QED
      BY <3>2, <3>3, Relations
  <2>2. CASE unit["reth"] \in {"deactivating", "restarting"}
    BY <1>1, <2>2, Relations
  <2>. QED
    BY <1>2, <2>1, <2>2
<1>3. CASE unit[u] = "activating" /\ u \in Summits
  <2>1. CASE Moves("reth")
    <3>1. "reth" \in InFront(u)
      BY <1>3, <2>1, Relations
    <3>. QED
      BY <1>2, <2>1, <3>1
  <2>2. CASE ~Moves("reth")
    BY <1>3, <2>2, Relations
  <2>. QED
    BY <2>1, <2>2
<1>4. CASE u = "reth"
  BY <1>2, <1>4
<1>5. CASE u # "reth" /\ ~(unit[u] = "activating" /\ u \in Summits)
  BY <1>5, Relations
<1>. QED
  BY <1>3, <1>4, <1>5

\* A command that has not ended has a step to take or waits for a job of
\* systemd that can be done, or that itself waits for one that can: no order of
\* commands, exits and restarts has commands and units wait in a circle.
THEOREM WaitsEnd ==
  Spec => [](\A o \in Operators : pc[o] # "idle" =>
               \/ CanStep(o)
               \/ \E u \in Awaited(o), v \in Units :
                    /\ CanSettle(v)
                    /\ v = u \/ v \in InFront(u) \/ \E w \in InFront(u) : v \in InFront(w))
<1>1. ASSUME IndInv, NEW o \in Operators, pc[o] # "idle", ~CanStep(o)
      PROVE  \E u \in Awaited(o), v \in Units :
               /\ CanSettle(v)
               /\ v = u \/ v \in InFront(u) \/ \E w \in InFront(u) : v \in InFront(w)
  <2>0. TypeOK /\ CommandInv
    BY <1>1 DEF IndInv
  <2>1. pc[o] \in {"request", "await"} /\ Awaited(o) # {}
    BY <1>1, <2>0 DEF CanStep, TypeOK, Pcs
  <2>2. Head(rest[o]) \in Units
    BY <2>0, <2>1, AtUnit DEF CommandInv, CommandOk
  <2>3. \A u \in Awaited(o) : u \in Units /\ Moves(u)
    BY <2>1, <2>2, Relations DEF Awaited, Moves, TRANSIENT_STATES
  <2>. QED
    BY <2>0, <2>1, <2>3, Settles
<1>2. IndInv => \A o \in Operators : pc[o] # "idle" =>
                  \/ CanStep(o)
                  \/ \E u \in Awaited(o), v \in Units :
                       /\ CanSettle(v)
                       /\ v = u \/ v \in InFront(u) \/ \E w \in InFront(u) : v \in InFront(w)
  BY <1>1
<1>. QED
  BY <1>2, Invariance, PTL
=============================================================================
