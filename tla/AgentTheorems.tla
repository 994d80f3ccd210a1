--------------------------- MODULE AgentTheorems ---------------------------
(***************************************************************************)
(* The inductive invariant of AgentInstall, in named parts, and the        *)
(* properties that follow from it, for any number of commands, receivers,  *)
(* directories, node.env files, edits and mishaps.                         *)
(***************************************************************************)
EXTENDS AgentInstall, TLAPS

-----------------------------------------------------------------------------
(* The invariant.                                                          *)

\* The places of an install that has seen the unit stopped, has a data
\* directory, a release, its first token, the operator's token, targets.
PassedPcs   == {"adopt", "release", "token", "operator_token", "installed"}
                 \cup MiddlePcs
AdoptedPcs  == PassedPcs \ {"adopt"}
ReleasedPcs == AdoptedPcs \ {"release"}
TokenPcs    == ReleasedPcs \ {"token"}
OperatorPcs == TokenPcs \ {"operator_token"}
TargetsPcs  == OperatorPcs \ {"targets"}

\* Two installs that overlap know of each other, and so does a start.
ClearInv ==
  \A p, q \in Commands : p # q /\ Installing(q) => ~cmd[p].clear

\* What a command works with.
ValuesInv ==
  \A p \in Commands :
    /\ cmd[p].pc \in InstallPcs \cup StartPcs => cmd[p].values \in Envs[role]
    /\ Installing(p) /\ cmd[p].given => cmd[p].values.operator # None

\* The operator token an install leaves.
GivenToken(p) == IF cmd[p].given THEN cmd[p].values.operator ELSE None

\* What an install has done by the time it is where it is; of the files that
\* depend on node.env, if no other install has written them since.
Progress(p) ==
  LET c == cmd[p] IN
  /\ c.pc \in AdoptedPcs  => dir[c.values.data_dir] # "missing"
  /\ c.pc \in ReleasedPcs => files.binary
  /\ c.pc \in TokenPcs    => files.token = PushesToSeismic
  /\ c.pc \in TargetsPcs  => files.targets # {}
  /\ c.clear =>
       /\ c.pc \in OperatorPcs => files.operator_token = GivenToken(p)
       /\ c.pc \in TargetsPcs  => files.targets = scrape_targets(c.values)
       /\ c.pc = "installed"   => files.config = render(c.values, c.given)

ProgressInv == \A p \in Commands : Progress(p)

\* The configuration is written last.
FilesInv ==
  /\ files.token => PushesToSeismic
  /\ files.config # None =>
       /\ files.binary /\ files.targets # {}
       /\ files.config.seismic = PushesToSeismic
       /\ files.token = PushesToSeismic

\* The agent runs, and has run, with a configuration only.
UnitInv ==
  /\ agent = "active" => /\ files.config # None
                         /\ loaded # None /\ loaded.seismic = PushesToSeismic
  /\ \A d \in DataDirs : dir[d] = "wal" => files.config # None

\* The agent stays stopped under an install, unless a start raced with it.
RunInv ==
  /\ (\E p \in Commands : cmd[p].pc \in PassedPcs) => agent = "inactive" \/ raced
  /\ agent = "active" /\ ~raced => loaded = files.config

\* An install that has written the operator's token works with node.env.
CurrentInv ==
  ~muddled => \A p \in Commands : cmd[p].pc \in MiddlePcs => cmd[p].values = env

\* Whose the operator's token is: between its write and the install's last it
\* fits node.env, after an install that was not cut off the configuration.
TokenInv ==
  ~muddled =>
    /\ \/ files.operator_token \in {None, env.operator}
       \/ files.config # None /\ files.config.operator = files.operator_token
    /\ ~cut /\ (\A p \in Commands : cmd[p].pc \notin MiddlePcs) =>
         \/ files.operator_token = None
         \/ files.config # None /\ files.config.operator = files.operator_token
    /\ (\E p \in Commands : cmd[p].pc \in MiddlePcs) =>
         files.operator_token \in {None, env.operator}

IndInv ==
  /\ TypeOK   /\ ClearInv /\ ValuesInv /\ ProgressInv
  /\ FilesInv /\ UnitInv  /\ RunInv    /\ CurrentInv  /\ TokenInv

-----------------------------------------------------------------------------
(* Types.                                                                  *)

Cmds == [pc : Pcs, values : Envs[role] \cup {None}, given : BOOLEAN, clear : BOOLEAN]

Files == [token : BOOLEAN, operator_token : Receivers \cup {None},
          targets : SUBSET Services, config : Configs \cup {None},
          binary : BOOLEAN]

Dirs == [DataDirs -> {"missing", "unrelated", "empty", "wal"}]

\* What nodeenv accepts has these keys.
LEMMA EnvFacts ==
  ASSUME TypeOK
  PROVE  \A e \in Envs[role] :
           e \in [mode : Modes, operator : Receivers \cup {None},
                  checkpointer : BOOLEAN, data_dir : DataDirs]
  BY EnvsAssumption DEF TypeOK, EnvFiles

\* A command that moves remains a command.
LEMMA GotoType ==
  ASSUME TypeOK, NEW p \in Commands, NEW label \in Pcs, Goto(p, label)
  PROVE  cmd' \in [Commands -> Cmds]
<1>1. [cmd[p] EXCEPT !.pc = label] \in Cmds
  BY DEF TypeOK, Cmds
<1>. QED
  BY <1>1 DEF TypeOK, Cmds, Goto

\* A command that ends is idle, which is a command.
LEMMA EndType ==
  ASSUME TypeOK, NEW p \in Commands, End(p)
  PROVE  cmd' \in [Commands -> Cmds]
<1>1. Idle \in Cmds
  BY DEF Cmds, Idle, Pcs
<1>. QED
  BY <1>1 DEF TypeOK, Cmds, End

\* A command that begins is a command, and so are those it meets.
LEMMA BeginType ==
  ASSUME TypeOK, NEW p \in Commands, NEW label \in Pcs, NEW with \in BOOLEAN,
         Begin(p, label, with)
  PROVE  cmd' \in [Commands -> Cmds]
<1>1. \A q \in Commands, c \in BOOLEAN : [cmd[q] EXCEPT !.clear = c] \in Cmds
  BY DEF TypeOK, Cmds
<1>2. \A q \in Commands : cmd[q].clear \in BOOLEAN
  BY DEF TypeOK
<1>3. \A v \in {None, env}, c \in BOOLEAN :
        [pc |-> label, values |-> v, given |-> with, clear |-> c] \in Cmds
  BY DEF TypeOK, Cmds
<1>4. \A q \in Commands : cmd'[q] \in Cmds
  BY <1>1, <1>2, <1>3 DEF Begin
<1>. QED
  BY <1>4 DEF Begin

\* What an install writes.
LEMMA ContentType ==
  ASSUME IndInv, NEW p \in Commands
  PROVE  /\ PushesToSeismic \in BOOLEAN
         /\ scrape_targets(cmd[p].values) \in (SUBSET Services) \ {{}}
         /\ Installing(p) =>
              /\ GivenToken(p) \in Receivers \cup {None}
              /\ render(cmd[p].values, cmd[p].given) \in Configs \ {None}
<1>1. PushesToSeismic \in BOOLEAN
  BY DEF PushesToSeismic
<1>2. scrape_targets(cmd[p].values) \in (SUBSET Services) \ {{}}
  BY DEF scrape_targets, Services
<1>3. Installing(p) => cmd[p].values.operator \in Receivers \cup {None}
  BY EnvFacts DEF IndInv, ValuesInv, Installing
<1>4. cmd[p].given \in BOOLEAN
  BY DEF IndInv, TypeOK
<1>5. Installing(p) => render(cmd[p].values, cmd[p].given) \in Configs
  BY <1>1, <1>3, <1>4 DEF render, Configs
<1>. QED
  BY <1>1, <1>2, <1>3, <1>5, EnvsAssumption DEF GivenToken

Writes(p) ==
  \/ install_release(p) \/ WriteToken(p) \/ WriteOperatorToken(p)
  \/ WriteTargets(p)    \/ WriteConfig(p)

\* Files stay files.
LEMMA WriteType ==
  ASSUME IndInv, NEW p \in Commands, Writes(p)
  PROVE  files' \in Files
<1>. USE DEF IndInv
<1>0. Installing(p)
  BY DEF Writes, install_release, WriteToken, WriteOperatorToken, WriteTargets,
     WriteConfig, Write, At, Installing, InstallPcs, MiddlePcs
<1>1. \A b \in BOOLEAN : [files EXCEPT !.binary = b] \in Files
  BY DEF TypeOK, Files
<1>2. \A b \in BOOLEAN : [files EXCEPT !.token = b] \in Files
  BY DEF TypeOK, Files
<1>3. \A r \in Receivers \cup {None} : [files EXCEPT !.operator_token = r] \in Files
  BY DEF TypeOK, Files
<1>4. \A t \in SUBSET Services : [files EXCEPT !.targets = t] \in Files
  BY DEF TypeOK, Files
<1>5. \A c \in Configs : [files EXCEPT !.config = c] \in Files
  BY DEF TypeOK, Files
<1>. QED
  BY <1>0, <1>1, <1>2, <1>3, <1>4, <1>5, ContentType
  DEF Writes, install_release, WriteToken, WriteOperatorToken, WriteTargets,
      WriteConfig, Write, GivenToken

\* Steps of a command that change nothing but where it is.
Begins(p) ==
  \/ \E with \in BOOLEAN : BeginInstall(p, with)
  \/ BeginStart(p) \/ BeginStop(p)

Looks(p) ==
  \/ require_stopped(p) \/ FinishInstall(p)
  \/ ReadTokens(p) \/ ReadConfig(p) \/ ReadTargets(p) \/ Look(p)

UnitStep ==
  \/ Exit \/ AutoRestart \/ StopDone
  \/ \E p \in Commands : RequestStart(p) \/ RequestStop(p)
  \/ \E at_boot \in BOOLEAN : Reboot(at_boot)

\* The steps, by what they change.
LEMMA Kinds ==
  ASSUME [Next]_vars
  PROVE  \/ \E p \in Commands : \/ Begins(p) \/ Looks(p) \/ AdoptDataDir(p)
                                \/ Writes(p) \/ Fail(p)
         \/ UnitStep \/ EditEnv \/ UNCHANGED vars
  BY DEF Next, Step, Begins, Looks, Writes, UnitStep

\* Every variable keeps its type.
LEMMA StepType ==
  ASSUME IndInv, [Next]_vars
  PROVE  TypeOK'
<1>. USE DEF IndInv, node, unit, bounds, past
<1>1. ASSUME NEW p \in Commands, Begins(p) \/ Looks(p)
      PROVE  TypeOK'
  <2>1. CASE Begins(p)
    <3>1. {"require_stopped", "read_tokens", "stop"} \subseteq Pcs
      BY DEF Pcs, InstallPcs, StartPcs
    <3>2. cmd' \in [Commands -> Cmds]
      BY <2>1, <3>1, BeginType DEF Begins, BeginInstall, BeginStart, BeginStop
    <3>. QED
      BY <2>1, <3>2 DEF Begins, BeginInstall, BeginStart, BeginStop, Begin, TypeOK, Cmds
  <2>2. CASE require_stopped(p) \/ FinishInstall(p) \/ ReadConfig(p) \/ ReadTargets(p)
               \/ Look(p)
    <3>1. {"adopt", "read_targets", "look", "request"} \subseteq Pcs
      BY DEF Pcs, InstallPcs, StartPcs
    <3>2. cmd' \in [Commands -> Cmds]
      BY <2>2, <3>1, GotoType, EndType
      DEF require_stopped, FinishInstall, ReadConfig, ReadTargets, Look, GotoIf
    <3>. QED
      BY <2>2, <3>2
      DEF require_stopped, FinishInstall, ReadConfig, ReadTargets, Look, TypeOK, Cmds
  <2>3. CASE ReadTokens(p)
    <3>1. Idle \in Cmds /\ "read_config" \in Pcs
      BY DEF Idle, Cmds, Pcs, StartPcs
    <3>2. \A g \in BOOLEAN : [cmd[p] EXCEPT !.pc = "read_config", !.given = g] \in Cmds
      BY <3>1 DEF TypeOK, Cmds
    <3>3. cmd[p].given \in BOOLEAN
      BY DEF TypeOK
    <3>4. cmd'[p] \in Cmds
      BY <2>3, <3>1, <3>2, <3>3 DEF ReadTokens, TypeOK
    <3>5. cmd' \in [Commands -> Cmds]
      BY <2>3, <3>4 DEF ReadTokens, TypeOK, Cmds
    <3>. QED
      BY <2>3, <3>5 DEF ReadTokens, TypeOK, Cmds
  <2>. QED
    BY <1>1, <2>1, <2>2, <2>3 DEF Looks
<1>2. ASSUME NEW p \in Commands, AdoptDataDir(p) \/ Writes(p) \/ Fail(p)
      PROVE  TypeOK'
  <2>1. MiddlePcs \cup {"token", "operator_token", "installed", "release"} \subseteq Pcs
    BY DEF Pcs, InstallPcs
  <2>2. cmd' \in [Commands -> Cmds]
    BY <1>2, <2>1, GotoType, EndType
    DEF AdoptDataDir, GotoIf, Writes, install_release, WriteToken,
        WriteOperatorToken, WriteTargets, WriteConfig, Write, Fail, MiddlePcs
  <2>3. CASE AdoptDataDir(p)
    <3>1. dir' \in Dirs
      BY <2>3 DEF AdoptDataDir, TypeOK, Dirs
    <3>. QED
      BY <2>2, <2>3, <3>1 DEF AdoptDataDir, TypeOK, Cmds, Dirs
  <2>4. CASE Writes(p)
    <3>1. UNCHANGED <<node, dir, unit, bounds>>
          /\ {cut', muddled'} \subseteq BOOLEAN
      BY <2>4 DEF Writes, install_release, WriteToken, WriteOperatorToken,
         TokenWritten, WriteTargets, WriteConfig, Write, TypeOK
    <3>. QED
      BY <2>2, <2>4, <3>1, WriteType DEF TypeOK, Cmds, Files
  <2>5. CASE Fail(p)
    BY <2>2, <2>5, EnvsAssumption DEF Fail, TypeOK, Cmds
  <2>. QED
    BY <1>2, <2>3, <2>4, <2>5
<1>3. CASE UnitStep
  <2>1. cmd' \in [Commands -> Cmds]
    <3>1. Idle \in Cmds
      BY DEF Idle, Cmds, Pcs
    <3>. QED
      BY <1>3, <3>1, EndType DEF UnitStep, Exit, AutoRestart, StopDone,
         RequestStart, RequestStop, Reboot, TypeOK, Cmds
  <2>2. StartUnit => /\ dir' \in Dirs /\ loaded' \in Configs \cup {None}
                     /\ agent' \in {"active", "inactive"}
    BY DEF StartUnit, ConditionPathExists, TypeOK, Dirs
  <2>3. {raced'} \subseteq BOOLEAN
    BY <1>3 DEF UnitStep, Exit, AutoRestart, StopDone, RequestStart, RequestStop,
       Reboot, TypeOK
  <2>4. mishaps' \in 0 .. MaxMishaps
    BY <1>3, EnvsAssumption DEF UnitStep, Exit, AutoRestart, StopDone,
       RequestStart, RequestStop, Reboot, TypeOK
  <2>5. /\ dir' \in Dirs /\ loaded' \in Configs \cup {None}
        /\ agent' \in {"inactive", "activating", "active", "deactivating"}
    BY <1>3, <2>2 DEF UnitStep, Exit, AutoRestart, StopDone, RequestStart,
       RequestStop, Reboot, TypeOK, Dirs
  <2>6. UNCHANGED <<node, files, edits, muddled>> /\ cut' \in BOOLEAN
    BY <1>3 DEF UnitStep, Exit, AutoRestart, StopDone, RequestStart, RequestStop,
       Reboot, TypeOK
  <2>. QED
    BY <2>1, <2>3, <2>4, <2>5, <2>6 DEF TypeOK, Cmds, Dirs
<1>4. CASE EditEnv
  BY <1>4, EnvsAssumption DEF EditEnv, TypeOK
<1>5. CASE UNCHANGED vars
  BY <1>5 DEF vars, TypeOK
<1>. QED
  BY <1>1, <1>2, <1>3, <1>4, <1>5, Kinds

-----------------------------------------------------------------------------
(* What the steps of commands do to commands.                              *)

OthersUnchanged(p) == \A q \in Commands \ {p} : cmd'[q] = cmd[q]

Ended(p) == cmd'[p].pc = "idle" /\ ~cmd'[p].clear

KeepsValues(p) ==
  /\ cmd'[p].values = cmd[p].values /\ cmd'[p].given = cmd[p].given
  /\ cmd'[p].clear = cmd[p].clear

\* A command that begins has read node.env, and knows of installs under way;
\* when it is an install itself, the others know of it.
LEMMA BeginEffect ==
  ASSUME TypeOK, NEW p \in Commands, Begins(p)
  PROVE  /\ UNCHANGED <<node, files, dir, unit, past>>
         /\ ~Installing(p)
         /\ cmd'[p].clear => \A q \in Commands : ~Installing(q)
         /\ cmd'[p].pc \in {"require_stopped", "read_tokens", "stop"}
         /\ cmd'[p].pc # "stop" => cmd'[p].values = env
         /\ cmd'[p].pc = "require_stopped" /\ cmd'[p].given => env.operator # None
         /\ \A q \in Commands \ {p} :
              /\ cmd'[q].pc = cmd[q].pc /\ cmd'[q].values = cmd[q].values
              /\ cmd'[q].given = cmd[q].given
              /\ cmd'[q].clear => cmd[q].clear /\ cmd'[p].pc # "require_stopped"
<1>1. ~Installing(p)
  BY DEF Begins, BeginInstall, BeginStart, BeginStop, Begin, At, Installing, InstallPcs, MiddlePcs
<1>2. ASSUME NEW label, NEW with, Begin(p, label, with)
      PROVE  /\ UNCHANGED <<node, files, dir, unit, past>>
             /\ cmd'[p].clear => \A q \in Commands : ~Installing(q)
             /\ cmd'[p].pc = label
             /\ label # "stop" => cmd'[p].values = env
             /\ cmd'[p].given = with
             /\ \A q \in Commands \ {p} :
                  /\ cmd'[q].pc = cmd[q].pc /\ cmd'[q].values = cmd[q].values
                  /\ cmd'[q].given = cmd[q].given
                  /\ cmd'[q].clear => cmd[q].clear /\ label # "require_stopped"
  BY <1>2 DEF Begin, TypeOK
<1>3. CASE \E with \in BOOLEAN : BeginInstall(p, with)
  <2>1. PICK with \in BOOLEAN : BeginInstall(p, with)
    BY <1>3
  <2>. QED
    BY <1>1, <1>2, <2>1 DEF BeginInstall
<1>4. CASE BeginStart(p) \/ BeginStop(p)
  BY <1>1, <1>2, <1>4 DEF BeginStart, BeginStop
<1>. QED
  BY <1>3, <1>4 DEF Begins

\* A command that looks goes on or ends; require_stopped saw the unit stopped.
LEMMA LookEffect ==
  ASSUME TypeOK, NEW p \in Commands, Looks(p)
  PROVE  /\ UNCHANGED <<node, files, dir, unit, past>>
         /\ OthersUnchanged(p)
         /\ cmd[p].pc \notin MiddlePcs
         /\ \/ Ended(p)
            \/ /\ cmd[p].pc = "require_stopped" /\ agent = "inactive"
               /\ cmd'[p].pc = "adopt" /\ KeepsValues(p)
            \/ /\ cmd[p].pc \in StartPcs /\ cmd'[p].pc \in StartPcs
               /\ cmd'[p].values = cmd[p].values /\ cmd'[p].clear = cmd[p].clear
<1>. USE DEF TypeOK, OthersUnchanged, At, End, Goto, GotoIf, MiddlePcs, StartPcs,
     Ended, KeepsValues, Idle
<1>1. CASE require_stopped(p)
  BY <1>1 DEF require_stopped
<1>2. CASE FinishInstall(p)
  BY <1>2 DEF FinishInstall
<1>3. CASE ReadTokens(p)
  <2>1. UNCHANGED <<node, files, dir, unit, past>> /\ OthersUnchanged(p)
        /\ cmd[p].pc = "read_tokens"
    BY <1>3 DEF ReadTokens
  <2>2. CASE PushesToSeismic /\ ~files.token
    BY <1>3, <2>1, <2>2 DEF ReadTokens
  <2>3. CASE ~(PushesToSeismic /\ ~files.token)
    <3>1. PICK g \in BOOLEAN : cmd'[p] = [cmd[p] EXCEPT !.pc = "read_config", !.given = g]
      BY <1>3, <2>3 DEF ReadTokens
    <3>. QED
      BY <2>1, <3>1
  <2>. QED
    BY <2>2, <2>3
<1>4. CASE ReadConfig(p) \/ ReadTargets(p) \/ Look(p)
  BY <1>4 DEF ReadConfig, ReadTargets, Look
<1>. QED
  BY <1>1, <1>2, <1>3, <1>4 DEF Looks

\* An install that writes moves on to its next write; what the step says of
\* the file it replaces is in the action.
LEMMA WriteEffect ==
  ASSUME TypeOK, NEW p \in Commands, Writes(p)
  PROVE  /\ UNCHANGED <<node, dir, unit>> /\ OthersUnchanged(p)
         /\ KeepsValues(p)
         /\ cmd[p].pc \in PassedPcs /\ cmd'[p].pc \in PassedPcs
         /\ cmd[p].pc \in AdoptedPcs
<1>. USE DEF Writes, Write, At, Goto, TypeOK, OthersUnchanged, KeepsValues, PassedPcs,
     AdoptedPcs, MiddlePcs
<1>1. CASE install_release(p)
  BY <1>1 DEF install_release
<1>2. CASE WriteToken(p)
  BY <1>2 DEF WriteToken
<1>3. CASE WriteOperatorToken(p)
  BY <1>3 DEF WriteOperatorToken
<1>4. CASE WriteTargets(p)
  BY <1>4 DEF WriteTargets
<1>5. CASE WriteConfig(p)
  BY <1>5 DEF WriteConfig
<1>. QED
  BY <1>1, <1>2, <1>3, <1>4, <1>5

\* Steps of the unit end commands or leave them alone.
LEMMA UnitEffect ==
  ASSUME TypeOK, UnitStep
  PROVE  /\ UNCHANGED <<node, files, muddled>>
         /\ \A q \in Commands : cmd'[q] = cmd[q] \/ Ended(q)
         /\ cut => cut'
         /\ cut' \/ \A q \in Commands : cmd[q].pc \in MiddlePcs => cmd'[q] = cmd[q]
<1>1. CASE Exit \/ AutoRestart \/ StopDone
  BY <1>1 DEF Exit, AutoRestart, StopDone, past
<1>2. CASE \E p \in Commands : RequestStart(p) \/ RequestStop(p)
  BY <1>2 DEF RequestStart, RequestStop, End, At, past, TypeOK, MiddlePcs, Ended, Idle
<1>3. ASSUME NEW at_boot \in BOOLEAN, Reboot(at_boot)
      PROVE  /\ UNCHANGED <<node, files, muddled>> /\ \A q \in Commands : Ended(q)
             /\ cut => cut'
             /\ cut' \/ \A q \in Commands : cmd[q].pc \notin MiddlePcs
  <2>1. \A q \in Commands : Ended(q)
    BY <1>3 DEF Reboot, Ended, Idle
  <2>2. cut' = (cut \/ \E q \in Commands : cmd[q].pc \in MiddlePcs)
    BY <1>3 DEF Reboot
  <2>. QED
    BY <1>3, <2>1, <2>2 DEF Reboot
<1>. QED
  BY <1>1, <1>2, <1>3 DEF UnitStep

\* A command that fails ends, and cuts its install if it was among its writes.
LEMMA FailEffect ==
  ASSUME TypeOK, NEW p \in Commands, Fail(p)
  PROVE  /\ UNCHANGED <<node, files, dir, unit, muddled>> /\ OthersUnchanged(p)
         /\ Ended(p) /\ cut' = (cut \/ cmd[p].pc \in MiddlePcs)
  BY DEF Fail, End, TypeOK, OthersUnchanged, Ended, Idle

\* An install refuses its data directory or has it; only a directory the agent
\* may write to becomes a WAL.
LEMMA AdoptEffect ==
  ASSUME TypeOK, ValuesInv, NEW p \in Commands, AdoptDataDir(p)
  PROVE  /\ UNCHANGED <<node, files, unit, past>> /\ OthersUnchanged(p)
         /\ cmd[p].pc = "adopt"
         /\ \A d \in DataDirs : dir'[d] # dir[d] =>
              dir[d] \in {"missing", "unrelated"}
                /\ (dir'[d] = "empty" \/ (files.config # None /\ dir'[d] = "wal"))
         /\ \/ Ended(p)
            \/ /\ cmd'[p].pc = "release" /\ KeepsValues(p)
               /\ dir'[cmd[p].values.data_dir] # "missing"
<1>1. cmd[p].values.data_dir \in DataDirs /\ cmd[p].pc = "adopt"
  BY EnvFacts DEF AdoptDataDir, At, ValuesInv, InstallPcs
<1>2. UNCHANGED <<node, files, unit, past>> /\ (End(p) \/ Goto(p, "release"))
  BY DEF AdoptDataDir, GotoIf
<1>5. OthersUnchanged(p) /\ (Ended(p) \/ (cmd'[p].pc = "release" /\ KeepsValues(p)))
  <2>1. End(p) => OthersUnchanged(p) /\ Ended(p)
    BY DEF End, TypeOK, OthersUnchanged, Ended, Idle
  <2>2. Goto(p, "release") =>
          OthersUnchanged(p) /\ cmd'[p].pc = "release" /\ KeepsValues(p)
    BY DEF Goto, TypeOK, OthersUnchanged, KeepsValues
  <2>. QED
    BY <1>2, <2>1, <2>2
<1>3. \A d \in DataDirs : dir'[d] # dir[d] =>
        /\ dir[d] \in {"missing", "unrelated"}
        /\ dir'[d] = "empty" \/ (files.config # None /\ dir'[d] = "wal")
  <2>. DEFINE d == cmd[p].values.data_dir
  <2>. DEFINE c == IF ~(files.config # None \/ dir[d] \in {"missing", "empty"}) THEN dir[d]
                   ELSE IF dir[d] = "missing" THEN "empty"
                   ELSE IF dir[d] = "unrelated" THEN "wal" ELSE dir[d]
  <2>1. dir' = [dir EXCEPT ![d] = c]
    BY DEF AdoptDataDir
  <2>2. dir'[d] = c /\ \A e \in DataDirs \ {d} : dir'[e] = dir[e]
    <3>. HIDE DEF c
    <3>. QED
      BY <1>1, <2>1 DEF TypeOK
  <2>3. c # dir[d] => /\ dir[d] \in {"missing", "unrelated"}
                      /\ c = "empty" \/ (files.config # None /\ c = "wal")
    OBVIOUS
  <2>. HIDE DEF c
  <2>. QED
    BY <2>2, <2>3
<1>4. cmd'[p].pc = "release" => dir'[cmd[p].values.data_dir] # "missing"
  BY <1>1 DEF AdoptDataDir, GotoIf, End, TypeOK, Idle
<1>. QED
  BY <1>1, <1>2, <1>3, <1>4, <1>5

-----------------------------------------------------------------------------
(* The rest of the invariant.                                              *)

\* Whoever overlaps an install is not clear.
LEMMA StepClear ==
  ASSUME IndInv, [Next]_vars
  PROVE  ClearInv'
<1>. USE DEF IndInv, ClearInv, Installing, Ended, KeepsValues
<1>1. "idle" \notin InstallPcs /\ InstallPcs \cap StartPcs = {}
      /\ "read_tokens" \notin InstallPcs /\ "stop" \notin InstallPcs
      /\ PassedPcs \subseteq InstallPcs /\ "require_stopped" \in InstallPcs
  BY DEF InstallPcs, StartPcs, MiddlePcs, PassedPcs
<1>2. ASSUME NEW p \in Commands, Begins(p)
      PROVE  ClearInv'
  BY <1>1, <1>2, BeginEffect
<1>3. ASSUME NEW p \in Commands, Looks(p)
      PROVE  ClearInv'
  BY <1>1, <1>3, LookEffect DEF OthersUnchanged, PassedPcs, TypeOK
<1>4. ASSUME NEW p \in Commands, AdoptDataDir(p) \/ Writes(p) \/ Fail(p)
      PROVE  ClearInv'
  BY <1>1, <1>4, AdoptEffect, WriteEffect, FailEffect DEF OthersUnchanged, PassedPcs, TypeOK
<1>5. CASE UnitStep
  BY <1>1, <1>5, UnitEffect
<1>6. CASE EditEnv \/ UNCHANGED vars
  BY <1>6 DEF EditEnv, vars
<1>. QED
  BY <1>2, <1>3, <1>4, <1>5, <1>6, Kinds

\* A command works with the node.env it read.
LEMMA StepValues ==
  ASSUME IndInv, [Next]_vars
  PROVE  ValuesInv'
<1>. USE DEF IndInv, ValuesInv, Installing, Ended, KeepsValues
<1>1. "idle" \notin InstallPcs \cup StartPcs /\ InstallPcs \cap StartPcs = {}
      /\ "read_tokens" \notin InstallPcs /\ "stop" \notin InstallPcs \cup StartPcs
      /\ PassedPcs \subseteq InstallPcs /\ "require_stopped" \in InstallPcs
  BY DEF InstallPcs, StartPcs, MiddlePcs, PassedPcs
<1>2. ASSUME NEW p \in Commands, Begins(p)
      PROVE  ValuesInv'
  BY <1>1, <1>2, BeginEffect DEF node, TypeOK
<1>3. ASSUME NEW p \in Commands, Looks(p)
      PROVE  ValuesInv'
  BY <1>1, <1>3, LookEffect DEF OthersUnchanged, PassedPcs, TypeOK, node
<1>4. ASSUME NEW p \in Commands, AdoptDataDir(p) \/ Writes(p) \/ Fail(p)
      PROVE  ValuesInv'
  BY <1>1, <1>4, AdoptEffect, WriteEffect, FailEffect
  DEF OthersUnchanged, PassedPcs, TypeOK, node
<1>5. CASE UnitStep
  BY <1>1, <1>5, UnitEffect DEF node
<1>6. CASE EditEnv \/ UNCHANGED vars
  BY <1>6 DEF EditEnv, vars, node
<1>. QED
  BY <1>2, <1>3, <1>4, <1>5, <1>6, Kinds

\* Between the operator's token and its last write an install keeps to node.env.
LEMMA StepCurrent ==
  ASSUME IndInv, [Next]_vars
  PROVE  CurrentInv'
<1>. USE DEF IndInv, CurrentInv, Ended, KeepsValues
<1>1. /\ {"idle", "require_stopped", "read_tokens", "stop", "adopt", "release"}
           \cap MiddlePcs = {}
      /\ StartPcs \cap MiddlePcs = {} /\ MiddlePcs \subseteq InstallPcs
  BY DEF InstallPcs, StartPcs, MiddlePcs
<1>2. ASSUME NEW p \in Commands, Begins(p)
      PROVE  CurrentInv'
  BY <1>1, <1>2, BeginEffect DEF node, past
<1>3. ASSUME NEW p \in Commands, Looks(p)
      PROVE  CurrentInv'
  BY <1>1, <1>3, LookEffect DEF OthersUnchanged, PassedPcs, TypeOK, node, past
<1>4. ASSUME NEW p \in Commands, AdoptDataDir(p) \/ Fail(p)
      PROVE  CurrentInv'
  BY <1>1, <1>4, AdoptEffect, FailEffect DEF OthersUnchanged, PassedPcs, TypeOK, node, past
<1>5. ASSUME NEW p \in Commands, Writes(p)
      PROVE  CurrentInv'
  <2>. USE DEF Write, Goto, At, TypeOK, MiddlePcs
  <2>1. env' = env /\ OthersUnchanged(p) /\ cmd'[p].values = cmd[p].values
    BY <1>5, WriteEffect DEF node
  <2>2. CASE install_release(p) \/ WriteToken(p)
    <3>1. UNCHANGED past /\ cmd'[p].pc \notin MiddlePcs
      BY <2>2 DEF install_release, WriteToken
    <3>. QED
      BY <2>1, <3>1 DEF OthersUnchanged, past
  <2>3. CASE WriteOperatorToken(p)
    <3>1. ~muddled' => ~muddled /\ cmd[p].values = env
      BY <2>3 DEF WriteOperatorToken, TokenWritten
    <3>. QED
      BY <2>1, <3>1 DEF OthersUnchanged
  <2>4. CASE WriteTargets(p)
    <3>1. UNCHANGED past /\ cmd[p].pc \in MiddlePcs
      BY <2>4 DEF WriteTargets
    <3>. QED
      BY <2>1, <3>1 DEF OthersUnchanged, past
  <2>5. CASE WriteConfig(p)
    <3>1. cmd'[p].pc \notin MiddlePcs /\ (~muddled' => ~muddled \/ cmd[p].clear)
      BY <2>5 DEF WriteConfig
    <3>2. cmd[p].clear => \A q \in Commands \ {p} : cmd[q].pc \notin MiddlePcs
      BY <1>1 DEF ClearInv, Installing
    <3>. QED
      BY <2>1, <3>1, <3>2 DEF OthersUnchanged
  <2>. QED
    BY <1>5, <2>2, <2>3, <2>4, <2>5 DEF Writes
<1>6. CASE UnitStep
  BY <1>1, <1>6, UnitEffect DEF node
<1>7. CASE EditEnv \/ UNCHANGED vars
  BY <1>7 DEF EditEnv, vars, node, past
<1>. QED
  BY <1>2, <1>3, <1>4, <1>5, <1>6, <1>7, Kinds

\* No agent runs under an install, but one that raced with it.
LEMMA StepRun ==
  ASSUME IndInv, [Next]_vars
  PROVE  RunInv'
<1>. USE DEF IndInv, RunInv, Ended, KeepsValues
<1>1. /\ {"idle", "require_stopped", "read_tokens", "stop"} \cap PassedPcs = {}
      /\ PassedPcs \cap StartPcs = {} /\ PassedPcs \subseteq InstallPcs
  BY DEF InstallPcs, StartPcs, MiddlePcs, PassedPcs
<1>2. ASSUME NEW p \in Commands, Begins(p)
      PROVE  RunInv'
  BY <1>1, <1>2, BeginEffect DEF unit
<1>3. ASSUME NEW p \in Commands, Looks(p)
      PROVE  RunInv'
  BY <1>1, <1>3, LookEffect DEF OthersUnchanged, unit
<1>4. ASSUME NEW p \in Commands, AdoptDataDir(p) \/ Fail(p)
      PROVE  RunInv'
  BY <1>1, <1>4, AdoptEffect, FailEffect DEF OthersUnchanged, unit, PassedPcs
<1>5. ASSUME NEW p \in Commands, Writes(p)
      PROVE  RunInv'
  BY <1>1, <1>5, WriteEffect DEF OthersUnchanged, unit
<1>6. CASE Exit \/ AutoRestart \/ StopDone
  BY <1>6 DEF Exit, AutoRestart, StopDone, StartUnit
<1>7. ASSUME NEW p \in Commands, RequestStart(p)
      PROVE  RunInv'
  <2>1. \A q \in Commands : cmd'[q].pc \in PassedPcs => q # p /\ cmd[q].pc \in PassedPcs
    BY <1>1, <1>7 DEF RequestStart, End, TypeOK, Idle
  <2>2. (\E q \in Commands \ {p} : cmd[q].pc \in PassedPcs) => ~cmd[p].clear
    BY <1>1 DEF ClearInv, Installing
  <2>3. raced' \/ UNCHANGED unit \/ ~\E q \in Commands \ {p} : cmd[q].pc \in PassedPcs
    BY <1>7, <2>2 DEF RequestStart
  <2>4. UNCHANGED files /\ (UNCHANGED unit \/ (agent' = "active" => loaded' = files.config))
    BY <1>7 DEF RequestStart, StartUnit
  <2>. QED
    BY <2>1, <2>3, <2>4 DEF unit
<1>8. ASSUME NEW p \in Commands, RequestStop(p)
      PROVE  RunInv'
  <2>1. \A q \in Commands : cmd'[q].pc \in PassedPcs => cmd[q].pc \in PassedPcs
    BY <1>1, <1>8 DEF RequestStop, End, TypeOK, Idle
  <2>. QED
    BY <1>8, <2>1 DEF RequestStop
<1>9. ASSUME NEW at_boot \in BOOLEAN, Reboot(at_boot)
      PROVE  RunInv'
  BY <1>1, <1>9 DEF Reboot, StartUnit, Idle
<1>10. CASE EditEnv \/ UNCHANGED vars
  BY <1>10 DEF EditEnv, vars, unit
<1>. QED
  BY <1>2, <1>3, <1>4, <1>5, <1>6, <1>7, <1>8, <1>9, <1>10, Kinds DEF UnitStep

\* A directory that is there stays, and becomes a WAL under a configuration.
LEMMA DirEffect ==
  ASSUME TypeOK, [Next]_vars, ValuesInv
  PROVE  \A d \in DataDirs : dir'[d] # dir[d] =>
           /\ dir'[d] # "missing"
           /\ dir'[d] = "wal" => files.config # None
<1>1. ASSUME StartUnit
      PROVE  \A d \in DataDirs : dir'[d] # dir[d] =>
               dir'[d] = "wal" /\ files.config # None
  BY <1>1 DEF StartUnit, ConditionPathExists, TypeOK
<1>2. ASSUME NEW p \in Commands, AdoptDataDir(p)
      PROVE  \A d \in DataDirs : dir'[d] # dir[d] =>
               /\ dir'[d] # "missing"
               /\ dir'[d] = "wal" => files.config # None
  BY <1>2, AdoptEffect
<1>3. ASSUME NEW p \in Commands, Begins(p) \/ Looks(p) \/ Writes(p) \/ Fail(p)
      PROVE  dir' = dir
  BY <1>3, BeginEffect, LookEffect, WriteEffect, FailEffect
<1>4. CASE UnitStep
  <2>1. StartUnit \/ dir' = dir
    BY <1>4 DEF UnitStep, Exit, AutoRestart, StopDone, RequestStart, RequestStop, Reboot
  <2>. QED
    BY <1>1, <2>1
<1>5. CASE EditEnv \/ UNCHANGED vars
  BY <1>5 DEF EditEnv, vars
<1>. QED
  BY <1>2, <1>3, <1>4, <1>5, Kinds

\* An install has done what comes before the place it is at.
LEMMA StepProgress ==
  ASSUME IndInv, [Next]_vars
  PROVE  ProgressInv'
<1>. USE DEF IndInv, ProgressInv
<1>. USE DEF PassedPcs, AdoptedPcs, ReleasedPcs, TokenPcs, OperatorPcs, TargetsPcs, MiddlePcs
<1>0. \A p \in Commands : cmd[p].pc \in AdoptedPcs =>
        cmd[p].values.data_dir \in DataDirs
  BY EnvFacts DEF ValuesInv, InstallPcs
<1>1. ASSUME UNCHANGED <<role, files>>, NEW q \in Commands,
             cmd'[q].pc = cmd[q].pc, cmd'[q].values = cmd[q].values,
             cmd'[q].given = cmd[q].given, cmd'[q].clear => cmd[q].clear
      PROVE  Progress(q)'
  BY <1>0, <1>1, DirEffect
  DEF Progress, GivenToken, PushesToSeismic, scrape_targets, render
<1>2. ASSUME NEW q \in Commands, cmd'[q].pc \notin AdoptedPcs
      PROVE  Progress(q)'
  BY <1>2 DEF Progress
<1>3. ASSUME NEW p \in Commands, Begins(p)
      PROVE  ProgressInv'
  BY <1>1, <1>2, <1>3, BeginEffect DEF node
<1>4. ASSUME NEW p \in Commands, Looks(p)
      PROVE  ProgressInv'
  BY <1>1, <1>2, <1>4, LookEffect DEF node, OthersUnchanged, Ended, StartPcs
<1>5. ASSUME NEW p \in Commands, AdoptDataDir(p) \/ Fail(p)
      PROVE  ProgressInv'
  <2>1. cmd'[p].pc = "release" /\ AdoptDataDir(p) => Progress(p)'
    BY AdoptEffect DEF Progress, KeepsValues, Ended
  <2>. QED
    BY <1>1, <1>2, <1>5, <2>1, AdoptEffect, FailEffect DEF node, OthersUnchanged, Ended
<1>6. ASSUME NEW p \in Commands, Writes(p)
      PROVE  ProgressInv'
  <2>1. ASSUME NEW q \in Commands, q # p
        PROVE  Progress(q)'
    <3>1. cmd'[q] = cmd[q] /\ UNCHANGED <<role, dir>>
      BY <1>6, <2>1, WriteEffect DEF OthersUnchanged, node
    <3>2. cmd[q].pc \in AdoptedPcs => ~cmd[q].clear
      BY <1>6, <2>1, WriteEffect DEF ClearInv, Installing, InstallPcs
    <3>3. /\ files.binary => files'.binary
          /\ files.token = PushesToSeismic => files'.token = PushesToSeismic
          /\ files.targets # {} => files'.targets # {}
      BY <1>6, ContentType DEF Writes, install_release, WriteToken, WriteOperatorToken,
         WriteTargets, WriteConfig, Write, TypeOK
    <3>. QED
      BY <3>1, <3>2, <3>3 DEF Progress, PushesToSeismic
  <2>2. Progress(p)'
    <3>1. UNCHANGED <<role, dir>> /\ KeepsValues(p)
      BY <1>6, WriteEffect DEF node
    <3>. USE DEF Write, Goto, At, TypeOK, Progress, GivenToken, KeepsValues
    <3>2. CASE install_release(p)
      BY <3>1, <3>2 DEF install_release
    <3>3. CASE WriteToken(p)
      BY <3>1, <3>3 DEF WriteToken, PushesToSeismic
    <3>4. CASE WriteOperatorToken(p)
      BY <3>1, <3>4 DEF WriteOperatorToken, PushesToSeismic
    <3>5. CASE WriteTargets(p)
      BY <3>1, <3>5, ContentType DEF WriteTargets, PushesToSeismic, scrape_targets
    <3>6. CASE WriteConfig(p)
      BY <3>1, <3>6 DEF WriteConfig, PushesToSeismic, scrape_targets, render
    <3>. QED
      BY <1>6, <3>2, <3>3, <3>4, <3>5, <3>6 DEF Writes
  <2>. QED
    BY <2>1, <2>2
<1>7. CASE UnitStep
  BY <1>1, <1>2, <1>7, UnitEffect DEF node, Ended
<1>8. CASE EditEnv \/ UNCHANGED vars
  BY <1>1, <1>8 DEF EditEnv, vars, node
<1>. QED
  BY <1>3, <1>4, <1>5, <1>6, <1>7, <1>8, Kinds

\* A node keeps its role.
LEMMA RoleStays ==
  ASSUME IndInv, [Next]_vars
  PROVE  role' = role
<1>1. ASSUME NEW p \in Commands,
             Begins(p) \/ Looks(p) \/ AdoptDataDir(p) \/ Writes(p) \/ Fail(p)
      PROVE  role' = role
  BY <1>1, BeginEffect, LookEffect, AdoptEffect, WriteEffect, FailEffect DEF IndInv, node
<1>. QED
  BY <1>1, UnitEffect, Kinds DEF IndInv, EditEnv, vars, node

\* No file the configuration needs goes, and none comes after it.
LEMMA StepFiles ==
  ASSUME IndInv, [Next]_vars
  PROVE  FilesInv'
<1>. USE DEF IndInv, FilesInv
<1>1. role' = role
  BY RoleStays
<1>2. CASE files' = files
  BY <1>1, <1>2 DEF PushesToSeismic
<1>3. ASSUME NEW p \in Commands, Writes(p)
      PROVE  FilesInv'
  <2>. USE DEF Write, At, TypeOK
  <2>1. CASE install_release(p)
    BY <1>1, <2>1 DEF install_release, PushesToSeismic
  <2>2. CASE WriteToken(p)
    BY <1>1, <2>2 DEF WriteToken, PushesToSeismic
  <2>3. CASE WriteOperatorToken(p)
    BY <1>1, <2>3 DEF WriteOperatorToken, PushesToSeismic
  <2>4. CASE WriteTargets(p)
    BY <1>1, <2>4, ContentType DEF WriteTargets, PushesToSeismic
  <2>5. CASE WriteConfig(p)
    <3>1. files.binary /\ files.token = PushesToSeismic /\ files.targets # {}
      BY <2>5 DEF WriteConfig, ProgressInv, Progress, ReleasedPcs, AdoptedPcs, PassedPcs,
         TokenPcs, OperatorPcs, TargetsPcs, MiddlePcs
    <3>. QED
      BY <1>1, <2>5, <3>1 DEF WriteConfig, PushesToSeismic, render
  <2>. QED
    BY <1>3, <2>1, <2>2, <2>3, <2>4, <2>5 DEF Writes
<1>4. files' = files \/ \E p \in Commands : Writes(p)
  BY BeginEffect, LookEffect, AdoptEffect, FailEffect, UnitEffect, Kinds DEF EditEnv, vars
<1>. QED
  BY <1>2, <1>3, <1>4

\* The agent starts under a configuration, which never goes.
LEMMA StepUnit ==
  ASSUME IndInv, [Next]_vars
  PROVE  UnitInv'
<1>. USE DEF IndInv, UnitInv
<1>1. role' = role
  BY RoleStays
<1>2. files.config # None => files'.config # None
  <2>1. ASSUME NEW p \in Commands, Writes(p)
        PROVE  files.config # None => files'.config # None
    <3>1. Installing(p)
      BY <2>1, WriteEffect DEF Installing, PassedPcs, InstallPcs
    <3>. QED
      BY <2>1, <3>1, ContentType DEF Writes, install_release, WriteToken,
         WriteOperatorToken, WriteTargets, WriteConfig, Write, TypeOK
  <2>. QED
    BY <2>1, BeginEffect, LookEffect, AdoptEffect, FailEffect, UnitEffect, Kinds
    DEF EditEnv, vars
<1>3. \A d \in DataDirs : dir'[d] = "wal" => files'.config # None
  BY <1>2, DirEffect
<1>4. agent' = "active" =>
        \/ agent = "active" /\ loaded' = loaded
        \/ files.config # None /\ loaded' = files.config
  <2>1. ASSUME NEW p \in Commands,
               Begins(p) \/ Looks(p) \/ AdoptDataDir(p) \/ Writes(p) \/ Fail(p)
        PROVE  UNCHANGED unit
    BY <2>1, BeginEffect, LookEffect, AdoptEffect, WriteEffect, FailEffect
  <2>2. UnitStep => agent' # "active" \/ StartUnit \/ UNCHANGED <<agent, loaded>>
    BY DEF UnitStep, Exit, AutoRestart, StopDone, RequestStart, RequestStop, Reboot, unit
  <2>. QED
    BY <2>1, <2>2, Kinds DEF StartUnit, ConditionPathExists, EditEnv, vars, unit
<1>. QED
  BY <1>1, <1>2, <1>3, <1>4 DEF FilesInv, PushesToSeismic

\* The operator's token fits node.env or the configuration.
LEMMA StepToken ==
  ASSUME IndInv, [Next]_vars
  PROVE  TokenInv'
<1>. USE DEF IndInv, TokenInv
<1>0. /\ {"idle", "require_stopped", "read_tokens", "stop", "adopt", "release"}
           \cap MiddlePcs = {}
      /\ StartPcs \cap MiddlePcs = {}
      /\ MiddlePcs \subseteq InstallPcs
  BY DEF InstallPcs, StartPcs, MiddlePcs
\* A step that leaves the files, and each install that it does not cut, alone.
<1>1. ASSUME UNCHANGED <<node, files, muddled>>, cut => cut',
             \A q \in Commands : cmd'[q].pc \in MiddlePcs =>
                                   cmd'[q].pc = cmd[q].pc,
             cut' \/ \A q \in Commands : cmd[q].pc \in MiddlePcs => cmd'[q].pc = cmd[q].pc
      PROVE  TokenInv'
  BY <1>1 DEF node
<1>2. ASSUME NEW p \in Commands, Begins(p) \/ Looks(p)
      PROVE  TokenInv'
  <2>1. UNCHANGED <<node, files, past>>
    BY <1>2, BeginEffect, LookEffect
  <2>2. \A q \in Commands : \/ cmd'[q].pc = cmd[q].pc
                            \/ /\ cmd[q].pc \notin MiddlePcs
                               /\ cmd'[q].pc \notin MiddlePcs
    BY <1>0, <1>2, BeginEffect, LookEffect DEF Installing, OthersUnchanged, Ended
  <2>. QED
    BY <1>1, <2>1, <2>2 DEF past
<1>3. ASSUME NEW p \in Commands, AdoptDataDir(p)
      PROVE  TokenInv'
  BY <1>0, <1>1, <1>3, AdoptEffect DEF OthersUnchanged, Ended, past
<1>4. ASSUME NEW p \in Commands, Fail(p)
      PROVE  TokenInv'
  BY <1>0, <1>1, <1>4, FailEffect DEF OthersUnchanged, Ended
<1>5. CASE UnitStep
  BY <1>0, <1>1, <1>5, UnitEffect DEF Ended
<1>6. ASSUME NEW p \in Commands, Writes(p)
      PROVE  TokenInv'
  <2>. USE DEF Write, Goto, At, TypeOK
  <2>0. env' = env /\ OthersUnchanged(p) /\ Installing(p)
    BY <1>6, WriteEffect DEF node, Installing, PassedPcs, InstallPcs
  <2>1. CASE install_release(p) \/ WriteToken(p)
    <3>1. /\ files'.operator_token = files.operator_token /\ files'.config = files.config
          /\ UNCHANGED past
          /\ cmd[p].pc \notin MiddlePcs /\ cmd'[p].pc \notin MiddlePcs
      BY <2>1 DEF install_release, WriteToken, MiddlePcs
    <3>. QED
      BY <2>0, <3>1 DEF OthersUnchanged, past
  <2>2. CASE WriteOperatorToken(p)
    <3>1. /\ files'.operator_token = GivenToken(p) /\ files'.config = files.config
          /\ cmd'[p].pc \in MiddlePcs
          /\ ~muddled' => ~muddled /\ cmd[p].values = env
      BY <2>2 DEF WriteOperatorToken, TokenWritten, GivenToken, MiddlePcs
    <3>. QED
      BY <2>0, <3>1 DEF GivenToken
  <2>3. CASE WriteTargets(p)
    <3>1. /\ files'.operator_token = files.operator_token /\ files'.config = files.config
          /\ UNCHANGED past
          /\ cmd'[p].pc \in MiddlePcs /\ cmd[p].pc \in MiddlePcs
      BY <2>3 DEF WriteTargets, MiddlePcs
    <3>. QED
      BY <2>0, <3>1 DEF OthersUnchanged, past
  <2>4. CASE WriteConfig(p)
    <3>1. /\ files'.operator_token = files.operator_token
          /\ files'.config = render(cmd[p].values, cmd[p].given)
          /\ cmd[p].pc \in OperatorPcs /\ cmd[p].pc \in MiddlePcs
          /\ ~muddled' => ~muddled \/ cmd[p].clear
      BY <2>4 DEF WriteConfig, OperatorPcs, TokenPcs, ReleasedPcs, AdoptedPcs, PassedPcs,
         MiddlePcs
    <3>2. files'.config # None /\ files'.config.operator = cmd[p].values.operator
      BY <2>0, <3>1, ContentType DEF render
    <3>3. CASE cmd[p].clear
      <4>1. files.operator_token = GivenToken(p)
        BY <3>1, <3>3 DEF ProgressInv, Progress
      <4>2. \A q \in Commands : cmd'[q].pc \notin MiddlePcs
        BY <1>0, <2>0, <2>4, <3>3 DEF ClearInv, Installing, OthersUnchanged, WriteConfig,
           MiddlePcs
      <4>. QED
        BY <3>1, <3>2, <4>1, <4>2 DEF GivenToken
    <3>4. CASE ~cmd[p].clear
      <4>1. ~muddled' => /\ ~muddled /\ cmd[p].values = env
                         /\ files.operator_token \in {None, env.operator}
        BY <3>1, <3>4 DEF CurrentInv
      <4>. QED
        BY <2>0, <3>1, <3>2, <4>1
    <3>. QED
      BY <3>3, <3>4
  <2>. QED
    BY <1>6, <2>1, <2>2, <2>3, <2>4 DEF Writes
<1>7. CASE EditEnv
  BY <1>0, <1>7 DEF EditEnv, Installing
<1>8. CASE UNCHANGED vars
  BY <1>1, <1>8 DEF vars, past
<1>. QED
  BY <1>2, <1>3, <1>4, <1>5, <1>6, <1>7, <1>8, Kinds

\* A node without an agent satisfies the invariant.
LEMMA Initially ==
  ASSUME Init
  PROVE  IndInv
<1>. USE DEF Init
<1>0. \A p \in Commands : cmd[p] = Idle /\ ~Installing(p)
                          /\ cmd[p].pc \notin InstallPcs \cup StartPcs
  BY DEF Idle, Installing, InstallPcs, StartPcs, MiddlePcs
<1>1. TypeOK
  <2>1. dir \in Dirs
    BY DEF Dirs
  <2>2. files \in Files
    BY DEF Files
  <2>3. cmd \in [Commands -> Cmds]
    <3>1. Idle \in Cmds
      BY DEF Idle, Cmds, Pcs
    <3>. QED
      BY <3>1
  <2>4. edits \in 0 .. MaxEdits /\ mishaps \in 0 .. MaxMishaps
    BY EnvsAssumption
  <2>5. agent = "inactive" /\ loaded = None /\ {raced, cut, muddled} \subseteq BOOLEAN
    OBVIOUS
  <2>. QED
    BY <2>1, <2>2, <2>3, <2>4, <2>5 DEF TypeOK, Dirs, Files, Cmds
<1>2. ClearInv /\ ValuesInv /\ CurrentInv
  BY <1>0 DEF ClearInv, ValuesInv, CurrentInv, InstallPcs
<1>3. ProgressInv
  BY <1>0 DEF ProgressInv, Progress, OperatorPcs, TargetsPcs, TokenPcs, ReleasedPcs,
     AdoptedPcs, PassedPcs, InstallPcs
<1>4. FilesInv /\ UnitInv /\ RunInv
  BY DEF FilesInv, UnitInv, RunInv
<1>5. TokenInv
  BY <1>0 DEF TokenInv, OperatorPcs, TargetsPcs, TokenPcs, ReleasedPcs,
     AdoptedPcs, PassedPcs, InstallPcs
<1>. QED
  BY <1>1, <1>2, <1>3, <1>4, <1>5 DEF IndInv

\* The invariant holds in every reachable state.
THEOREM Invariance == Spec => []IndInv
<1>1. Init => IndInv
  BY Initially
<1>2. IndInv /\ [Next]_vars => IndInv'
  BY StepType, StepClear, StepValues, StepProgress, StepFiles, StepUnit, StepRun,
     StepCurrent, StepToken DEF IndInv
<1>. QED
  BY <1>1, <1>2, PTL DEF Spec

-----------------------------------------------------------------------------
(* The properties.                                                         *)

\* Types: the state of agent.py, monitoring.py and the unit.
THEOREM TypeCorrectness == Spec => []TypeOK
<1>1. IndInv => TypeOK
  BY DEF IndInv
<1>. QED
  BY <1>1, Invariance, PTL

\* `monitoring check` accepts what an install that nothing overlapped wrote,
\* whatever was there before (agent.install against agent.check_existing).
THEOREM InstallSatisfiesCheckThm == Spec => []InstallSatisfiesCheck
<1>1. ASSUME IndInv, NEW p \in Commands, cmd[p].clear, At(p, "installed"),
             cmd[p].values = env
      PROVE  /\ Matches(env)
             /\ files.token = PushesToSeismic
             /\ files.operator_token = IF cmd[p].given THEN env.operator ELSE None
  <2>. USE DEF IndInv, At
  <2>1. /\ "installed" \in InstallPcs /\ "installed" \in TargetsPcs
        /\ "installed" \in OperatorPcs /\ "installed" \in TokenPcs
        /\ "installed" \in ReleasedPcs /\ "installed" \in AdoptedPcs
    BY DEF InstallPcs, TargetsPcs, OperatorPcs, TokenPcs, ReleasedPcs, AdoptedPcs,
       PassedPcs, MiddlePcs
  <2>2. /\ dir[env.data_dir] # "missing" /\ files.binary
        /\ files.token = PushesToSeismic
        /\ files.operator_token = GivenToken(p)
        /\ files.targets = scrape_targets(env)
        /\ files.config = render(env, cmd[p].given)
    BY <1>1, <2>1 DEF ProgressInv, Progress
  <2>3. cmd[p].given => env.operator # None
    BY <1>1, <2>1 DEF ValuesInv, Installing
  <2>4. cmd[p].given = (env.operator # None /\ files.operator_token # None)
    BY <1>1, <2>2, <2>3 DEF GivenToken, TypeOK
  <2>. QED
    BY <1>1, <2>2, <2>4 DEF Matches, GivenToken
<1>2. IndInv => InstallSatisfiesCheck
  BY <1>1 DEF InstallSatisfiesCheck
<1>. QED
  BY <1>2, Invariance, PTL

\* What check_existing accepts names no receiver but the one the operator's
\* token came from, unless an install left its token beside another node.env
\* than its own and none has since ended alone.
THEOREM CheckedTokenFitsThm == Spec => []CheckedTokenFits
<1>1. IndInv => CheckedTokenFits
  BY DEF IndInv, TokenInv, CheckedTokenFits, Matches, render
<1>. QED
  BY <1>1, Invariance, PTL

\* An agent that no command started under an install runs what is installed.
THEOREM RunsWhatIsInstalledThm == Spec => []RunsWhatIsInstalled
<1>1. IndInv => RunsWhatIsInstalled
  BY DEF IndInv, RunInv, RunsWhatIsInstalled
<1>. QED
  BY <1>1, Invariance, PTL

\* A running agent was installed to the end, whatever was cut or overlapped.
THEOREM ActiveIsInstalledThm == Spec => []ActiveIsInstalled
<1>1. IndInv => ActiveIsInstalled
  BY DEF IndInv, UnitInv, FilesInv, ActiveIsInstalled
<1>. QED
  BY <1>1, Invariance, PTL

\* agent.install's refusal of a nonempty data directory never meets a WAL.
THEOREM OwnWalIsAcceptedThm == Spec => []OwnWalIsAccepted
<1>1. IndInv => OwnWalIsAccepted
  BY DEF IndInv, UnitInv, OwnWalIsAccepted
<1>. QED
  BY <1>1, Invariance, PTL

\* The unit's ExecCondition says what the tool's settings say.
THEOREM StartsOnlyWhenEnabledThm == Spec => StartsOnlyWhenEnabled
<1>1. ASSUME IndInv, [Next]_vars, agent # "active", agent' = "active"
      PROVE  enabled(env)
  <2>1. StartUnit
    <3>1. ASSUME NEW p \in Commands,
                 Begins(p) \/ Looks(p) \/ AdoptDataDir(p) \/ Writes(p) \/ Fail(p)
          PROVE  agent' = agent
      BY <1>1, <3>1, BeginEffect, LookEffect, AdoptEffect, WriteEffect, FailEffect
      DEF IndInv, unit
    <3>2. UnitStep => StartUnit \/ agent' = agent \/ agent' # "active"
      BY DEF UnitStep, Exit, AutoRestart, StopDone, RequestStart, RequestStop, Reboot, unit
    <3>. QED
      BY <1>1, <3>1, <3>2, Kinds DEF EditEnv, vars, unit
  <2>2. ExecCondition
    BY <1>1, <2>1 DEF StartUnit
  <2>. QED
    BY <2>2 DEF ExecCondition, enabled, monitoring_mode
<1>2. IndInv /\ [Next]_vars =>
        [agent # "active" /\ agent' = "active" => enabled(env)]_vars
  BY <1>1
<1>. QED
  BY <1>2, Invariance, PTL DEF Spec, StartsOnlyWhenEnabled
=============================================================================
