---------------------------- MODULE AgentInstall ----------------------------
(***************************************************************************)
(* The Prometheus Agent's installation and lifecycle: agent.py (install,   *)
(* check_existing), monitoring.py (the `monitoring` commands and the start *)
(* a node start asks for), and seismic-prometheus-agent.service.           *)
(*                                                                         *)
(* The commands take no lock.  Any number of them run at once, may be cut  *)
(* off between two writes, and read node.env once, when they begin, while  *)
(* an operator edits it.  The unit may be enabled: a reboot starts it      *)
(* without any command, and Restart=always brings it back.                 *)
(*                                                                         *)
(* A file is what decides whether two of them fit: a bearer token is the   *)
(* receiver it was issued by, prometheus.yml its destinations, targets.json*)
(* the services it names.  Every file is replaced with one rename(2).      *)
(* systemd is external, as in NodeServices.                                *)
(***************************************************************************)
EXTENDS Naturals

CONSTANTS
  Commands,      \* CLI processes; each runs one command after another
  Receivers,     \* the operator's own remote-write receivers
  DataDirs,      \* values of MONITORING_DATA_DIR
  Unrelated,     \* the nonempty directories among them that are not a WAL
  Envs,          \* Envs[r]: the node.env files an operator of role r writes
  MaxEdits,      \* bound on edits of node.env
  MaxMishaps,    \* bound on failures, kills, reboots and agent exits
  None           \* no file, no URL, no configuration

Roles == {"validator", "observer"}
Modes == {"", "off", "push", "pull"}

\* What nodeenv.load accepts of the MONITORING_* keys.
EnvFiles(r) ==
  {e \in [mode : Modes, operator : Receivers \cup {None},
          checkpointer : BOOLEAN, data_dir : DataDirs] :
     r = "observer" => /\ e.mode # "pull"
                       /\ e.mode = "push" => e.operator # None}

\* The contents of prometheus.yml that matter.
Configs == [seismic : BOOLEAN, operator : Receivers \cup {None}, credential : BOOLEAN]

ASSUME EnvsAssumption ==
  /\ \A r \in Roles : Envs[r] \subseteq EnvFiles(r)
  /\ Unrelated \subseteq DataDirs
  /\ None \notin Receivers \cup Configs
  /\ {MaxEdits, MaxMishaps} \subseteq Nat

VARIABLES
  role,    \* SEISMIC_ROLE; a node keeps it
  env,     \* the rest of node.env
  files,   \* what an install writes:
           \*   token           is Seismic's token there?
           \*   operator_token  whose token operator-token holds, or None
           \*   targets         services targets.json names; {} if missing
           \*   config          prometheus.yml, or None
           \*   binary          does `current` lead to a release?
  dir,     \* dir[d]: what data directory d holds
  agent,   \* ActiveState of seismic-prometheus-agent.service
  loaded,  \* the configuration its process runs with, or None
  cmd,     \* cmd[p]: command p.  pc is where it is, values node.env as it
           \* read it, given the operator token it holds or has seen, clear
           \* (history) whether no other install has overlapped it
  edits, mishaps, \* how often each has happened
  \* history
  raced,   \* the agent was started by a command an install overlapped
  cut,     \* an install was cut off after it wrote the operator's token
  muddled  \* an install wrote the operator's token for another node.env, or
           \* node.env was edited between that write and the install's last,
           \* or after a cut; one install that no other overlaps puts both
           \* right, whatever node.env says by then

node   == <<role, env>>
unit   == <<agent, loaded, raced>>
bounds == <<edits, mishaps>>
past   == <<cut, muddled>>
vars   == <<node, files, dir, unit, cmd, bounds, past>>

\* An install is in the middle between the operator's token and its last write.
MiddlePcs  == {"targets", "config"}
InstallPcs == {"require_stopped", "adopt", "release", "token", "operator_token",
               "installed"} \cup MiddlePcs
StartPcs   == {"read_tokens", "read_config", "read_targets", "look", "request"}
Pcs        == {"idle", "stop"} \cup InstallPcs \cup StartPcs

-----------------------------------------------------------------------------
(* Settings and rendered files. *)

Services == {"summit", "reth", "custodian", "checkpointer"}

\* Mutant: the proxy, which has no metrics, is scraped as well.
ScrapeProxy(e) == Services \cup {"openresty"}

scrape_targets(e) ==
  {"summit", "reth", "custodian"} \cup (IF e.checkpointer THEN {"checkpointer"} ELSE {})

\* nodeenv: a blank mode is the role's default.
monitoring_mode(e) ==
  IF e.mode # "" THEN e.mode ELSE IF role = "validator" THEN "push" ELSE "off"

enabled(e) == monitoring_mode(e) = "push"

PushesToSeismic == role = "validator"

render(e, credential) ==
  [seismic |-> PushesToSeismic, operator |-> e.operator, credential |-> credential]

\* check_existing, read in one go.
Matches(e) ==
  /\ PushesToSeismic => files.token
  /\ files.config = render(e, e.operator # None /\ files.operator_token # None)
  /\ files.targets = scrape_targets(e)
  /\ files.binary
  /\ dir[e.data_dir] # "missing"

TypeOK ==
  /\ role \in Roles /\ env \in Envs[role]
  /\ files \in [token : BOOLEAN, operator_token : Receivers \cup {None},
                targets : SUBSET Services, config : Configs \cup {None},
                binary : BOOLEAN]
  /\ dir \in [DataDirs -> {"missing", "unrelated", "empty", "wal"}]
  /\ agent \in {"inactive", "activating", "active", "deactivating"}
  /\ loaded \in Configs \cup {None}
  /\ cmd \in [Commands -> [pc : Pcs, values : Envs[role] \cup {None},
                           given : BOOLEAN, clear : BOOLEAN]]
  /\ edits \in 0 .. MaxEdits /\ mishaps \in 0 .. MaxMishaps
  /\ {raced, cut, muddled} \subseteq BOOLEAN

Idle == [pc |-> "idle", values |-> None, given |-> FALSE, clear |-> FALSE]

Init ==
  /\ role \in Roles /\ env \in Envs[role]
  /\ files = [token |-> FALSE, operator_token |-> None, targets |-> {},
              config |-> None, binary |-> FALSE]
  /\ dir = [d \in DataDirs |-> IF d \in Unrelated THEN "unrelated" ELSE "missing"]
  /\ agent = "inactive" /\ loaded = None /\ raced = FALSE
  /\ cmd = [p \in Commands |-> Idle]
  /\ edits = 0 /\ mishaps = 0
  /\ cut = FALSE /\ muddled = FALSE

-----------------------------------------------------------------------------
(* The unit. *)

\* Mutant: a blank mode is taken for push on every node.
ExecConditionForgetsRole == env.mode \in {"push", ""}

\* The unit's own reading of MONITORING_MODE and SEISMIC_ROLE, in sh.
ExecCondition ==
  env.mode = "push" \/ (env.mode = "" /\ role = "validator")

ConditionPathExists == files.config # None

\* A start job.  A condition that does not hold skips it.
StartUnit ==
  IF ConditionPathExists /\ ExecCondition
  THEN /\ agent' = "active"
       /\ loaded' = files.config
       /\ dir' = [dir EXCEPT ![env.data_dir] = IF @ = "empty" THEN "wal" ELSE @]
  ELSE agent' = "inactive" /\ loaded' = None /\ dir' = dir

\* The process ends; Restart=always, up to the start limit.
Exit ==
  /\ agent = "active"
  /\ mishaps < MaxMishaps
  /\ mishaps' = mishaps + 1
  /\ agent' \in {"activating", "inactive"}
  /\ loaded' = None
  /\ UNCHANGED <<node, files, dir, raced, cmd, edits, past>>

AutoRestart ==
  /\ agent = "activating"
  /\ StartUnit
  /\ UNCHANGED <<node, files, raced, cmd, bounds, past>>

StopDone ==
  /\ agent = "deactivating"
  /\ agent' = "inactive"
  /\ loaded' = None
  /\ UNCHANGED <<node, files, dir, raced, cmd, bounds, past>>

-----------------------------------------------------------------------------
(* Commands: control flow. *)

Installing(p) == cmd[p].pc \in InstallPcs

At(p, label) == cmd[p].pc = label
Goto(p, label) == cmd' = [cmd EXCEPT ![p].pc = label]
End(p) == cmd' = [cmd EXCEPT ![p] = Idle]

\* A refusal ends the command.
GotoIf(condition, p, label) ==
  \/ condition /\ Goto(p, label)
  \/ ~condition /\ End(p)

\* node.env is loaded first, whatever the command.
Begin(p, label, with) ==
  LET install == label = "require_stopped" IN
  /\ At(p, "idle")
  /\ cmd' = [q \in Commands |->
       IF q = p
       THEN [pc |-> label, values |-> IF label = "stop" THEN None ELSE env,
             given |-> with, clear |-> \A r \in Commands : ~Installing(r)]
       ELSE [cmd[q] EXCEPT !.clear = @ /\ ~install]]
  /\ UNCHANGED <<node, files, dir, unit, bounds, past>>

-----------------------------------------------------------------------------
(* monitoring install *)

\* Settings and handoff files are read and valid.  A token comes from the
\* receiver node.env names.
BeginInstall(p, with) ==
  /\ enabled(env)
  /\ with => env.operator # None
  /\ Begin(p, "require_stopped", with)

\* Mutant: a unit waiting for its automatic restart passes for stopped.
RequireNotActive(p) ==
  /\ At(p, "require_stopped")
  /\ GotoIf(agent # "active", p, "adopt")
  /\ UNCHANGED <<node, files, dir, unit, bounds, past>>

require_stopped(p) ==
  /\ At(p, "require_stopped")
  /\ GotoIf(agent = "inactive", p, "adopt")
  /\ UNCHANGED <<node, files, dir, unit, bounds, past>>

\* Mutant: any directory is taken over.
AdoptAnyDir(p) ==
  LET d == cmd[p].values.data_dir IN
  /\ At(p, "adopt")
  /\ dir' = [dir EXCEPT ![d] = IF @ = "missing" THEN "empty"
                               ELSE IF @ = "unrelated" THEN "wal" ELSE @]
  /\ Goto(p, "release")
  /\ UNCHANGED <<node, files, unit, bounds, past>>

\* A nonempty directory is taken over once there is a configuration.
AdoptDataDir(p) ==
  LET d       == cmd[p].values.data_dir
      adopted == files.config # None \/ dir[d] \in {"missing", "empty"} IN
  /\ At(p, "adopt")
  /\ dir' = [dir EXCEPT ![d] = IF ~adopted THEN @
                               ELSE IF @ = "missing" THEN "empty"
                               ELSE IF @ = "unrelated" THEN "wal" ELSE @]
  /\ GotoIf(adopted, p, "release")
  /\ UNCHANGED <<node, files, unit, bounds, past>>

\* One atomic replacement.
Write(p, label, file, content, next) ==
  /\ At(p, label)
  /\ files' = [files EXCEPT ![file] = content]
  /\ Goto(p, next)
  /\ UNCHANGED <<node, dir, unit, bounds>>

\* Mutant: `current` is left as it was.
ReleaseWithoutLink(p) ==
  Write(p, "release", "binary", files.binary, "token") /\ UNCHANGED past

\* Download and verification, the two executables, then `current`; the staged
\* configuration has passed promtool.
install_release(p) ==
  Write(p, "release", "binary", TRUE, "token") /\ UNCHANGED past

WriteToken(p) ==
  Write(p, "token", "token", PushesToSeismic, "operator_token") /\ UNCHANGED past

\* History: was the token written for node.env as it is?
TokenWritten(p) ==
  /\ muddled' = (muddled \/ cmd[p].values # env)
  /\ UNCHANGED cut

\* Mutant: a token the new configuration does not use is left behind.
LeaveOperatorToken(p) ==
  /\ Write(p, "operator_token", "operator_token",
           IF cmd[p].given THEN cmd[p].values.operator ELSE files.operator_token,
           "targets")
  /\ TokenWritten(p)

\* Mutant: a token that is already there is kept.
KeepOperatorToken(p) ==
  /\ Write(p, "operator_token", "operator_token",
           IF ~cmd[p].given THEN None
           ELSE IF files.operator_token # None THEN files.operator_token
           ELSE cmd[p].values.operator, "targets")
  /\ TokenWritten(p)

\* Written when the configuration refers to it, removed otherwise.
WriteOperatorToken(p) ==
  /\ Write(p, "operator_token", "operator_token",
           IF cmd[p].given THEN cmd[p].values.operator ELSE None, "targets")
  /\ TokenWritten(p)

WriteTargets(p) ==
  Write(p, "targets", "targets", scrape_targets(cmd[p].values), "config")
    /\ UNCHANGED past

\* The last write completes the installation.
WriteConfig(p) ==
  /\ Write(p, "config", "config", render(cmd[p].values, cmd[p].given), "installed")
  /\ cut' = (cut /\ ~cmd[p].clear)
  /\ muddled' = (muddled /\ ~cmd[p].clear)

FinishInstall(p) ==
  /\ At(p, "installed")
  /\ End(p)
  /\ UNCHANGED <<node, files, dir, unit, bounds, past>>

-----------------------------------------------------------------------------
(* monitoring start, and ensure_running after a node start, which read      *)
(* node.env when the node start began.  monitoring check ends after the     *)
(* reads; it and monitoring status change nothing.                          *)

BeginStart(p) == enabled(env) /\ Begin(p, "read_tokens", FALSE)

\* check_existing reads one file after another and ends at the first that
\* does not match.
ReadTokens(p) ==
  /\ At(p, "read_tokens")
  /\ cmd' = [cmd EXCEPT ![p] =
       IF PushesToSeismic /\ ~files.token THEN Idle
       ELSE [@ EXCEPT !.pc = "read_config",
                      !.given = @ \/ (cmd[p].values.operator # None
                                       /\ files.operator_token # None)]]
  /\ UNCHANGED <<node, files, dir, unit, bounds, past>>

ReadConfig(p) ==
  /\ At(p, "read_config")
  /\ GotoIf(files.config = render(cmd[p].values, cmd[p].given), p, "read_targets")
  /\ UNCHANGED <<node, files, dir, unit, bounds, past>>

ReadTargets(p) ==
  /\ At(p, "read_targets")
  /\ GotoIf(/\ files.targets = scrape_targets(cmd[p].values)
            /\ files.binary
            /\ dir[cmd[p].values.data_dir] # "missing", p, "look")
  /\ UNCHANGED <<node, files, dir, unit, bounds, past>>

\* start_service: a running unit is left alone, a moving one refused.
Look(p) ==
  /\ At(p, "look")
  /\ GotoIf(agent = "inactive", p, "request")
  /\ UNCHANGED <<node, files, dir, unit, bounds, past>>

\* systemctl start waits for a unit that moves and leaves a running one
\* alone.  The look afterwards only decides what is printed.
RequestStart(p) ==
  /\ At(p, "request")
  /\ \/ agent = "inactive" /\ StartUnit /\ raced' = ~cmd[p].clear
     \/ agent = "active" /\ UNCHANGED <<dir, unit>>
  /\ End(p)
  /\ UNCHANGED <<node, files, bounds, past>>

-----------------------------------------------------------------------------
(* monitoring stop: possible whatever MONITORING_MODE says.  Once the       *)
(* request is made, the command only waits for StopDone.                    *)

BeginStop(p) == Begin(p, "stop", FALSE)

RequestStop(p) ==
  /\ At(p, "stop")
  /\ agent' = IF agent = "activating" THEN "inactive"
              ELSE IF agent = "active" THEN "deactivating" ELSE agent
  /\ End(p)
  /\ UNCHANGED <<node, files, dir, loaded, raced, bounds, past>>

-----------------------------------------------------------------------------
(* Operators and failures. *)

EditEnv ==
  /\ edits < MaxEdits
  /\ edits' = edits + 1
  /\ env' \in Envs[role] \ {env}
  /\ muddled' = (muddled \/ cut \/ \E p \in Commands : cmd[p].pc \in MiddlePcs)
  /\ UNCHANGED <<role, files, dir, unit, cmd, mishaps, cut>>

\* A kill, Ctrl-C, an I/O error, a failed download, a promtool refusal.
Fail(p) ==
  /\ ~At(p, "idle")
  /\ mishaps < MaxMishaps
  /\ mishaps' = mishaps + 1
  /\ End(p)
  /\ cut' = (cut \/ cmd[p].pc \in MiddlePcs)
  /\ UNCHANGED <<node, files, dir, unit, edits, muddled>>

\* Every command is gone; an enabled unit is started at boot.
Reboot(at_boot) ==
  /\ mishaps < MaxMishaps
  /\ mishaps' = mishaps + 1
  /\ cmd' = [p \in Commands |-> Idle]
  /\ \/ at_boot /\ StartUnit
     \/ ~at_boot /\ agent' = "inactive" /\ loaded' = None /\ dir' = dir
  /\ raced' = FALSE
  /\ cut' = (cut \/ \E p \in Commands : cmd[p].pc \in MiddlePcs)
  /\ UNCHANGED <<node, files, edits, muddled>>

-----------------------------------------------------------------------------
(* The specification. *)

Step(p) ==
  \/ require_stopped(p) \/ AdoptDataDir(p)  \/ install_release(p)
  \/ WriteToken(p)      \/ WriteOperatorToken(p)
  \/ WriteTargets(p)    \/ WriteConfig(p)   \/ FinishInstall(p)
  \/ ReadTokens(p)      \/ ReadConfig(p)    \/ ReadTargets(p)
  \/ Look(p)            \/ RequestStart(p)
  \/ RequestStop(p)

Next ==
  \/ \E p \in Commands :
       \/ \E with \in BOOLEAN : BeginInstall(p, with)
       \/ BeginStart(p) \/ BeginStop(p) \/ Step(p) \/ Fail(p)
  \/ \E at_boot \in BOOLEAN : Reboot(at_boot)
  \/ EditEnv \/ Exit \/ AutoRestart \/ StopDone

Spec == Init /\ [][Next]_vars

-----------------------------------------------------------------------------
(* Properties. *)

\* `monitoring check` accepts what `monitoring install` leaves behind (the
\* sequence of RUNBOOK.md 3.12), from whatever an earlier install or its
\* interruption left, and no token the configuration does not use is still
\* there (agent.py: "no stale credential is left behind").
InstallSatisfiesCheck ==
  \A p \in Commands :
    cmd[p].clear /\ At(p, "installed") /\ cmd[p].values = env =>
    /\ Matches(env)
    /\ files.token = PushesToSeismic
    /\ files.operator_token = IF cmd[p].given THEN env.operator ELSE None

\* What check_existing accepts sends the operator's token to no receiver but
\* the one it came from, after any edits, interruptions and overlaps, as long
\* as no install has left its token beside another node.env than its own
\* (`muddled`).  In that case the code does send it elsewhere: with a token
\* for a new receiver written, the install cut off and node.env edited back,
\* the old configuration is accepted.  An install that ends alone ends that.
CheckedTokenFits ==
  ~muddled /\ enabled(env) /\ Matches(env) =>
    files.operator_token \in {None, env.operator}

\* The agent runs what is installed (monitoring install "refuses to replace a
\* running agent's files"): started by a reboot, an automatic restart or a
\* command that no install overlapped, its configuration is the file's.
RunsWhatIsInstalled == agent = "active" /\ ~raced => loaded = files.config

\* An agent that runs has been installed to the end: whatever was cut off or
\* overlapped, a reboot or a node start never runs a first installation that
\* was not finished (monitoring.py: "its binary, config and token only exist
\* after `monitoring install`").
ActiveIsInstalled ==
  agent = "active" => files.binary /\ files.targets # {} /\ (loaded.seismic => files.token)

\* An install refuses a data directory as unrelated only if the agent never
\* wrote to it: no interruption leads to a WAL of its own being refused.
OwnWalIsAccepted ==
  \A d \in DataDirs : dir[d] = "wal" => files.config # None

\* Nobody starts the agent while node.env, as the tool reads it, disables it:
\* the unit's own condition says the same, at boot too.
StartsOnlyWhenEnabled ==
  [][agent # "active" /\ agent' = "active" => enabled(env)]_vars
=============================================================================
