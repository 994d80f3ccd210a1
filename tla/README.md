# Verification of seismic-node-ops

TLA+ specifications of the operator tooling in this repository
(`tools/seismic-node.py` and `tools/seismic_node/`), the TLC configurations
that model-check them on small instances, and theorems about them that TLAPS
proves for instances of any size. Line numbers are those of the sources beside
this directory; the exact lines each definition stands for are in
`PROJECT.json`, under `map`.

## 1. The system

`seismic-node-ops` installs and operates a Seismic node: Reth (execution),
Summit (consensus), a custodian, and optionally a checkpointer, each a systemd
unit. There is no daemon of its own. The state is the node's disk and systemd's
units; what changes it are short-lived root commands, any number of which may
be run at once by different operators, may be interrupted anywhere, and have
only one lock (Summit's) in common.

| component | source | state | operations | status |
| --- | --- | --- | --- | --- |
| checkpoint transaction | `checkpoint.py` | live Reth and Summit data, startup files, backups with receipts, `.summit-process.lock` | `checkpoint install`, `rollback`, `delete-backup` | modelled |
| checkpoint-start runner | `summit-checkpoint-runner.py` | the same lock | take the lock, become Summit | its lock only |
| service control, deposit signing | `systemd.py`, `validator.py` | unit states, the start requests of a command | start, stop, `deposit-signature` | modelled |
| validator onboarding | `seismic-node.py`, `validator.py` | the start decision, two deadlines, the selected epoch | `validator onboard` | modelled from the first lifecycle check on |
| snapshot download | `download.py` | selected epoch, polling deadline | epoch selection, manifest polling, streaming | selection and polling |
| RPC clients | `rpc.py` | none | one request each | inputs of the models |
| monitoring agent | `agent.py`, `monitoring.py`, the agent's unit | tokens, targets, configuration, release, data directory | `monitoring install`, `check`, `status`, `start`, `stop`; the start after a node start | modelled |
| inventory, file checks | `nodeenv.py`, `fsutil.py`, `errors.py` | none | parsing, validation | not modelled |
| installer | `install/` scripts | keys, assignment marker, JWT secret, `node.env`; users, binaries, rendered files | eleven steps, run together or some of them | the steps config, keys and tls |
| systemd units | `install/templates/systemd` | unit relations | systemd's | as `systemd` in NodeServices |
| gateway, alerts, docs, tests | the rest | third party | | not modelled |

How they interact: `validator onboard` (and `checkpoint install`) resolves a
checkpoint over the network, runs the checkpoint transaction, and then service
control. The transaction asks systemd whether services are stopped and takes
the lock that Summit and the checkpoint-start runner hold while they run. Reth
takes no lock. The deposit RPC shares Summit's keys and is kept apart from it
by `require_stopped` and the units' `Conflicts=`. The installer comes first: it makes
the keys and the `node.env` that everything else reads, and starts nothing. A
node start ends by starting the monitoring agent, if `node.env` enables it and an
install has left what it needs; systemd starts an enabled agent at boot without
asking the tool.

What is hard, and what correctness means, for each part:

* **Checkpoint transaction.** A dozen renames and copies that are atomic one
  by one and not together; kills between any two; errors whose handler works on
  the half-done result; receipts read before a prompt and used after it; a
  command that takes no lock. Correct: state can be recovered after every
  interruption, a receipt never claims more than happened, transactions exclude
  each other.
* **Service control.** Commands read unit states one at a time and act on what
  they read, while units exit and systemd restarts them, stops what requires
  them, and other operators act. Correct: a failed start leaves nothing of its
  own behind, a stop leaves nothing running and respects dependencies, the
  deposit RPC never outlives its command.
* **Onboarding.** Unlimited or bounded waits on a network and a provider that
  owe nothing; answers that are stale once a download is over. Correct: nothing
  is replaced before the decision, nothing starts on a stale status, budgets
  and explicit epochs are respected.
* **Monitoring agent.** Five things are replaced one after another by commands
  that take no lock, hold a `node.env` they read when they began, and may be cut
  off; a start compares them one by one, and the unit has a condition of its own.
  Correct: what the checks accept fits together, an operator's token goes to the
  receiver it came from, the agent runs what is installed, and no interruption
  makes the next install impossible.
* **Installer.** Keys, a marker that says whose they are, a secret, and three
  files that refer to it are written one after the other, by a script that stops
  at the first error and is meant to be run again, perhaps with another role,
  assignment or path. Correct: nothing that cannot be made again is replaced, no
  identity is put together from two, and what refers to a key or a secret refers
  to one that is there.

The 40 places where this code can go wrong in ways a test would hardly reach
are listed in `PROJECT.json` under `hazards`, with the properties that cover
them or the reason why none does.

## 2. The modules

```
CheckpointTransaction
 ├─ CheckpointClaims ──────────────────────────── MCCheckpointTransaction
 └─ CheckpointInvariants                                 │
     ├─ CheckpointRefinement ────────────────────────────┘
     │    (INSTANCE CheckpointSwap)
     └─ CheckpointTransactionProofs ── CheckpointRestoreProofs
          └─ CheckpointTheorems ── CheckpointSwapTheorems
                                   (with CheckpointRefinement)
NodeServices ─┬─ NodeClaims ── MCNodeServices
              └─ NodeTheorems
ValidatorOnboarding ── OnboardingTheorems
InstallerKeys ─┬─ MCInstallerKeys
               └─ InstallerTheorems
AgentInstall ─┬─ MCAgentInstall
              └─ AgentTheorems
```

Definitions beginning with "Mutant:" in their comment are plausible defects.
They are not part of any specification; a property is kept only if putting such
a defect in the place of the definition below it makes TLC refute the property.

### CheckpointTransaction

The content of every replaceable path (an *item*: Reth's `db` and
`static_files`, each entry of Summit's data directory, the checkpoint, the two
startup files) is reduced to its lineage: `Absent`, `Torn` (half written or half
removed), `Original`, `Fresh` (created by a program on an empty path), or `b`,
put there by the b-th install. A running program changes data without changing
their lineage.

| code | model |
| --- | --- |
| live paths; a backup directory; `rollback-manifest.json` | `live`; `saved[b]`; `receipt[b]`, `previous[b]` |
| `.summit-process.lock`; units not reported stopped | `lock`; `running` |
| a command's place, receipt in memory, rest of a loop | `pc`, `op`, `bk`, `seen`, `todo` |
| `install_checkpoint` up to the confirmation | `StartInstall` |
| `require_services_stopped`, `acquire_summit_lock` | `RequireServicesStopped`, `AcquireSummitLock` and their refusals |
| `create_backup`, `backup_current_state` | `CreateBackup`, `MoveToBackup`, `BeginCopy`/`FinishCopy`, `SkipMissing` |
| `install_new_state` | `InstallItem`, `RefuseInstallItem`, `MarkInstalled` |
| `restore_backup` | `BeginRemove`/`FinishRemove`, `MoveBack`, `RefuseMoveBack`, `RestoreFile`, `LeaveItem`, `MarkRestored`; `move_back` is the place between the look at the backup (`Replaces`) and `move_path` (`CannotMove` is its refusal) |
| `for` loops and directory listings | `NextLoop`, `Listing` |
| `delete_backup` | `StartDelete`, `DeleteBackup`, `RefuseDelete`; cut off inside `rmtree`: `CutDeletion` |
| `except Exception`, `finally` | `Raise`, `EndCommand` |
| an I/O error; SIGKILL, power loss, Ctrl-C, a declined prompt | `IoError`; `Kill` |
| a unit starting (a Summit one only with the lock), stopping | `StartProgram`, `StopProgram` |

A step is one file-system call on one item. Directory operations are taken to
reach the disk in order, so a power loss is a kill. `snapshot` and
`compromised` are history: what was live when a receipt was written, and which
backups something other than their own install and one uninterrupted rollback
has touched (another transaction that moves state, or a rollback cut short).

Not in the model: reading and verifying the archive, the manifest and the
anchor, and the staging directory, all of which happen before the first change
and can only end the command (`StartInstall` begins where they have passed);
ownership and modes.

A deletion renames the backup to `.<name>.deleting-<pid>` and then removes it
file by file. If it is cut off before it comes to the receipt, what is left is a
directory that `select_backup` lists and that rollback and deletion accept:
`CutDeletion` makes it `Leftover(b)`, with the receipt, with the items of some
set in `Leavings` whole, one of the others perhaps torn, and the rest gone. A
deletion that has reached the receipt leaves nothing a command would accept,
and is `DeleteBackup`. Each backup leaves one such directory at most, and its
own deletion is not cut off.

### CheckpointSwap and CheckpointRefinement

CheckpointSwap is what the transaction promises, in eight actions: a node's
state is exchanged for a checkpoint (`Announce`, `Commit`), given back
(`Abort`; `Open`, `Undo`), or left `InTransit` by a mover that is cut off
(`CutOff`); a backup is thrown away (`Discard`), or a part of it stays behind
under another name (`Leave`); and programs fill in what they
do not find (`Use`). There are no files, no lock and no commands in it.

CheckpointRefinement maps `CheckpointTransaction` to it:

| CheckpointSwap | CheckpointTransaction |
| --- | --- |
| `node` | `live` without the startup files, or `InTransit` while a command moves state or an install that nothing has touched lies interrupted |
| `status`, `base`, `spoilt` | `receipt`, `snapshot`, `compromised` |
| `mover` | the backup of the command that is moving state |

`CreateBackup` is then `Announce`, `BeginRollback` is `Open`, `MarkInstalled` is
`Commit`, `MarkRestored` is `Abort` or `Undo`, `Kill` (or an error nothing
handles) is `CutOff`, `DeleteBackup` is `Discard`, `CutDeletion` is `Leave`,
`StartProgram` is `Use`, and
every rename, copy and removal in between is a stutter: nobody who looks while
nothing moves sees a part of a swap. What the abstract specification leaves open
is what the code leaves open: a spoilt backup promises nothing, and the end of a
rollback says nothing of startup files (they are copied back, see claim 3 below).

### NodeServices

`unit[u]` is systemd's `ActiveState`, with `activating` for a unit that waits
for its automatic restart, `deactivating` for one being stopped, and
`restarting` for one that is being stopped (it reports `deactivating`) with a
start job behind it. Every
`systemctl` call is a step. `Check` is `require_stopped`, one unit per step;
`ReadBefore`, `RequestStart`, `ReadAfter` are `start_service`; `RequestStop`,
`AwaitStop`, `StopRefused` are `stop_service`; `Unwind` is the `except` clause
of `start_node` and the `finally` clause of the deposit command; `EndPoll` is
every way out of the deposit RPC's poll loop; `Interrupt` is Ctrl-C, which
`except Exception` does not catch, and `finally` does.

systemd is external: `StartJob` and `StopJob` do what `Requires=` and
`Conflicts=` of the unit files ask for, `Exit` and `AutoRestart` what
`Restart=` does, `StopDone` orders Reth's stop after Summit's. When the restart
of a failed Reth is due, systemd passes it on to the running Summit units that
require it (`RestartDependents`), and Reth starts when these are down. The
model has the two in two steps, between which a Summit may start or exit.
systemd guarantees no order between the stop of a conflicting unit and the start of
the new one (no `After=` between them is declared).

An observer runs the same code over units with the same relations
(`summit-observer` for `summit`) and has no deposit command.

### ValidatorOnboarding

The arguments are chosen in `Init` (every combination the parser accepts), the
status of the validator account is arbitrary at each read, the network's epoch
grows at any time, the provider serves any manifest or none. `CheckLifecycle`
is one round of `wait_for_start_authorization` (and of
`start_onboarded_validator` in the second check); `Select`, `AwaitEpoch`,
`ProbeNewest`, `FetchManifest` are `select_epoch`; `Anchor` is the
weak-subjectivity check; `Install` and `StartValidator` stand for the two other
models. A deadline is the number of poll intervals left (`waitLeft`,
`snapshotLeft`); time also passes between steps (`TimePasses`). 0 is the
command line's "no deadline".

### InstallerKeys

Key material and secrets are numbers, the *generation* that made them; 0 is what
the operator brought along, and a parent's node key bears the parent's name. So
two halves of one pair are equal, and a replaced key is a different number. A
file is `None` (not there), `Empty` (created by `install` and not yet written)
or has such contents. `mv` is atomic, `install` is two steps.

| code | model |
| --- | --- |
| `--config`, `--only`: role, assignment, use and path of the secret | `run`, chosen by `StartRun` from `Runs` |
| the place in the script; steps that ended well | `pc`; `completed` |
| key files, `observer-assignment` | `key`, `assignment` |
| `node.env`: does its trusted-peer list name the node itself? | `node_env` |
| the secret's file, the handler, `openresty-jwt-secret.path` | `secret`, `jwt_lua`, `path_file` |
| `step_config`, the second rendering in `step_keys` | `BeginNodeEnv`, `WriteNodeEnv` |
| `setup_reth_p2p_key` | `SetupP2pKey` |
| `setup_validator_summit_keys` | `AdoptValidatorKeys`, `GenerateValidatorKeys`, `BeginInstallKey`, `WriteKey` |
| `setup_observer_summit_keys` | `AdoptObserverKey`, `GenerateObserverKey`, `CheckParentKey`, `Assign` |
| `setup_openresty_jwt_secret`, `deploy_openresty_configuration` | `SetupSecret`, `BeginInstallLua`, `WriteLua`, `PersistSecretPath` |
| the token tool's lookup | `ToolPath` |
| `die`, the `ERR` trap, a kill | `Fail`, possible at every step |
| the parent's operator handing over a node key | `Provision`, between runs |

A run begins where the one before ended or was cut off, with any arguments.
The node begins with or without a handler that has a secret embedded, and with
or without a secret of the operator's own (generation 0) at any path; both
together are the case `LegacySecretSurvives` excepts. `made_for` is history: the
assignment in force when a generation was made. Runs
do not overlap, which the code leaves to the operator. Peering is `trusted`; in
the other mode the list depends on no key. Accounts, directories, packages,
binaries, units and templates are copies that touch none of this state. A staging
directory a failure leaves behind is never read again.

### AgentInstall

A file's content is what decides whether two files fit: a bearer token is the
receiver it was issued by, `prometheus.yml` its two destinations and whether it
refers to the operator's token, `targets.json` the services it names. A
replacement is one `rename(2)`, as in `atomic_write`.

| code | model |
| --- | --- |
| `SEISMIC_ROLE`; the `MONITORING_*` keys and the checkpointer's switch | `role`; `env`, from `Envs[role]`, changed by `EditEnv` |
| what an install writes; the data directories | `files`; `dir` |
| the unit; the configuration its process runs with | `agent`; `loaded` |
| a command's place, its reading of `node.env`, its token | `cmd[p].pc`, `.values`, `.given` |
| `agent.install` | `BeginInstall`, `require_stopped`, `AdoptDataDir`, `install_release`, `WriteToken`, `WriteOperatorToken`, `WriteTargets`, `WriteConfig`, `FinishInstall` |
| `scrape_targets`, `render`, `enabled` | the operators of these names |
| `monitoring start`, `ensure_running` | `BeginStart`, `ReadTokens`, `ReadConfig`, `ReadTargets` (`check_existing`, file by file), `Look`, `RequestStart` |
| `monitoring stop` | `BeginStop`, `RequestStop` |
| `monitoring check`, `status` | nothing: they read and change nothing |
| `ConditionPathExists=`, `ExecCondition=`, `Restart=always`, `WantedBy=` | `StartUnit`, `Exit`, `AutoRestart`, `Reboot` |
| errors, kills, Ctrl-C | `Fail`, possible at every step |

`raced`, `cut`, `muddled` and `cmd[p].clear` are history and say which of the
ways to confuse an installation that nothing in the code excludes have happened:
a start that an install overlapped (`raced`); an install cut off after it wrote
the operator's token (`cut`); an operator's token written for another `node.env`
than there is, or `node.env` edited between that write and the install's last
or after a cut (`muddled`); and an install that no other overlapped (`clear`),
which puts the last two right. The node start hands `ensure_running` the `node.env` it read when it
began, which is `BeginStart` at that moment.

## 3. The runs

| run | instance | distinct states | shows |
| --- | --- | --- | --- |
| CheckpointConcurrent | 2 commands, Reth and Summit, 2 Summit entries, 1 install, 2 kills or errors, a node that has every item, an earlier checkpoint included, fairness | 148 846 | `LockExclusion`, `InterruptedInstallIsRecoverable`, `InstalledIsMatched`, `AutomaticRollbackRestores`, `RollbackRestores`, `ReceiptLifecycle`, the refinement `ImplementsSwap`, and `CommandsFinish` |
| CheckpointSequence | 1 command at a time, 2 installs, any rollbacks and deletions, 1 kill, error or cut-off deletion, nodes with and without an earlier checkpoint | 2 027 934 | `InterruptedInstallIsRecoverable`, `RestoreIsUnobstructed` and `ImplementsSwap`, over two backups and what a deletion left of them |
| NodeAlone | 1 operator, checkpointer enabled, 3 exits, 1 refused stop, 1 Ctrl-C, fairness | 477 264 | `UnwoundStart`, `NodeStopped`, `RethStopsLast`, `CommandsEnd` |
| NodeShared | 2 operators, 1 exit, 1 Ctrl-C | 1 424 066 | `DepositRpcIsOwned`, `KeysAreExclusive`, `StartStopsNothing` |
| InstallerKeys | 3 generations, 2 parents, 1 index, the default secret path and another, runs of `config,keys`, `keys` or `tls` | 5 830 645 | its six invariants and action properties beside the types |
| ValidatorOnboarding | epochs 0..3, maximal anchor age 1, timeouts 0 or small, fairness | 550 852 | its five properties, `OnboardingEnds` |
| AgentInstall | both roles, 2 commands, 2 receivers, 2 data directories (one in use by something else), 3 `node.env` files for each role, 2 edits, 1 failure, reboot or exit | 5 214 336 | its six invariants and action properties beside the types |

Why these bounds. Interference between transactions needs two commands, or one
and a Summit program; a third adds only another holder of the same lock. One
mishap interrupts an operation, a second its recovery. Two Summit entries are
the fewest for which a loop over the directory can be cut in the middle with
something on either side. A receipt meets another only with two installs.
`Leavings` is any set of items for the one install of ClaimLeftover, Reth's trees
(the largest files, and with them a torn remainder) in CheckpointSequence, and
empty in CheckpointConcurrent, whose two commands both need its mishaps. In
NodeAlone the third exit is the one that meets a cleanup following a failure
that took two. Epochs 0 to 3 leave room for a requested epoch that is live, one
that is complete, a newer one and an anchor that is too old. Three generations are a
P2P key, a key pair and a second pair, or a secret, after a failure; two parents
allow a change of assignment, two paths a change of path. The rest of the steps
may be left out of the selections because they touch no state of this model, and
running config, keys and tls at once is running them one after the other. Two
commands are an install and whatever meets it; two edits of `node.env` are one
before an install and one during it, or a change and its undoing; the
validator's files differ in receiver, token, mode and targets, the observer's
also in the data directory. One mishap cuts an install off, boots the node or
ends the agent; what follows a second one is the theorems' business, which have
no bounds. Every quantity a
bound cuts (installs, mishaps, exits, refusals,
interrupts, epochs, generations, edits) appears in
the guard of the action that uses it up.

**Fairness.** `CheckpointTransaction!FairSpec` and `NodeServices!FairSpec` let
a command that can take its next step take it: it is a process the kernel
schedules, its system calls return, and nothing in it waits for another
command (`flock` is non-blocking). The prompts are part of the steps that
begin or refuse a command. systemd is fair about jobs it has accepted:
`TimeoutStopSec=` ends every stop, `RestartSec=` every pending restart. The
deposit poll has `--startup-timeout`, and each of its requests at most five
seconds. Nothing is assumed of the network: `OnboardingEnds` holds only where
the deadlines the command has are set, and says so. Programs, operators, kills
and errors are never fair. `FairSpec` implies `Spec`, so the safety properties
of a run under it are not weakened.

`CHECK_DEADLOCK FALSE` is given for ValidatorOnboarding only, which models one
command and stops when it has ended.

### What the documentation says and the code does not do

Five runs check one documented claim each and are expected to refute it.

1. **ClaimInterruptedRollback** (`checkpoint.py:680`). A rollback of an
   *installed* backup leaves the receipt at `installed` until it ends. Killed
   after some Summit entries are back and run again, it wipes the Summit
   directory first, restored entries included, which the backup no longer
   holds. The README asks for "rollback assets"
   (`tools/seismic_node/README.md:235-236`).
2. **ClaimLeftover** (`checkpoint.py:1303`). The comment above the rename in
   `delete_backup` says that with it "an interrupted recursive deletion cannot
   leave a directory that still appears to be a complete, usable rollback
   backup" (`checkpoint.py:1301-1302`). The directory has a new name and, until
   `rmtree` comes to it, its old receipt; nothing looks at the name, the
   selection lists it, and a rollback restores from it what is left and removes
   what the receipt says was not there.
3. **ClaimStartupFiles** (`checkpoint.py:619`). `shutil.copy2` writes a startup
   file's copy under its final name. Failing midway, it leaves a part that the
   automatic rollback writes over the good file before it prints "Previous node
   state was restored automatically."
4. **ClaimRemovalRecorded** (`checkpoint.py:676`). What was absent when the
   receipt was written is removed by the restore, whoever created it since,
   although the code is said to "not delete state for which no corresponding
   backup move was recorded" (`tools/seismic_node/README.md:120-122`). On a new
   node Reth, started during the transaction, loses its database to the
   automatic restore.
5. **ClaimCleanupPreserves** (`systemd.py:246`). A start that finds Summit
   running and Reth not, requests Reth and fails, stops Reth in its cleanup,
   and systemd stops the Summit that `Requires=` it, which the comment at
   `systemd.py:241-242` says is preserved. (A Reth that fails by itself costs
   that Summit a restart, and no more: `OnlyCommandsTakeDown`.)

The models also reach the following, which no text of the repository rules
out, or only in general. `delete-backup` takes no lock and can remove the backup
a rollback is restoring from, although "destructive commands require stopped
services, a kernel lock" (`tools/seismic_node/README.md:235`). Two operators can
both read the receipt `installed` and confirm; the second rollback, let in when
the first is through, goes by the receipt it read and wipes the Summit entries
the first has restored, from a backup that has none any more
(`FirstRollbackHasAssets` says that the receipt still in force never leads to
this for an untouched backup). Two backups rolled back out of order can lose data: an interrupted install
has taken an item away, a later install records the item as absent, the
rollback of the first brings it back, and the rollback of the second removes
it. After an interrupted install the node can be started normally, and the
Summit entries it creates make the rollback refuse half way. A deposit and a
start command of two operators can both pass their checks and meet on the keys
(`Conflicts=` then stops one of them, while the other starts, and no order is
declared between the two: the one that is stopping may still hold the keys, for
up to its `TimeoutStopSec=`, when the other begins to use them.
`KeysAreExclusive` holds of commands that meet no other; of those that meet
`RivalsAreStopped` says only that the others have at least been told to stop and
will not be restarted). Ctrl-C during `systemctl start` leaves
the units started so far running, and Ctrl-C during the deposit command's own
cleanup leaves its RPC running. Reth, which takes no lock, can start after the
second look at the services (`checkpoint.py:966-971`), which narrows that window
and does not close it.

An observer's keys step that is cut off between its consensus key and the
marker, or that finds a node key of another parent, leaves a key that every
later run refuses (`install/lib/steps.sh:641-643`), although the steps are called
idempotent (`install/lib/steps.sh:6`); nothing is lost, but a person has to
decide. A first `tls` step with a secret path other than the default, cut off
between the handlers (`install/lib/openresty.sh:492`) and the record of the path
(line 501), leaves a gateway that verifies tokens and a token tool that looks at
the default path and finds no secret, until the next run: `TokensVerify` bounds
this to the time before the first path is recorded. An old handler's embedded
secret is not saved when a secret file of the operator's is already where the run
looks (lines 244-257 reuse it); tokens signed with the old one then end. The validator's keys step does not look at `observer-assignment`: run
over an observer's directory it adopts the parent's node key.

The monitoring commands take no lock. An edit of `node.env` under an install, or
after one that was cut off, can leave the token of one receiver beside the
configuration of another, which `check_existing` cannot tell (it compares no
token with its receiver): with a token for a new receiver written, the install
cut off and `node.env` edited back, the agent sends that token to the old one.
`CheckedTokenFits` does not exclude this; it says that nothing less leads there,
and that an install which no other overlaps ends it. A start that has
passed `check_existing` can be overtaken by an install and start the agent
between two of its writes; until its next start the agent then runs a
configuration that is no longer the installed one (`raced`).

## 4. What is proved

All theorems hold for any sets of commands, programs, Summit entries and
initial items, and any bounds, under the named assumptions of the modules.

**Checkpoint transaction** (`CheckpointTheorems`), from `BoundsAssumption`,
`ItemsAssumption`, `DataAssumption` (the lineages are distinct) and
`ProgramsAssumption` (a program creates data only in its own directory; only
Summit programs own Summit's):

| theorem | property |
| --- | --- |
| TypeCorrectness | `TypeOK` |
| MutualExclusion | `LockExclusion` |
| Recoverability | `InterruptedInstallIsRecoverable` |
| InstalledMatches | `InstalledIsMatched` |
| AutomaticRollback | `AutomaticRollbackRestores` |
| Rollback | `RollbackRestores` |
| Lifecycle | `ReceiptLifecycle` |
| Unobstructed | `RestoreIsUnobstructed` |
| FirstRollbackHasAssets | Summit entries are wiped, for an untouched backup and the receipt in force, only while the backup holds every one it was taken with: claim 1 above needs a rollback that was cut off, or a receipt gone stale |
| StartupFilesReturn | a restore of an untouched backup brings the startup files back as they were, except one whose own copy was cut off: claim 3 above is the only way to lose one |
| RemovalsAreNew | the restore of an untouched interrupted or failed install removes unsaved data only where it is the install's own or Reth's, created since: claim 4 above costs what is new, never what was there before |
| NeverStuck | a command that has begun has a next step, whatever the others have done |
| CommandsAdvance | each of its steps brings it closer to its end, errors and kills included, and nothing that others do takes it back |

None of these is inductive by itself. `CheckpointInvariants!IndInv`, which was
first checked with TLC, adds:

* `ControlInv`: which command can be where, and what its loop may still visit;
* `LockInv`: the lock belongs to the command past `acquire_summit_lock` or to
  the one running Summit program. With it, two commands in their transaction are
  one;
* `BirthInv`: an install's backup is known to nobody before its receipt exists,
  and nothing of a backup not yet made is anywhere;
* `ReceiptInv`: the receipt a command holds in memory is old, but not in the
  ways that matter: no stale copy leads it to take an interrupted install for a
  finished one;
* `OtherInv`: while state moves, every other interrupted install counts as
  touched;
* `ChildInv`, `FlagInv`: Summit entries are never checkpoint data, and the
  receipt's flags say what the snapshot held;
* `InstallInv`: for each item, how far the install has come with it: pending,
  saved, or replaced;
* `InterruptedInv`, `InstalledInv`: what is left to restore from when a command
  stops in the middle, and when it does not;
* `RestoreInv`: for each item, how far a restore has come.

`Unobstructed` and `StartupFilesReturn` need more, which `RestInvariance`
proves from `IndInv` (`RestInv`, also first checked with TLC): `WayInv`, that a
restore has cleared the places of what it is about to move back; `EntryInv`,
that what an interrupted install took out of Summit's directory meets at most
what Summit has created since; `FileInv`, that a startup file of an interrupted
install is whole at its path as long as its copy is not; and `FilesBack`, that a
restore which is through with a startup file has written its copy back.
`RemovalsAreNew` rests on `FoundAbsentInv`: where an interrupted install found
nothing, there is at most its own item or what Reth has created since. It stops
at *installed* backups, which later installs and rollbacks out of order may put
older data under (section 3).

`CheckpointTransactionProofs` proves that the initial states satisfy it and that
installs, programs, deletions and mishaps keep it, one lemma per action and one
step per conjunct; `CheckpointRestoreProofs` does the same for the restoring
actions and the moves between loops; `CheckpointTheorems` draws the
conclusions, the action properties from the invariant at the one step that
writes the receipt in question.

`NeverStuck` and `CommandsAdvance` are `CommandsFinish` without the scheduling.
`HasStep` lists the guards of the code's steps at each place; that one of them
always holds needs `ControlInv` and, where Summit's directory is wiped, that what
was listed stays there until it is wiped (`ListedInv`). `Closer` compares, in
this order, the place of the command (`Stage`), what is left of its loop, and for
the items left how far they are (`Phase`); a program that writes to a path the
loop has still to clear takes the item no farther back than it was. The order is
well-founded because directories are finite; that no infinite descent exists is
the induction the prover does not do.

**The refinement** (`CheckpointSwapTheorems`), from the same assumptions and
`InTransitAssumption` (`InTransit` is not a state): `Refinement`, `Spec =>
ImplementsSwap`. `Invariance` supplies the invariant. Commands that move state
hold the lock, so `mover` is well defined and changes at four places only
(`CreateBackup`, `BeginRollback`, the receipt that ends a transaction, a kill);
between them the node is `InTransit` and every step is a stutter. At the end of
an install `InstallInv` says that every item is the backup's or absent; at the
end of a restore `RestoreInv` says that what the snapshot held is back. When
nothing moves, an interrupted install that is not spoilt keeps the node
`InTransit`, and `OtherInv` says that whoever moves state next has spoilt it.

**Service control** (`NodeTheorems`), from `BoundsAssumption`, for any number of
operators, issuing any of the commands, and any number of exits, refused stops
and interrupts:

| theorem | property |
| --- | --- |
| TypeCorrectness | `TypeOK` |
| DepositRpcIsOwnedThm | `DepositRpcIsOwned` |
| KeysAreExclusiveThm | `KeysAreExclusive` |
| StartStopsNothingThm | `StartStopsNothing` |
| UnwoundStartThm | `UnwoundStart` |
| NodeStoppedThm | `NodeStopped` |
| RethStopsLastThm | `RethStopsLast` |
| OnlyCommandsTakeDown | a running unit is stopped for good by a conflicting start of another user of the keys, by a stop, or by the cleanup of a command that recorded its start or that of the Reth it requires (claim 5 above), and by nothing else: all systemd does by itself is to restart a Summit together with a Reth that failed, and what is restarted comes back unless a command stops it |
| RivalsAreStopped | while one program runs on the validator's keys, each of the others is stopped or has been told to stop, and none waits for a restart, also where `require_stopped` has raced; one that has been told may hold the keys until it has stopped |
| CommandsAreShort | a command has at most thirty steps left; each of its own uses one up, and nothing else gives one back |
| WaitsEnd | a command that has not ended has a step, or waits for a job that can be done or that waits for one that can, at most two requirements away |

The invariant says of every command where it is in its loop (`CommandInv`: what
is pending was recorded, what was recorded is its to start) and in which order
(`OrderInv`: Reth before Summit when starting, after it when stopping); of the
units that at most one owner of the keys is up or about
to be up again and the deposit RPC is not restarted (`UnitInv`); of the deposit RPC that its command has not come to its
stop (`OwnedInv`); and of a command that meets no other (`AloneInv`) that what it
has checked stays stopped (`CheckInv`) and that what it has stopped stays stopped
(`SweepInv`). The last needs the order: an automatic restart of a Summit would
bring Reth back, so Reth may count as stopped only when no Summit is left, and a
cleanup that did not start Summit is the exception `UnwoundStart` makes.
`CommandsAreShort` counts by `Remaining`, a table of what a command at each place
has still to do for the units left in its loop and the starts it has recorded (a
cleanup may follow from anywhere). `WaitsEnd` follows `Requires=` from
the awaited unit: a start waits for what the unit requires, a stop for what
requires it, and neither for a command.
Together they are `CommandsEnd` without the scheduling.

**Monitoring agent** (`AgentTheorems`), from `EnvsAssumption`, for any commands,
receivers, directories and `node.env` files: `TypeCorrectness`,
`InstallSatisfiesCheckThm`, `CheckedTokenFitsThm`, `RunsWhatIsInstalledThm`,
`ActiveIsInstalledThm`, `OwnWalIsAcceptedThm` and `StartsOnlyWhenEnabledThm`,
each of the property its name says. The invariant adds what is known at each
place of an install: `ProgressInv` (what it has written, and that it is still
there if no other install overlapped), `FilesInv` (there is a configuration only
after everything before it), `CurrentInv` and `TokenInv` (unless `muddled`, every
install that has written the operator's token works with `node.env` as it is, and the operator's token fits `node.env`
or the installed configuration),
`RunInv` (a running agent has the installed configuration, because every install
has seen it stopped and no start of a command it did not overlap has come
between), and `UnitInv` (a process and a WAL are there only after a
configuration).

**Onboarding** (`OnboardingTheorems`), from `BoundsAssumption`, for every
maximal epoch, anchor age and set of timeouts: `TypeCorrectness`,
`InstallationFollowsDecision` (`InstallFollowsDecision`), `EpochSelection`
(`ExplicitEpochIsKept`), `WaitBudget` (`WaitBudgetIsShared`) and
`StartAuthorization` (`StartIsAuthorized`). The invariant ties each place of the
command to what has been established before it: `DecidedFirst` (no checkpoint
is selected before a decision), `ChosenWell`, `SettledWell` and `InstalledWell`
(a selected, settled, installed epoch is completed and allowed by the policy),
`PolicyKept` and `StartWell` (a start decision was taken on a status and policy
that permit it), `BudgetKept` (what was slept plus what is left never exceeds
the timeout). `OnboardingIsBounded` is `OnboardingEnds` without the scheduling:
until it ends the command has a step, and with both timeouts set it takes at
most ten and one for each poll interval of its two budgets, on which both
lifecycle checks and both polls of `select_epoch` draw.

**Installer** (`InstallerTheorems`), from `SelectionsAssumption`,
`PathsAssumption`, `GenerationsAssumption` and `MarkersAssumption` (markers,
parents, paths and generations are told apart), for any parents, indexes, paths,
choices of steps and numbers of generations: `TypeCorrectness`, `OneIdentity`
(`IdentityIsOnePair`), `TrueAssignment` (`AssignmentIsTrue`), `TokenAgreement`
(`TokensVerify`), `PeersWithoutSelf` (`TrustedPeersOmitSelf`), `MaterialIsKept`
(`ExistingMaterialIsKept`) and `LegacyIsSaved` (`LegacySecretSurvives`). A
property of a file says nothing of a run cut off before it, so the invariant
says what is known at each place: `PlanInv`, which steps are behind the run and
which ahead; `KeyInv`, that no generation is used before it is made, that a pair
is installed only where there is no marker and was made for the run's
assignment, which of the two key files is there at which point, and what the
step has when it is through with them; `SecretInv`, that the secret is at the
path about to be written into handler and path file, and that no path holds another secret the
installer made while an old handler with its own is there; `PeersInv`, that the P2P key exists
by the time the peers are rendered again.

**Only model-checked**: the liveness properties themselves (`CommandsFinish`,
`CommandsEnd`, `OnboardingEnds`), which need fairness and `ENABLED`, out of the
prover's reach. What they rest on is proved for every value of the constants:
there is always a step (`NeverStuck`, `WaitsEnd`, `OnboardingIsBounded`) and every
step comes closer (`CommandsAdvance`, `CommandsAreShort`, `OnboardingIsBounded`).
Every safety property of a passing run is proved.

## 5. What is not modelled, and the plan

Parsing, hashing and verification of archives, manifests, node.env and RPC
answers are sequential and total: a failure ends the command before it changes
anything, which the models contain as a refusal or an abort. Streaming of
archives, rendering of templates and package installation are I/O.

Done, in this order: the checkpoint transaction with its claims and proofs;
service control; onboarding with its proofs; the installer's keys and secrets
with theirs; the monitoring agent with its proofs; the abstract swap and the
proof that the transaction implements it; the proofs about service control; the
limits of the refuted claims 1, 3, 4 and 5 and the safety half of the liveness
properties, as theorems.

Not modelled, and why:

1. The inventory's validation (`nodeenv.py`, `fsutil.py`): sequential rules over
   one file, without state. A specification of them would repeat the code. What
   the models use of it (modes, roles, defaults, paths) is in them.
2. The request body reader racing its timer in
   `install/templates/openresty/lua/custodian.lua`: its outcome is decided by
   the semantics of OpenResty's light threads, which are not in this repository.
3. RPC messages, archive streaming, hashing, manifest and signature formats:
   pure functions of their input, whose result the models leave open.
4. Observer onboarding beyond the epoch selection it shares with the
   validator's.
