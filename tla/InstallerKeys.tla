--------------------------- MODULE InstallerKeys ---------------------------
(***************************************************************************)
(* The steps of install.sh that make, adopt or move what cannot be made    *)
(* again: the node's keys (step `keys`), the JWT secret (step `tls`) and,  *)
(* since its trusted peers depend on a key, node.env (step `config`).      *)
(*                                                                         *)
(* One step is one effect on the disk.  mv and the files moved by it are   *)
(* atomic; `install` first makes the target empty.  A run may die or be    *)
(* killed between any two steps and be followed by a run with any other    *)
(* node.env.  One run at a time; peering is `trusted`.                     *)
(*                                                                         *)
(* Material is a number, the generation that made it; 0 was brought by the *)
(* operator.  A parent validator's node key is named after the parent.     *)
(***************************************************************************)
EXTENDS Integers

CONSTANTS
  Selections,     \* the sets of steps a run may be asked for (--only)
  Parents,        \* values of OBSERVER_PARENT_NODE_PUBLIC_KEY
  Indexes,        \* values of OBSERVER_INDEX
  Paths,          \* values of OPENRESTY_JWT_SECRET_PATH
  DefaultPath,    \* DEFAULT_OPENRESTY_JWT_SECRET_PATH
  MaxGenerations, \* bound on keys and secrets generated
  Legacy,         \* the secret embedded in a jwt_auth.lua of old
  None,           \* no such file
  Empty           \* a file that `install` created and has not written

Steps == {"config", "keys", "tls"} \* STEPS, of which the others touch no secret

ASSUME SelectionsAssumption  == Selections \subseteq (SUBSET Steps) \ {{}}
ASSUME PathsAssumption       == DefaultPath \in Paths
ASSUME GenerationsAssumption == MaxGenerations \in Nat
ASSUME MarkersAssumption ==
  /\ Parents \cap (Nat \cup {None, Empty}) = {}
  /\ None # Empty /\ {None, Empty} \cap Nat = {}
  /\ {None, Empty, Legacy} \cap Paths = {} /\ Legacy \notin Nat \cup {None, Empty}
  /\ None \notin Parents \X Indexes

Keys        == {"p2p", "node", "consensus"}
Assignments == Parents \X Indexes   \* contents of observer-assignment
Generations == 0 .. MaxGenerations

(* What --config and --only ask of a run.  `assignment` is None for a      *)
(* validator.  `jwt` says what step tls does with the secret: nothing,     *)
(* record it for an external proxy, or deploy handlers that read it.  What *)
(* a run's steps do not read is fixed.                                     *)
Runs ==
  {r \in [steps : Selections, assignment : Assignments \cup {None},
          jwt : {"unused", "external", "managed"}, path : Paths] :
     /\ "keys" \notin r.steps => r.assignment = None
     /\ "tls" \notin r.steps => r.jwt = "unused"
     /\ r.jwt = "unused" => r.path = DefaultPath}

VARIABLES
  run,        \* the last run's arguments, None before the first
  pc,         \* its next step
  completed,  \* its steps that ended well, if nothing was touched since
  staged,     \* generation in the staging key store; a store left behind is not read
  key,        \* key files under KEYS_DIR
  assignment, \* the observer-assignment marker
  node_env,   \* node.env: does its trusted-peer list name this node itself?
  secret,     \* JWT secret at each path
  jwt_lua,    \* the installed handler: embedded secret, or the path it reads
  path_file,  \* openresty-jwt-secret.path, which the token tool reads
  generations,
  made_for    \* history: the assignment in force when a generation was made

disk == <<key, assignment, node_env, secret, jwt_lua, path_file>>
made == <<generations, made_for>>
vars == <<run, pc, completed, staged, disk, made>>

Pcs == {"idle", "config", "write config", "p2p", "summit", "install node",
        "write node", "install consensus", "write consensus", "parent",
        "assign", "peers", "write peers", "tls", "lua", "write lua", "path"}

Init ==
  /\ run = None /\ pc = "idle" /\ completed = {} /\ staged = None
  /\ key \in [Keys -> {None, 0}]
  /\ assignment = None /\ node_env = None
  /\ secret \in [Paths -> {None, 0}]
  /\ jwt_lua \in {None, Legacy} /\ path_file = None
  /\ generations = 0 /\ made_for = [g \in Generations |-> None]

----------------------------------------------------------------------------
Present(k)  == key[k] # None
Validator   == run.assignment = None
Goto(label) == pc' = label /\ UNCHANGED <<run, completed>>

\* install.sh runs the selected steps in their order and ends.
FirstStep(steps) ==
  CASE "config" \in steps -> "config"
    [] "config" \notin steps /\ "keys" \in steps -> "p2p"
    [] steps = {"tls"} -> "tls"
    [] steps = {} -> "idle"

FinishStep(step) ==
  /\ completed' = completed \cup {step}
  /\ pc' = FirstStep(run.steps \ completed')
  /\ UNCHANGED run

Generate ==
  /\ generations < MaxGenerations
  /\ generations' = generations + 1
  /\ made_for' = [made_for EXCEPT ![generations + 1] = run.assignment]

StartRun(r) ==
  /\ pc = "idle"
  /\ run' = r /\ completed' = {} /\ pc' = FirstStep(r.steps)
  /\ UNCHANGED <<staged, disk, made>>

\* die at one of the checks, an unexpected error (set -e), or a kill.
Fail ==
  /\ pc # "idle"
  /\ pc' = "idle" /\ staged' = None
  /\ UNCHANGED <<run, completed, disk, made>>

\* The parent's operator hands over the parent's node key.
Provision(p) ==
  /\ pc = "idle" /\ ~Present("node")
  /\ key' = [key EXCEPT !["node"] = p]
  /\ completed' = {}
  /\ UNCHANGED <<run, pc, staged, assignment, node_env, secret, jwt_lua,
                 path_file, made>>

----------------------------------------------------------------------------
\* Mutant: a list that is there is kept.
RenderedOnce == IF node_env = None THEN "all" ELSE node_env

\* The node's own enode is derived from its P2P key, if that is there.
OwnNodeId == Present("p2p")

(* Step config, and the second rendering at the end of step keys: the      *)
(* peers without the node's own enode, if it is known.                     *)
Rendered == IF OwnNodeId THEN "others" ELSE "all"

\* install_file leaves a file alone that already has the contents asked for;
\* a node.env with the same peers may differ in the rest.
BeginNodeEnv ==
  /\ \/ pc = "config" /\ Goto("write config")
     \/ pc = "peers" /\ node_env \notin {None, Empty} /\ Goto("write peers")
  /\ node_env' = Empty
  /\ UNCHANGED <<staged, key, assignment, secret, jwt_lua, path_file, made>>

WriteNodeEnv ==
  /\ \/ pc \in {"config", "write config"} /\ FinishStep("config")
     \/ pc \in {"peers", "write peers"} /\ FinishStep("keys")
  /\ pc \in {"config", "peers"} => node_env = Rendered
  /\ node_env' = Rendered
  /\ UNCHANGED <<staged, key, assignment, secret, jwt_lua, path_file, made>>

----------------------------------------------------------------------------
\* Step keys: setup_reth_p2p_key.
SetupP2pKey ==
  /\ pc = "p2p"
  /\ Goto("summit")
  /\ IF Present("p2p")
       THEN UNCHANGED <<key, made>>
       ELSE Generate /\ key' = [key EXCEPT !["p2p"] = generations']
  /\ UNCHANGED <<staged, assignment, node_env, secret, jwt_lua, path_file>>

\* Mutant: a set with one key missing counts as new.
ValidatorIsHalfNew == \E k \in {"node", "consensus"} : ~Present(k)

\* A complete set is adopted; a half of one is refused (Fail).
ValidatorAdopts == \A k \in {"node", "consensus"} : key[k] \notin {None, Empty}
ValidatorIsNew == \A k \in {"node", "consensus"} : ~Present(k)

AdoptValidatorKeys ==
  /\ pc = "summit" /\ Validator
  /\ ValidatorAdopts
  /\ Goto("peers")
  /\ UNCHANGED <<staged, disk, made>>

\* Mutant: the missing half of a set is generated.
GenerateMissingHalf ==
  /\ pc = "summit" /\ Validator
  /\ ~Present("consensus")
  /\ Generate /\ staged' = generations'
  /\ Goto(IF Present("node") THEN "install consensus" ELSE "install node")
  /\ UNCHANGED disk

GenerateValidatorKeys ==
  /\ pc = "summit" /\ Validator
  /\ ValidatorIsNew
  /\ Generate /\ staged' = generations'
  /\ Goto("install node")
  /\ UNCHANGED disk

\* Mutant: keys without a marker are taken over.
ObserverTakesOver == assignment \in {None, run.assignment}

\* Keys without a marker, or with another one, are refused.
ObserverMay ==
  IF assignment = None THEN ~Present("node") /\ ~Present("consensus")
                       ELSE assignment = run.assignment

AdoptObserverKey ==
  /\ pc = "summit" /\ ~Validator /\ ObserverMay
  /\ key["consensus"] \notin {None, Empty}
  /\ Goto("parent")
  /\ UNCHANGED <<staged, disk, made>>

GenerateObserverKey ==
  /\ pc = "summit" /\ ~Validator /\ ObserverMay
  /\ ~Present("consensus")
  /\ Generate /\ staged' = generations'
  /\ Goto("install consensus")
  /\ UNCHANGED disk

\* install -- "$staging/$k_key.pem": the target is empty, then it is the key.
BeginInstallKey(k) ==
  /\ pc = (CASE k = "node" -> "install node" [] k = "consensus" -> "install consensus")
  /\ key' = [key EXCEPT ![k] = Empty]
  /\ Goto(CASE k = "node" -> "write node" [] k = "consensus" -> "write consensus")
  /\ UNCHANGED <<staged, assignment, node_env, secret, jwt_lua, path_file, made>>

WriteKey(k) ==
  /\ key' = [key EXCEPT ![k] = staged]
  /\ \/ k = "node" /\ pc = "write node" /\ Goto("install consensus")
        /\ UNCHANGED staged
     \/ k = "consensus" /\ pc = "write consensus"
        /\ Goto(IF Validator THEN "peers" ELSE "parent")
        /\ staged' = None
  /\ UNCHANGED <<assignment, node_env, secret, jwt_lua, path_file, made>>

\* A node key that is there must be the parent's; it may also come later.
CheckParentKey ==
  /\ pc = "parent"
  /\ key["node"] \in {None, run.assignment[1]}
  /\ Goto("assign")
  /\ UNCHANGED <<staged, disk, made>>

Assign ==
  /\ pc = "assign"
  /\ assignment' = run.assignment
  /\ Goto("peers")
  /\ UNCHANGED <<staged, key, node_env, secret, jwt_lua, path_file, made>>

----------------------------------------------------------------------------
\* Mutant: an old handler's secret is forgotten.
InheritedFromDefault == secret[DefaultPath]

\* Mutant: whatever the handler names is taken for its secret.
InheritedUnchecked == IF secret[DefaultPath] # None THEN secret[DefaultPath] ELSE jwt_lua

(* Step tls.  The secret is taken from the default path, or from the       *)
(* handler of an old installation, before one is generated.                *)
Inherited ==
  IF secret[DefaultPath] # None THEN secret[DefaultPath]
  ELSE IF jwt_lua = Legacy THEN Legacy ELSE None

SecretUnused ==
  /\ pc = "tls" /\ run.jwt = "unused"
  /\ FinishStep("tls")
  /\ UNCHANGED <<staged, disk, made>>

SetupSecret ==
  /\ pc = "tls" /\ run.jwt # "unused"
  /\ IF secret[run.path] # None
       THEN UNCHANGED <<secret, made>>
     ELSE IF Inherited # None
       THEN /\ secret' = [secret EXCEPT ![run.path] = Inherited]
            /\ UNCHANGED made
       ELSE Generate /\ secret' = [secret EXCEPT ![run.path] = generations']
  /\ Goto(IF run.jwt = "managed" THEN "lua" ELSE "path")
  /\ UNCHANGED <<staged, key, assignment, node_env, jwt_lua, path_file>>

BeginInstallLua ==
  /\ pc = "lua"
  /\ jwt_lua' = Empty
  /\ Goto("write lua")
  /\ UNCHANGED <<staged, key, assignment, node_env, secret, path_file, made>>

WriteLua ==
  /\ pc = "write lua"
  /\ jwt_lua' = run.path
  /\ Goto("path")
  /\ UNCHANGED <<staged, key, assignment, node_env, secret, path_file, made>>

\* Mutant: a path once recorded stays.
PersistFirstPath ==
  /\ pc = "path"
  /\ path_file' = IF path_file = None THEN run.path ELSE path_file
  /\ FinishStep("tls")
  /\ UNCHANGED <<staged, key, assignment, node_env, secret, jwt_lua, made>>

PersistSecretPath ==
  /\ pc = "path"
  /\ path_file' = run.path
  /\ FinishStep("tls")
  /\ UNCHANGED <<staged, key, assignment, node_env, secret, jwt_lua, made>>

\* Where the token tool looks: the recorded path, without one the default.
ToolPath == IF path_file = None THEN DefaultPath ELSE path_file

Next ==
  \/ \E r \in Runs : StartRun(r)
  \/ Fail
  \/ \E p \in Parents : Provision(p)
  \/ BeginNodeEnv \/ WriteNodeEnv \/ SetupP2pKey
  \/ AdoptValidatorKeys \/ GenerateValidatorKeys
  \/ AdoptObserverKey \/ GenerateObserverKey
  \/ \E k \in {"node", "consensus"} : BeginInstallKey(k) \/ WriteKey(k)
  \/ CheckParentKey \/ Assign
  \/ SecretUnused \/ SetupSecret \/ BeginInstallLua \/ WriteLua \/ PersistSecretPath

Spec == Init /\ [][Next]_vars

----------------------------------------------------------------------------
\* Types of the state.
TypeOK ==
  /\ run \in Runs \cup {None}
  /\ pc \in Pcs
  /\ completed \subseteq Steps
  /\ staged \in Generations \cup {None}
  /\ key \in [Keys -> Generations \cup Parents \cup {None, Empty}]
  /\ assignment \in Assignments \cup {None}
  /\ node_env \in {None, Empty, "all", "others"}
  /\ secret \in [Paths -> Generations \cup {Legacy, None}]
  /\ jwt_lua \in Paths \cup {None, Empty, Legacy}
  /\ path_file \in Paths \cup {None}
  /\ generations \in Generations
  /\ made_for \in [Generations -> Assignments \cup {None}]

(* "Existing keys are never regenerated or replaced" (steps.sh): no run, in *)
(* whatever role and after whatever failure, changes a key file that has   *)
(* contents, nor a JWT secret, on which tokens already handed out depend.  *)
ExistingMaterialIsKept ==
  [][/\ \A k \in Keys : key[k] \notin {None, Empty} => key'[k] = key[k]
     /\ \A p \in Paths : secret[p] # None => secret'[p] = secret[p]]_vars

(* "generating half a pair would silently change the node's identity": the *)
(* two halves of a generated pair are never of two generations, wherever   *)
(* runs were cut off and whatever role they had; and a validator's keys    *)
(* step that ends well leaves both.                                        *)
IdentityIsOnePair ==
  /\ {key["node"], key["consensus"]} \subseteq Nat => key["node"] = key["consensus"]
  /\ "keys" \in completed /\ Validator =>
       {key["node"], key["consensus"]} \cap {None, Empty} = {}

(* "The assignment marker records which parent and index the keys belong   *)
(* to": a marker names the assignment in force when the consensus key was  *)
(* generated, not that of a later run that found it; and when the step     *)
(* ends the node key, if there, is that parent's.                          *)
AssignmentIsTrue ==
  /\ assignment # None =>
       key["consensus"] \in Nat /\ made_for[key["consensus"]] = assignment
  /\ "keys" \in completed /\ ~Validator =>
       assignment = run.assignment /\ key["node"] \in {None, assignment[1]}

(* When the new handlers replace the one with an embedded secret, that     *)
(* secret has been saved to a path and tokens signed with it stay valid,   *)
(* in every order of runs and paths; unless the operator had put a secret  *)
(* of his own where the run looks, which setup_openresty_jwt_secret reuses *)
(* without a look at the handler.                                          *)
LegacySecretSurvives ==
  [][jwt_lua = Legacy /\ jwt_lua' # Legacy =>
       (\E p \in Paths : secret'[p] = Legacy) \/ secret[run.path] = 0]_vars

(* There is a secret where deployed handlers look, and where the token     *)
(* tool looks once a deployment has ended well; after a managed one they   *)
(* look at the same.  The tool is without a secret only as long as no path *)
(* was ever recorded and no handler uses the default one.  That includes   *)
(* the time between the handlers (openresty.sh:492) and the record of the  *)
(* path (:501) of a first deployment at another path: cut off there, it    *)
(* leaves handlers that work and a tool that fails until the next run.     *)
TokensVerify ==
  /\ jwt_lua \in Paths => secret[jwt_lua] # None
  /\ secret[ToolPath] = None => path_file = None /\ jwt_lua # DefaultPath
  /\ "tls" \in completed /\ run.jwt # "unused" => secret[ToolPath] # None
  /\ "tls" \in completed /\ run.jwt = "managed" => jwt_lua = ToolPath

(* A keys step that ends well leaves a node.env whose trusted peers do not *)
(* include the node itself, though its key did not exist when step config  *)
(* wrote the list: Reth would dial itself forever.                         *)
TrustedPeersOmitSelf == "keys" \in completed => node_env = "others"
=============================================================================
