------------------------- MODULE InstallerTheorems -------------------------
(***************************************************************************)
(* The safety properties of InstallerKeys for any set of parents, indexes  *)
(* and secret paths, any choice of steps and any number of generations.    *)
(* They rest on what a run has established by each of its next steps:      *)
(* which steps are behind it (PlanInv), which of its key files are there   *)
(* and of which generation (KeyInv), where the secret is (SecretInv) and   *)
(* that the key the peer list depends on exists (PeersInv).                *)
(***************************************************************************)
EXTENDS InstallerKeys, TLAPS

ConfigPcs  == {"config", "write config"}
Installing == {"install node", "write node", "install consensus", "write consensus"}
KeysPcs    == Installing \cup {"p2p", "summit", "parent", "assign", "peers", "write peers"}
TlsPcs     == {"tls", "lua", "write lua", "path"}

\* The steps of a run are done in order.
PlanInv ==
  /\ pc # "idle" \/ completed # {} => run \in Runs
  /\ "keys" \in completed => pc \in TlsPcs \cup {"idle"}
  /\ "tls" \in completed => pc = "idle"
  /\ pc \in KeysPcs => "config" \notin run.steps \ completed
  /\ pc \in TlsPcs => run.steps \ completed = {"tls"}

\* While a generated pair is installed: nothing was there, the node's half
\* comes first, an observer has neither node key nor marker.
InstallingInv ==
  /\ pc \in Installing =>
       /\ staged \in Nat /\ staged <= generations
       /\ made_for[staged] = run.assignment
       /\ assignment = None
  /\ pc \in {"install node", "write node"} => Validator
  /\ pc = "install node" => key["node"] = None
  /\ pc = "write node" => key["node"] = Empty
  /\ pc \in {"install node", "write node", "install consensus"} => key["consensus"] = None
  /\ pc = "write consensus" => key["consensus"] = Empty
  /\ pc \in {"install consensus", "write consensus"} =>
       key["node"] = (IF Validator THEN staged ELSE None)

\* What the keys step has in hand when it is through with the key files.
HasKeys ==
  /\ Validator => {key["node"], key["consensus"]} \cap {None, Empty} = {}
  /\ ~Validator => assignment = run.assignment /\ key["node"] \in {None, assignment[1]}

KeyInv ==
  /\ key["consensus"] \notin Parents
  /\ \A k \in Keys : key[k] \in Nat => key[k] <= generations
  /\ InstallingInv
  /\ pc \in {"parent", "assign"} =>
       /\ ~Validator
       /\ key["consensus"] \in Nat /\ made_for[key["consensus"]] = run.assignment
       /\ assignment \in {None, run.assignment}
  /\ pc = "assign" => key["node"] \in {None, run.assignment[1]}
  /\ pc \in {"peers", "write peers"} \/ "keys" \in completed => HasKeys

SecretInv ==
  /\ jwt_lua = Legacy => \A p \in Paths : secret[p] \in {None, Legacy, 0}
  /\ pc \in {"lua", "write lua", "path"} =>
       secret[run.path] # None /\ run.jwt # "unused"
  /\ pc \in {"lua", "write lua"} => run.jwt = "managed"
  /\ pc = "path" /\ run.jwt = "managed" => jwt_lua = run.path

PeersInv == pc \in KeysPcs \ {"p2p"} => Present("p2p")

Inv == /\ TypeOK /\ PlanInv /\ KeyInv /\ SecretInv /\ PeersInv
       /\ IdentityIsOnePair /\ AssignmentIsTrue /\ TokensVerify /\ TrustedPeersOmitSelf

-----------------------------------------------------------------------------
(* The constants and the order of the steps. *)

\* What the assumptions on the constants come to.
LEMMA Markers ==
  /\ None # Empty /\ None \notin Nat /\ Empty \notin Nat
  /\ None \notin Parents /\ Empty \notin Parents
  /\ \A n \in Nat : n \notin Parents
  /\ None \notin Paths /\ Empty \notin Paths /\ Legacy \notin Paths
  /\ Legacy # None /\ Legacy # Empty /\ Legacy \notin Nat
  /\ None \notin Assignments /\ DefaultPath \in Paths /\ MaxGenerations \in Nat
BY MarkersAssumption, PathsAssumption, GenerationsAssumption DEF Assignments

\* Generations are natural numbers.
LEMMA GenerationsAreNat ==
  /\ Generations \subseteq Nat /\ 0 \in Generations
  /\ Empty \notin Generations /\ None \notin Generations
BY Markers DEF Generations

\* Arguments of a run.
LEMMA RunFields ==
  ASSUME run \in Runs
  PROVE  /\ run.steps \subseteq Steps /\ run.steps # {}
         /\ run.assignment \in Assignments \cup {None}
         /\ run.jwt \in {"unused", "external", "managed"}
         /\ run.path \in Paths
BY SelectionsAssumption DEF Runs

\* The step a run begins with, or continues with.
LEMMA FirstStepCases ==
  ASSUME NEW S \in SUBSET Steps
  PROVE  /\ "config" \in S => FirstStep(S) = "config"
         /\ "config" \notin S /\ "keys" \in S => FirstStep(S) = "p2p"
         /\ "config" \notin S /\ "keys" \notin S /\ S # {} =>
              S = {"tls"} /\ FirstStep(S) = "tls"
         /\ S = {} => FirstStep(S) = "idle"
<1>1. CASE "config" \in S
  <2>1. S # {"tls"} /\ S # {}
    BY <1>1
  <2>2. QED
    BY <1>1, <2>1 DEF FirstStep
<1>2. CASE "config" \notin S /\ "keys" \in S
  <2>1. S # {"tls"} /\ S # {}
    BY <1>2
  <2>2. QED
    BY <1>2, <2>1 DEF FirstStep
<1>3. CASE "config" \notin S /\ "keys" \notin S
  <2>1. S = {} \/ S = {"tls"}
    BY <1>3 DEF Steps
  <2>2. QED
    BY <1>3, <2>1 DEF FirstStep
<1>4. QED
  BY <1>1, <1>2, <1>3

\* Within a step the order of the steps is not touched.
LEMMA PlanWithin ==
  ASSUME PlanInv, NEW label,
         \/ pc \in ConfigPcs /\ label \in ConfigPcs
         \/ pc \in KeysPcs /\ label \in KeysPcs
         \/ pc \in TlsPcs /\ label \in TlsPcs,
         Goto(label)
  PROVE  PlanInv' /\ pc' = label /\ run' = run /\ completed' = completed
BY DEF PlanInv, Goto, ConfigPcs, KeysPcs, Installing, TlsPcs

\* A step that ends is followed by the next one selected, or by none.
LEMMA PlanFinish ==
  ASSUME TypeOK, PlanInv, NEW step,
         \/ pc \in ConfigPcs /\ step = "config"
         \/ pc \in KeysPcs /\ step = "keys"
         \/ pc \in TlsPcs /\ step = "tls",
         FinishStep(step)
  PROVE  /\ PlanInv'
         /\ run' = run /\ completed' = completed \cup {step}
         /\ completed' \subseteq Steps
         /\ step = "config" => pc' \in {"p2p", "tls", "idle"}
         /\ step = "keys" => pc' \in {"tls", "idle"}
         /\ step = "tls" => pc' = "idle"
<1>1. run \in Runs /\ pc # "idle"
  BY DEF PlanInv, ConfigPcs, KeysPcs, Installing, TlsPcs
<1>2. run' = run /\ completed' = completed \cup {step}
  BY DEF FinishStep
<1>3. completed' \subseteq Steps
  BY <1>2 DEF TypeOK, Steps
<1> DEFINE S == run.steps \ completed'
<1>4. S \in SUBSET Steps /\ step \notin S
  BY <1>1, <1>2, RunFields
<1>5. pc' = FirstStep(S)
  BY DEF FinishStep
<1>6. (run.steps \ completed)' = S
  BY <1>2
<1>7. step \in {"keys", "tls"} => S \subseteq {"tls"}
  <2>1. CASE step = "keys"
    <3>1. "config" \notin run.steps \ completed
      BY <2>1, <1>1 DEF PlanInv, KeysPcs, Installing, ConfigPcs, TlsPcs
    <3>2. QED
      BY <2>1, <3>1, <1>2, <1>4 DEF Steps
  <2>2. CASE step = "tls"
    <3>1. run.steps \ completed = {"tls"}
      BY <2>2, <1>1 DEF PlanInv, KeysPcs, Installing, ConfigPcs, TlsPcs
    <3>2. QED
      BY <3>1, <1>2
  <2>3. QED
    BY <2>1, <2>2
<1>8. step = "config" => pc' \in {"p2p", "tls", "idle"}
  BY <1>4, <1>5, FirstStepCases
<1>9. step = "keys" => pc' \in {"tls", "idle"}
  BY <1>4, <1>5, <1>7, FirstStepCases
<1>10. step = "tls" => pc' = "idle"
  BY <1>4, <1>5, <1>7, FirstStepCases
<1>11. "keys" \in completed' => pc' \in TlsPcs \cup {"idle"}
  <2>1. CASE step = "config"
    <3>1. "keys" \notin completed
      BY <2>1, <1>1 DEF PlanInv, ConfigPcs, KeysPcs, Installing, TlsPcs
    <3>2. QED
      BY <2>1, <3>1, <1>2
  <2>2. QED
    BY <2>1, <1>9, <1>10 DEF TlsPcs
<1>12. "tls" \in completed' => pc' = "idle"
  <2>1. "tls" \notin completed
    BY <1>1 DEF PlanInv
  <2>2. QED
    BY <2>1, <1>2, <1>10
<1>13. pc' \in KeysPcs => "config" \notin S
  BY <1>4, <1>5, FirstStepCases DEF KeysPcs, Installing
<1>14. pc' \in TlsPcs => S = {"tls"}
  BY <1>4, <1>5, FirstStepCases DEF TlsPcs
<1>15. PlanInv'
  BY <1>1, <1>2, <1>6, <1>11, <1>12, <1>13, <1>14 DEF PlanInv
<1>16. QED
  BY <1>2, <1>3, <1>8, <1>9, <1>10, <1>15

-----------------------------------------------------------------------------
(* The initial states, and the steps that begin and end a run. *)

\* Nothing has run, and what is there the operator brought.
LEMMA InitInv == Init => Inv
<1> SUFFICES ASSUME Init PROVE Inv
  OBVIOUS
<1> USE Markers, GenerationsAreNat DEF Init
<1>1. TypeOK
  BY DEF TypeOK, Pcs
<1>2. PlanInv /\ PeersInv
  BY DEF PlanInv, PeersInv, KeysPcs, Installing, TlsPcs
<1>3. KeyInv
  <2>1. InstallingInv
    BY DEF InstallingInv, Installing
  <2>2. QED
    BY <2>1 DEF KeyInv, Keys
<1>4. SecretInv
  BY DEF SecretInv
<1>5. IdentityIsOnePair
  BY DEF IdentityIsOnePair, Keys
<1>6. AssignmentIsTrue /\ TrustedPeersOmitSelf
  BY DEF AssignmentIsTrue, TrustedPeersOmitSelf
<1>7. TokensVerify
  BY DEF TokensVerify, ToolPath
<1>8. QED
  BY <1>1, <1>2, <1>3, <1>4, <1>5, <1>6, <1>7 DEF Inv

\* A run begins at its first step with nothing completed.
LEMMA StartRunInv == ASSUME Inv, NEW r \in Runs, StartRun(r) PROVE Inv'
<1> USE DEF StartRun, Inv, disk, made
<1>1. run' \in Runs /\ run'.steps \subseteq Steps /\ run'.steps # {}
  BY SelectionsAssumption DEF Runs
<1>2. /\ pc' \in {"config", "p2p", "tls"}
      /\ pc' = "p2p" => "config" \notin run'.steps
      /\ pc' = "tls" => run'.steps = {"tls"}
  BY <1>1, FirstStepCases
<1>3. TypeOK'
  BY <1>1, <1>2 DEF TypeOK, Pcs
<1>4. PlanInv' /\ PeersInv'
  BY <1>1, <1>2 DEF PlanInv, PeersInv, KeysPcs, Installing, TlsPcs
<1>5. KeyInv'
  BY <1>2 DEF KeyInv, InstallingInv, Installing
<1>6. SecretInv'
  BY <1>2 DEF SecretInv
<1>7. IdentityIsOnePair' /\ AssignmentIsTrue' /\ TokensVerify' /\ TrustedPeersOmitSelf'
  BY DEF IdentityIsOnePair, AssignmentIsTrue, TokensVerify,
    ToolPath, TrustedPeersOmitSelf
<1>8. QED
  BY <1>3, <1>4, <1>5, <1>6, <1>7

\* A run that dies leaves the disk as it is.
LEMMA FailInv == ASSUME Inv, Fail PROVE Inv'
<1> USE DEF Fail, Inv, disk, made
<1>1. TypeOK'
  BY DEF TypeOK, Pcs
<1>2. PlanInv' /\ PeersInv'
  BY DEF PlanInv, PeersInv, KeysPcs, Installing, TlsPcs
<1>3. KeyInv'
  BY DEF KeyInv, InstallingInv, Installing, HasKeys, Validator
<1>4. SecretInv'
  BY DEF SecretInv
<1>5. /\ IdentityIsOnePair' /\ AssignmentIsTrue'
      /\ TokensVerify' /\ TrustedPeersOmitSelf'
  BY DEF IdentityIsOnePair, AssignmentIsTrue, TokensVerify,
    ToolPath, TrustedPeersOmitSelf, Validator
<1>6. QED
  BY <1>1, <1>2, <1>3, <1>4, <1>5

\* A parent's key is no generation, and the last run no longer answers for
\* the key files.
LEMMA ProvisionInv == ASSUME Inv, NEW p \in Parents, Provision(p) PROVE Inv'
<1> USE Markers DEF Provision, Inv, made
<1>1. /\ key' = [key EXCEPT !["node"] = p]
      /\ key["node"] = None /\ key'["node"] = p /\ p \notin Nat
      /\ \A k \in Keys \ {"node"} : key'[k] = key[k]
  BY DEF TypeOK, Present, Keys
<1>2. TypeOK'
  BY <1>1 DEF TypeOK
<1>3. PlanInv' /\ PeersInv'
  BY DEF PlanInv, PeersInv, KeysPcs, Installing, TlsPcs
<1>4. KeyInv'
  BY <1>1 DEF KeyInv, InstallingInv, Installing, Keys
<1>5. SecretInv'
  BY DEF SecretInv
<1>6. IdentityIsOnePair' /\ AssignmentIsTrue'
  BY <1>1 DEF IdentityIsOnePair, AssignmentIsTrue, Keys
<1>7. TokensVerify' /\ TrustedPeersOmitSelf'
  BY DEF TokensVerify, ToolPath, TrustedPeersOmitSelf
<1>8. QED
  BY <1>2, <1>3, <1>4, <1>5, <1>6, <1>7

-----------------------------------------------------------------------------
(* node.env. *)

\* node.env is empty only while no keys step has ended well.
LEMMA BeginNodeEnvInv == ASSUME Inv, BeginNodeEnv PROVE Inv'
<1> USE DEF BeginNodeEnv, Inv, made
<1>1. /\ PlanInv' /\ run' = run /\ completed' = completed
      /\ \/ pc = "config" /\ pc' = "write config"
         \/ pc = "peers" /\ pc' = "write peers"
  BY PlanWithin DEF ConfigPcs, KeysPcs
<1>2. TypeOK'
  BY <1>1 DEF TypeOK, Pcs
<1>3. PeersInv'
  BY <1>1 DEF PeersInv, KeysPcs, Installing, Present
<1>4. KeyInv'
  BY <1>1 DEF KeyInv, InstallingInv, Installing, HasKeys, Validator
<1>5. SecretInv'
  BY <1>1 DEF SecretInv
<1>6. IdentityIsOnePair' /\ AssignmentIsTrue' /\ TokensVerify'
  BY <1>1 DEF IdentityIsOnePair, AssignmentIsTrue, TokensVerify,
    ToolPath, Validator
<1>7. "keys" \notin completed
  BY <1>1 DEF PlanInv, TlsPcs
<1>8. TrustedPeersOmitSelf'
  BY <1>1, <1>7 DEF TrustedPeersOmitSelf
<1>9. QED
  BY <1>1, <1>2, <1>3, <1>4, <1>5, <1>6, <1>8

\* By the end of the keys step the P2P key exists, so the list is the others.
LEMMA WriteNodeEnvInv == ASSUME Inv, WriteNodeEnv PROVE Inv'
<1> USE DEF WriteNodeEnv, Inv, made
<1>1. \/ /\ pc \in {"config", "write config"} /\ FinishStep("config")
         /\ pc' \in {"p2p", "tls", "idle"} /\ completed' = completed \cup {"config"}
      \/ /\ pc \in {"peers", "write peers"} /\ FinishStep("keys")
         /\ pc' \in {"tls", "idle"} /\ completed' = completed \cup {"keys"}
  BY PlanFinish DEF ConfigPcs, KeysPcs
<1>2. PlanInv' /\ run' = run /\ completed' \subseteq Steps
  BY PlanFinish DEF ConfigPcs, KeysPcs
<1>3. Rendered \in {"all", "others"} /\ node_env' = Rendered
  BY DEF Rendered, OwnNodeId
<1>4. TypeOK'
  BY <1>1, <1>2, <1>3 DEF TypeOK, Pcs
<1>5. PeersInv'
  BY <1>1 DEF PeersInv, KeysPcs, Installing
<1>6. "keys" \in completed' => pc \in {"peers", "write peers"}
  BY <1>1 DEF PlanInv, TlsPcs
<1>7. KeyInv'
  BY <1>1, <1>2, <1>6 DEF KeyInv, InstallingInv, Installing, HasKeys, Validator
<1>8. SecretInv'
  BY <1>1, <1>2 DEF SecretInv
<1>9. IdentityIsOnePair' /\ AssignmentIsTrue'
  BY <1>2, <1>6 DEF IdentityIsOnePair, AssignmentIsTrue, KeyInv, HasKeys, Validator
<1>10. TokensVerify'
  <2>1. pc # "idle" /\ completed' \subseteq completed \cup {"config", "keys"}
    BY <1>1
  <2>2. "tls" \notin completed'
    BY <2>1 DEF PlanInv
  <2>3. UNCHANGED <<secret, jwt_lua, path_file>>
    OBVIOUS
  <2>4. QED
    BY <2>2, <2>3 DEF TokensVerify, ToolPath
<1>11. TrustedPeersOmitSelf'
  <2>1. pc \in {"peers", "write peers"} => Present("p2p")
    BY DEF PeersInv, KeysPcs
  <2>2. QED
    BY <1>3, <1>6, <2>1 DEF TrustedPeersOmitSelf, Rendered, OwnNodeId
<1>12. QED
  BY <1>2, <1>4, <1>5, <1>7, <1>8, <1>9, <1>10, <1>11

-----------------------------------------------------------------------------
(* Keys. *)

\* A generation is a new number, made for the run's assignment.
LEMMA GenerateFacts ==
  ASSUME Inv, pc # "idle", Generate
  PROVE  /\ generations \in Nat /\ generations' \in Generations
         /\ generations' = generations + 1
         /\ made_for' \in [Generations -> Assignments \cup {None}]
         /\ made_for'[generations'] = run.assignment
         /\ \A g \in Nat : g <= generations => made_for'[g] = made_for[g]
<1>1. run.assignment \in Assignments \cup {None}
  BY RunFields DEF Inv, PlanInv
<1>2. generations \in Nat /\ generations' = generations + 1 /\ generations' \in Generations
  BY Markers DEF Inv, TypeOK, Generations, Generate
<1>3. made_for' = [made_for EXCEPT ![generations'] = run.assignment]
  BY <1>2 DEF Generate
<1>4. made_for \in [Generations -> Assignments \cup {None}]
  BY DEF Inv, TypeOK
<1>5. made_for' \in [Generations -> Assignments \cup {None}]
  BY <1>1, <1>2, <1>3, <1>4
<1>6. made_for'[generations'] = run.assignment
  BY <1>2, <1>3, <1>4
<1>7. ASSUME NEW g \in Nat, g <= generations PROVE made_for'[g] = made_for[g]
  <2>1. g \in Generations /\ g # generations'
    BY <1>2, <1>7, Markers DEF Generations
  <2>2. QED
    BY <2>1, <1>3, <1>4
<1>8. QED
  BY <1>2, <1>5, <1>6, <1>7

\* What a consensus key found was made for is not changed by a generation.
LEMMA MadeForKept ==
  ASSUME Inv, pc # "idle", Generate
  PROVE  key["consensus"] \in Nat => made_for'[key["consensus"]] = made_for[key["consensus"]]
BY GenerateFacts DEF Inv, KeyInv, Keys

\* The P2P key is made once, before the rest of the step.
LEMMA SetupP2pKeyInv == ASSUME Inv, SetupP2pKey PROVE Inv'
<1> USE DEF SetupP2pKey, Inv
<1>1. /\ PlanInv' /\ run' = run /\ completed' = completed
      /\ pc = "p2p" /\ pc' = "summit"
  BY PlanWithin DEF KeysPcs
<1>2. /\ key' \in [Keys -> Generations \cup Parents \cup {None, Empty}]
      /\ key'["node"] = key["node"] /\ key'["consensus"] = key["consensus"]
      /\ generations' \in Generations
      /\ made_for' \in [Generations -> Assignments \cup {None}]
      /\ \A k \in Keys : key'[k] \in Nat => key'[k] <= generations'
      /\ key["consensus"] \in Nat =>
           made_for'[key["consensus"]] = made_for[key["consensus"]]
      /\ key'["p2p"] # None
  <2>1. CASE Present("p2p")
    <3>1. UNCHANGED <<key, generations, made_for>>
      BY <2>1 DEF made
    <3>2. key["p2p"] # None
      BY <2>1 DEF Present
    <3>3. QED
      BY <3>1, <3>2 DEF TypeOK, KeyInv
  <2>2. CASE ~Present("p2p")
    <3>1. Generate /\ key' = [key EXCEPT !["p2p"] = generations']
      BY <2>2
    <3>2. /\ key \in [Keys -> Generations \cup Parents \cup {None, Empty}]
          /\ \A k \in Keys : key[k] \in Nat => key[k] <= generations
          /\ pc # "idle"
      BY <1>1 DEF TypeOK, KeyInv
    <3>3. /\ generations \in Nat /\ generations' \in Generations
          /\ generations' = generations + 1
          /\ made_for' \in [Generations -> Assignments \cup {None}]
          /\ generations' # None
      BY <3>1, <3>2, GenerateFacts, GenerationsAreNat
    <3>4. \A k \in Keys : key'[k] = IF k = "p2p" THEN generations' ELSE key[k]
      BY <3>1, <3>2
    <3>5. \A k \in Keys : key'[k] \in Nat => key'[k] <= generations'
      BY <3>2, <3>3, <3>4
    <3>6. key' \in [Keys -> Generations \cup Parents \cup {None, Empty}]
      BY <3>1, <3>2, <3>3
    <3>7. QED
      BY <3>1, <3>2, <3>3, <3>4, <3>5, <3>6, MadeForKept DEF Keys
  <2>3. QED
    BY <2>1, <2>2
<1>3. TypeOK'
  BY <1>1, <1>2 DEF TypeOK, Pcs
<1>4. PeersInv'
  BY <1>1, <1>2 DEF PeersInv, Present
<1>5. "keys" \notin completed
  BY <1>1 DEF PlanInv, TlsPcs
<1>6. KeyInv'
  BY <1>1, <1>2, <1>5 DEF KeyInv, InstallingInv, Installing
<1>7. SecretInv'
  BY <1>1 DEF SecretInv
<1>8. IdentityIsOnePair' /\ AssignmentIsTrue'
  BY <1>1, <1>2, <1>5 DEF IdentityIsOnePair, AssignmentIsTrue
<1>9. TokensVerify' /\ TrustedPeersOmitSelf'
  BY <1>1 DEF TokensVerify, ToolPath, TrustedPeersOmitSelf
<1>10. QED
  BY <1>1, <1>3, <1>4, <1>6, <1>7, <1>8, <1>9

\* A validator adopts two keys that have contents.
LEMMA AdoptValidatorKeysInv == ASSUME Inv, AdoptValidatorKeys PROVE Inv'
<1> USE DEF AdoptValidatorKeys, Inv, disk, made
<1>1. /\ PlanInv' /\ run' = run /\ completed' = completed
      /\ pc = "summit" /\ pc' = "peers"
  BY PlanWithin DEF KeysPcs
<1>2. TypeOK'
  BY <1>1 DEF TypeOK, Pcs
<1>3. PeersInv' /\ SecretInv' /\ TokensVerify' /\ TrustedPeersOmitSelf'
  BY <1>1 DEF PeersInv, KeysPcs, SecretInv, TokensVerify,
    ToolPath, TrustedPeersOmitSelf, Present
<1>4. HasKeys'
  BY <1>1 DEF HasKeys, Validator, ValidatorAdopts
<1>5. KeyInv'
  BY <1>1, <1>4 DEF KeyInv, InstallingInv, Installing
<1>6. IdentityIsOnePair' /\ AssignmentIsTrue'
  BY <1>1 DEF IdentityIsOnePair, AssignmentIsTrue, Validator
<1>7. QED
  BY <1>1, <1>2, <1>3, <1>5, <1>6

\* An observer adopts a consensus key that its marker vouches for.
LEMMA AdoptObserverKeyInv == ASSUME Inv, AdoptObserverKey PROVE Inv'
<1> USE DEF AdoptObserverKey, Inv, disk, made
<1>1. /\ PlanInv' /\ run' = run /\ completed' = completed
      /\ pc = "summit" /\ pc' = "parent"
  BY PlanWithin DEF KeysPcs
<1>2. TypeOK'
  BY <1>1 DEF TypeOK, Pcs
<1>3. PeersInv' /\ SecretInv' /\ TokensVerify' /\ TrustedPeersOmitSelf'
  BY <1>1 DEF PeersInv, KeysPcs, SecretInv, TokensVerify,
    ToolPath, TrustedPeersOmitSelf, Present
<1>4. assignment = run.assignment /\ assignment # None
  BY DEF ObserverMay, Present, Validator
<1>5. key["consensus"] \in Nat /\ made_for[key["consensus"]] = run.assignment
  BY <1>4 DEF AssignmentIsTrue
<1>6. "keys" \notin completed
  BY <1>1 DEF PlanInv, TlsPcs
<1>7. KeyInv'
  BY <1>1, <1>4, <1>5, <1>6 DEF KeyInv, InstallingInv, Installing, Validator
<1>8. IdentityIsOnePair' /\ AssignmentIsTrue'
  BY <1>1 DEF IdentityIsOnePair, AssignmentIsTrue, Validator
<1>9. QED
  BY <1>1, <1>2, <1>3, <1>7, <1>8

\* Both roles generate into a staging store when no key is there, and, for
\* an observer, no marker.
LEMMA GenerateKeysInv ==
  ASSUME Inv, GenerateValidatorKeys \/ GenerateObserverKey PROVE Inv'
<1> USE DEF Inv, disk
<1>1. /\ pc = "summit" /\ Generate /\ staged' = generations' /\ UNCHANGED disk
      /\ pc' = (IF Validator THEN "install node" ELSE "install consensus")
      /\ Goto(pc')
  BY DEF GenerateValidatorKeys, GenerateObserverKey, Goto
<1>2. /\ PlanInv' /\ run' = run /\ completed' = completed
      /\ pc' \in {"install node", "install consensus"}
  BY <1>1, PlanWithin DEF KeysPcs, Installing
<1>3. key["consensus"] = None /\ assignment = None
  <2>1. key["consensus"] = None
    BY DEF GenerateValidatorKeys, GenerateObserverKey, ValidatorIsNew, Present
  <2>2. QED
    BY <2>1, Markers DEF AssignmentIsTrue
<1>4. key["node"] = None
  BY <1>3 DEF GenerateValidatorKeys, GenerateObserverKey, ValidatorIsNew,
              ObserverMay, Present
<1>5. /\ generations \in Nat /\ staged' \in Generations /\ staged' = generations + 1
      /\ generations' = generations + 1
      /\ made_for' \in [Generations -> Assignments \cup {None}]
      /\ made_for'[staged'] = run.assignment
  BY <1>1, GenerateFacts
<1>6. TypeOK'
  BY <1>1, <1>2, <1>5 DEF TypeOK, Pcs
<1>7. PeersInv' /\ SecretInv' /\ TokensVerify' /\ TrustedPeersOmitSelf'
  BY <1>1, <1>2 DEF PeersInv, KeysPcs, SecretInv, TokensVerify, ToolPath,
                    TrustedPeersOmitSelf, Present
<1>8. "keys" \notin completed
  BY <1>1 DEF PlanInv, TlsPcs
<1>9. InstallingInv'
  <2>1. /\ staged' \in Nat /\ staged' <= generations'
        /\ made_for'[staged'] = run'.assignment
    <3>1. staged' \in Nat /\ staged' <= generations'
      <4> HIDE DEF Inv, disk
      <4>1. QED
        BY <1>5, GenerationsAreNat
    <3>2. QED
      BY <3>1, <1>2, <1>5
  <2>2. UNCHANGED <<key, assignment>> /\ Validator' = Validator
    BY <1>1, <1>2 DEF Validator
  <2>3. \/ Validator /\ pc' = "install node"
        \/ ~Validator /\ pc' = "install consensus"
    BY <1>1
  <2>4. QED
    BY <1>3, <1>4, <2>1, <2>2, <2>3 DEF InstallingInv
<1>10. KeyInv'
  <2>1. \A k \in Keys : key[k] \in Nat => key[k] <= generations'
    <3>1. SUFFICES ASSUME NEW k \in Keys, key[k] \in Nat
                   PROVE  key[k] <= generations'
      OBVIOUS
    <3>2. key[k] <= generations
      BY <3>1 DEF KeyInv
    <3>3. QED
      BY <3>1, <3>2, <1>5
  <2>2. UNCHANGED key
    BY <1>1
  <2>3. QED
    BY <1>2, <1>8, <1>9, <2>1, <2>2 DEF KeyInv
<1>11. IdentityIsOnePair' /\ AssignmentIsTrue'
  BY <1>1, <1>2, <1>3, <1>8 DEF IdentityIsOnePair, AssignmentIsTrue
<1>12. QED
  BY <1>2, <1>6, <1>7, <1>10, <1>11

\* install has made the target and not written it.
LEMMA BeginInstallKeyInv ==
  ASSUME Inv, NEW k \in {"node", "consensus"}, BeginInstallKey(k) PROVE Inv'
<1> USE Markers DEF Inv, BeginInstallKey, made
<1>1. \/ k = "node" /\ pc = "install node" /\ Goto("write node")
      \/ k = "consensus" /\ pc = "install consensus" /\ Goto("write consensus")
  OBVIOUS
<1>2. /\ PlanInv' /\ run' = run /\ completed' = completed
      /\ k = "node" => pc' = "write node"
      /\ k = "consensus" => pc' = "write consensus"
  BY <1>1, PlanWithin DEF KeysPcs, Installing
<1>3. key' \in [Keys -> Generations \cup Parents \cup {None, Empty}]
  BY DEF TypeOK
<1>4. \A x \in Keys : key'[x] = IF x = k THEN Empty ELSE key[x]
  BY DEF TypeOK, Keys
<1>5. TypeOK'
  BY <1>2, <1>3 DEF TypeOK, Pcs
<1>6. PeersInv'
  BY <1>1, <1>2, <1>4 DEF PeersInv, KeysPcs, Installing, Present, Keys
<1>7. SecretInv' /\ TokensVerify' /\ TrustedPeersOmitSelf'
  BY <1>1, <1>2 DEF SecretInv, TokensVerify, ToolPath, TrustedPeersOmitSelf
<1>8. "keys" \notin completed
  BY <1>1 DEF PlanInv, TlsPcs
<1>9. InstallingInv'
  BY <1>1, <1>2, <1>4 DEF KeyInv, InstallingInv, Installing, Validator, Keys
<1>10. KeyInv'
  BY <1>1, <1>2, <1>4, <1>8, <1>9 DEF KeyInv, Keys
<1>11. IdentityIsOnePair' /\ AssignmentIsTrue'
  <2>1. assignment = None /\ assignment' = None
    BY <1>1 DEF KeyInv, InstallingInv, Installing
  <2>2. QED
    BY <1>2, <1>4, <1>8, <2>1 DEF IdentityIsOnePair, AssignmentIsTrue, Keys
<1>12. QED
  BY <1>2, <1>5, <1>6, <1>7, <1>10, <1>11

\* Both halves are written from the one staging store.
LEMMA WriteKeyInv ==
  ASSUME Inv, NEW k \in {"node", "consensus"}, WriteKey(k) PROVE Inv'
<1> USE Markers DEF Inv, WriteKey, made
<1>1. \/ /\ k = "node" /\ pc = "write node" /\ Goto("install consensus")
         /\ staged' = staged
      \/ /\ k = "consensus" /\ pc = "write consensus"
         /\ Goto(IF Validator THEN "peers" ELSE "parent")
         /\ staged' = None
  OBVIOUS
<1>2. /\ PlanInv' /\ run' = run /\ completed' = completed
      /\ k = "node" => pc' = "install consensus"
      /\ k = "consensus" => pc' = (IF Validator THEN "peers" ELSE "parent")
  <2> DEFINE after == IF k = "node" THEN "install consensus"
                      ELSE IF Validator THEN "peers" ELSE "parent"
  <2>1. Goto(after)
    BY <1>1
  <2>2. pc \in KeysPcs /\ after \in KeysPcs
    BY <1>1 DEF KeysPcs, Installing
  <2> HIDE DEF after
  <2>3. PlanInv' /\ pc' = after /\ run' = run /\ completed' = completed
    BY <2>1, <2>2, PlanWithin
  <2>4. QED
    BY <2>3 DEF after
<1>3. /\ staged \in Nat /\ staged <= generations /\ staged \in Generations
      /\ made_for[staged] = run.assignment /\ assignment = None
  <2>1. pc \in Installing
    BY <1>1 DEF Installing
  <2>2. /\ staged \in Nat /\ staged <= generations
        /\ made_for[staged] = run.assignment /\ assignment = None
    BY <2>1 DEF KeyInv, InstallingInv
  <2>3. staged \in Generations
    BY <2>2 DEF TypeOK
  <2>4. QED
    BY <2>2, <2>3
<1>4. key' \in [Keys -> Generations \cup Parents \cup {None, Empty}]
  BY <1>3 DEF TypeOK
<1>5. \A x \in Keys : key'[x] = IF x = k THEN staged ELSE key[x]
  BY DEF TypeOK, Keys
<1>6. TypeOK'
  BY <1>1, <1>2, <1>4 DEF TypeOK, Pcs
<1>7. PeersInv'
  BY <1>1, <1>2, <1>5 DEF PeersInv, KeysPcs, Installing, Present, Keys
<1>8. SecretInv' /\ TokensVerify' /\ TrustedPeersOmitSelf'
  BY <1>1, <1>2 DEF SecretInv, TokensVerify, ToolPath, TrustedPeersOmitSelf
<1>9. "keys" \notin completed
  BY <1>1 DEF PlanInv, TlsPcs
<1>10. InstallingInv'
  BY <1>1, <1>2, <1>3, <1>5 DEF KeyInv, InstallingInv, Installing, Validator, Keys
<1>11. /\ key'["consensus"] \in {None, staged}
       /\ pc = "write consensus" => key'["consensus"] = staged
       /\ pc = "write consensus" /\ Validator => key'["node"] = staged
       /\ pc = "write consensus" /\ ~Validator => key'["node"] = None
       /\ pc = "write node" => key'["consensus"] = None
  BY <1>1, <1>5 DEF KeyInv, InstallingInv, Keys
<1>12. pc' \in {"peers", "write peers"} => HasKeys'
  BY <1>1, <1>2, <1>3, <1>11 DEF HasKeys, Validator
<1>13. KeyInv'
  <2>1. \A x \in Keys : key'[x] \in Nat => key'[x] <= generations
    BY <1>3, <1>5 DEF KeyInv
  <2>2. key'["consensus"] \notin Parents
    BY <1>3, <1>11
  <2>3. QED
    BY <1>1, <1>2, <1>3, <1>9, <1>10, <1>11, <1>12, <2>1, <2>2 DEF KeyInv, Validator
<1>14. IdentityIsOnePair' /\ AssignmentIsTrue'
  BY <1>1, <1>2, <1>3, <1>9, <1>11 DEF IdentityIsOnePair, AssignmentIsTrue, Validator
<1>15. QED
  BY <1>2, <1>6, <1>7, <1>8, <1>13, <1>14
\* A node key that is there is the parent's.
LEMMA CheckParentKeyInv == ASSUME Inv, CheckParentKey PROVE Inv'
<1> USE DEF CheckParentKey, Inv, disk, made
<1>1. /\ PlanInv' /\ run' = run /\ completed' = completed
      /\ pc = "parent" /\ pc' = "assign"
  BY PlanWithin DEF KeysPcs
<1>2. TypeOK'
  BY <1>1 DEF TypeOK, Pcs
<1>3. PeersInv' /\ SecretInv' /\ TokensVerify' /\ TrustedPeersOmitSelf'
  BY <1>1 DEF PeersInv, KeysPcs, SecretInv, TokensVerify,
    ToolPath, TrustedPeersOmitSelf, Present
<1>4. "keys" \notin completed
  BY <1>1 DEF PlanInv, TlsPcs
<1>5. KeyInv'
  BY <1>1, <1>4 DEF KeyInv, InstallingInv, Installing, Validator
<1>6. IdentityIsOnePair' /\ AssignmentIsTrue'
  BY <1>1 DEF IdentityIsOnePair, AssignmentIsTrue, Validator
<1>7. QED
  BY <1>1, <1>2, <1>3, <1>5, <1>6

\* The marker is written when all it says is so.
LEMMA AssignInv == ASSUME Inv, Assign PROVE Inv'
<1> USE DEF Assign, Inv, made
<1>1. /\ PlanInv' /\ run' = run /\ completed' = completed
      /\ pc = "assign" /\ pc' = "peers"
  BY PlanWithin DEF KeysPcs
<1>2. /\ ~Validator /\ key["node"] \in {None, run.assignment[1]}
      /\ key["consensus"] \in Nat /\ made_for[key["consensus"]] = run.assignment
  BY <1>1 DEF KeyInv
<1>3. run.assignment \in Assignments \cup {None}
  BY <1>1, RunFields DEF PlanInv
<1>4. TypeOK'
  BY <1>1, <1>3 DEF TypeOK, Pcs
<1>5. PeersInv' /\ SecretInv' /\ TokensVerify' /\ TrustedPeersOmitSelf'
  BY <1>1 DEF PeersInv, KeysPcs, SecretInv, TokensVerify,
    ToolPath, TrustedPeersOmitSelf, Present
<1>6. "keys" \notin completed
  BY <1>1 DEF PlanInv, TlsPcs
<1>7. HasKeys'
  BY <1>1, <1>2 DEF HasKeys, Validator
<1>8. KeyInv'
  BY <1>1, <1>6, <1>7 DEF KeyInv, InstallingInv, Installing
<1>9. IdentityIsOnePair' /\ AssignmentIsTrue'
  BY <1>1, <1>2, <1>6 DEF IdentityIsOnePair, AssignmentIsTrue
<1>10. QED
  BY <1>1, <1>4, <1>5, <1>8, <1>9

-----------------------------------------------------------------------------
(* The JWT secret. *)

\* Step tls leaves the keys alone.
LEMMA KeysUntouched ==
  ASSUME Inv, UNCHANGED <<key, assignment, generations, made_for, run>>,
         pc' \in {"idle", "lua", "write lua", "path"},
         "keys" \in completed' => "keys" \in completed
  PROVE  KeyInv' /\ PeersInv' /\ IdentityIsOnePair' /\ AssignmentIsTrue'
<1> USE DEF Inv
<1>1. KeyInv'
  BY DEF KeyInv, InstallingInv, Installing, HasKeys, Validator
<1>2. PeersInv'
  BY DEF PeersInv, KeysPcs, Installing
<1>3. IdentityIsOnePair' /\ AssignmentIsTrue'
  BY DEF IdentityIsOnePair, AssignmentIsTrue, Validator
<1>4. QED
  BY <1>1, <1>2, <1>3

\* Nothing to do with the secret.
LEMMA SecretUnusedInv == ASSUME Inv, SecretUnused PROVE Inv'
<1> USE DEF SecretUnused, Inv, disk, made
<1>1. /\ PlanInv' /\ run' = run /\ completed' = completed \cup {"tls"}
      /\ completed' \subseteq Steps /\ pc' = "idle"
  BY PlanFinish DEF TlsPcs
<1>2. TypeOK'
  BY <1>1 DEF TypeOK, Pcs
<1>3. KeyInv' /\ PeersInv' /\ IdentityIsOnePair' /\ AssignmentIsTrue'
  BY <1>1, KeysUntouched
<1>4. SecretInv' /\ TokensVerify' /\ TrustedPeersOmitSelf'
  BY <1>1 DEF SecretInv, TokensVerify, ToolPath, TrustedPeersOmitSelf
<1>5. QED
  BY <1>1, <1>2, <1>3, <1>4

\* The secret at the run's path exists, and as long as the old handler is
\* there every secret is the old one or the operator's.
LEMMA SetupSecretInv == ASSUME Inv, SetupSecret PROVE Inv'
<1> USE DEF SetupSecret, Inv
<1>1. /\ PlanInv' /\ run' = run /\ completed' = completed
      /\ pc = "tls" /\ pc' = (IF run.jwt = "managed" THEN "lua" ELSE "path")
  <2> DEFINE after == IF run.jwt = "managed" THEN "lua" ELSE "path"
  <2>1. pc = "tls" /\ Goto(after) /\ after \in TlsPcs
    BY DEF TlsPcs
  <2> HIDE DEF after
  <2>2. PlanInv' /\ pc' = after /\ run' = run /\ completed' = completed
    BY <2>1, PlanWithin DEF TlsPcs
  <2>3. QED
    BY <2>1, <2>2 DEF after
<1>2. /\ run.path \in Paths /\ run.jwt # "unused"
      /\ secret \in [Paths -> Generations \cup {Legacy, None}]
  BY <1>1, RunFields DEF PlanInv, TypeOK
<1>3. PICK s \in Generations \cup {Legacy} :
        /\ secret' = [secret EXCEPT ![run.path] = s]
        /\ jwt_lua = Legacy /\ s # Legacy => s = secret[run.path] \/ s = secret[DefaultPath]
        /\ secret[run.path] # None => s = secret[run.path]
        /\ UNCHANGED made \/ Generate
  <2>1. CASE secret[run.path] # None
    <3>1. secret' = [secret EXCEPT ![run.path] = secret[run.path]] /\ UNCHANGED made
      BY <2>1, <1>2
    <3>2. secret[run.path] \in Generations \cup {Legacy}
      BY <2>1, <1>2
    <3>3. QED
      BY <3>1, <3>2
  <2>2. CASE secret[run.path] = None /\ Inherited # None
    <3>1. secret' = [secret EXCEPT ![run.path] = Inherited] /\ UNCHANGED made
      BY <2>2
    <3>2. Inherited \in Generations \cup {Legacy}
      BY <2>2, <1>2, PathsAssumption DEF Inherited
    <3>3. jwt_lua = Legacy /\ Inherited # Legacy => Inherited = secret[DefaultPath]
      BY DEF Inherited
    <3>4. QED
      BY <2>2, <3>1, <3>2, <3>3
  <2>3. CASE secret[run.path] = None /\ Inherited = None
    <3>1. secret' = [secret EXCEPT ![run.path] = generations'] /\ Generate
      BY <2>3
    <3>2. generations' \in Generations
      BY <3>1, <1>1, GenerateFacts
    <3>3. jwt_lua # Legacy
      BY <2>3, Markers DEF Inherited
    <3>4. QED
      BY <2>3, <3>1, <3>2, <3>3
  <2>4. QED
    BY <2>1, <2>2, <2>3
<1>4. \A p \in Paths : secret'[p] = IF p = run.path THEN s ELSE secret[p]
  BY <1>2, <1>3
<1>5. s # None
  BY Markers, GenerationsAreNat
<1>6. /\ generations \in Nat /\ generations' \in Generations
      /\ generations <= generations'
      /\ made_for' \in [Generations -> Assignments \cup {None}]
      /\ key["consensus"] \in Nat =>
           made_for'[key["consensus"]] = made_for[key["consensus"]]
  <2>1. CASE UNCHANGED made
    BY <2>1, GenerationsAreNat DEF made, TypeOK
  <2>2. CASE Generate
    BY <2>2, <1>1, GenerateFacts, MadeForKept
  <2>3. QED
    BY <1>3, <2>1, <2>2
<1>7. TypeOK'
  BY <1>1, <1>2, <1>3, <1>6 DEF TypeOK, Pcs
<1>8. KeyInv'
  <2>1. ASSUME NEW k \in Keys, key[k] \in Nat PROVE key[k] <= generations'
    <3>1. key[k] <= generations /\ generations' \in Nat
      BY <2>1, <1>6, GenerationsAreNat DEF KeyInv
    <3>2. QED
      BY <2>1, <3>1, <1>6
  <2>2. UNCHANGED <<key, assignment>>
    OBVIOUS
  <2>3. HasKeys => HasKeys'
    BY <1>1, <2>2 DEF HasKeys, Validator
  <2>4. QED
    BY <1>1, <2>1, <2>2, <2>3 DEF KeyInv, InstallingInv, Installing
<1>9. PeersInv' /\ IdentityIsOnePair' /\ AssignmentIsTrue'
  BY <1>1, <1>6 DEF PeersInv, KeysPcs, Installing, IdentityIsOnePair,
                    AssignmentIsTrue, Validator
<1>10. SecretInv'
  <2>1. jwt_lua = Legacy => s \in {None, Legacy, 0}
    BY <1>2, <1>3, PathsAssumption DEF SecretInv
  <2>2. QED
    BY <1>1, <1>2, <1>4, <1>5, <2>1 DEF SecretInv
<1>11. TrustedPeersOmitSelf'
  BY <1>1 DEF TrustedPeersOmitSelf
<1>12. TokensVerify'
  <2>1. ToolPath \in Paths /\ ToolPath' = ToolPath /\ UNCHANGED <<jwt_lua, path_file>>
    BY PathsAssumption DEF ToolPath, TypeOK
  <2>2. \A p \in Paths : secret[p] # None => secret'[p] # None
    BY <1>4, <1>5
  <2>3. QED
    BY <1>1, <2>1, <2>2 DEF TokensVerify
<1>13. QED
  BY <1>1, <1>7, <1>8, <1>9, <1>10, <1>11, <1>12

\* The handlers are replaced once the secret they will read is in place.
LEMMA InstallLuaInv == ASSUME Inv, BeginInstallLua \/ WriteLua PROVE Inv'
<1> USE DEF Inv, made
<1>1. \/ pc = "lua" /\ Goto("write lua") /\ jwt_lua' = Empty
      \/ pc = "write lua" /\ Goto("path") /\ jwt_lua' = run.path
  BY DEF BeginInstallLua, WriteLua
<1>2. /\ PlanInv' /\ run' = run /\ completed' = completed
      /\ pc = "lua" => pc' = "write lua"
      /\ pc = "write lua" => pc' = "path"
  BY <1>1, PlanWithin DEF TlsPcs
<1>3. UNCHANGED <<staged, key, assignment, node_env, secret, path_file,
                  generations, made_for>>
  BY DEF BeginInstallLua, WriteLua
<1>4. run.path \in Paths
  BY <1>1, RunFields DEF PlanInv
<1>5. TypeOK'
  BY <1>1, <1>2, <1>3, <1>4 DEF TypeOK, Pcs
<1>6. KeyInv' /\ PeersInv' /\ IdentityIsOnePair' /\ AssignmentIsTrue'
  BY <1>1, <1>2, <1>3, KeysUntouched
<1>7. SecretInv'
  BY <1>1, <1>2, <1>3, <1>4, Markers DEF SecretInv
<1>8. TokensVerify' /\ TrustedPeersOmitSelf'
  <2>1. "tls" \notin completed
    BY <1>1 DEF PlanInv
  <2>2. secret[run.path] # None
    BY <1>1 DEF SecretInv
  <2>3. QED
    BY <1>1, <1>2, <1>3, <2>1, <2>2, Markers DEF TokensVerify,
    ToolPath, TrustedPeersOmitSelf
<1>9. QED
  BY <1>2, <1>5, <1>6, <1>7, <1>8

\* The path recorded is that of the handlers and of an existing secret.
LEMMA PersistSecretPathInv == ASSUME Inv, PersistSecretPath PROVE Inv'
<1> USE DEF PersistSecretPath, Inv, made
<1>1. /\ PlanInv' /\ run' = run /\ completed' = completed \cup {"tls"}
      /\ completed' \subseteq Steps /\ pc' = "idle" /\ pc = "path"
  BY PlanFinish DEF TlsPcs
<1>2. run.path \in Paths
  BY <1>1, RunFields DEF PlanInv
<1>3. TypeOK'
  BY <1>1, <1>2 DEF TypeOK, Pcs
<1>4. KeyInv' /\ PeersInv' /\ IdentityIsOnePair' /\ AssignmentIsTrue'
  BY <1>1, KeysUntouched
<1>5. SecretInv' /\ TrustedPeersOmitSelf'
  BY <1>1 DEF SecretInv, TrustedPeersOmitSelf
<1>6. TokensVerify'
  BY <1>1, <1>2, Markers DEF TokensVerify, ToolPath, SecretInv
<1>7. QED
  BY <1>1, <1>3, <1>4, <1>5, <1>6
-----------------------------------------------------------------------------
(* The invariant, and what follows from it. *)

\* Every step keeps the invariant.
LEMMA NextInv == Inv /\ [Next]_vars => Inv'
<1> SUFFICES ASSUME Inv, [Next]_vars PROVE Inv'
  OBVIOUS
<1>1. CASE Next
  BY <1>1, StartRunInv, FailInv, ProvisionInv, BeginNodeEnvInv, WriteNodeEnvInv,
     SetupP2pKeyInv, AdoptValidatorKeysInv, AdoptObserverKeyInv, GenerateKeysInv,
     BeginInstallKeyInv, WriteKeyInv, CheckParentKeyInv, AssignInv,
     SecretUnusedInv, SetupSecretInv, InstallLuaInv, PersistSecretPathInv DEF Next
<1>2. CASE UNCHANGED vars
  <2> USE <1>2 DEF vars, disk, made, Inv
  <2>1. TypeOK'
    BY DEF TypeOK
  <2>2. PlanInv' /\ PeersInv'
    BY DEF PlanInv, PeersInv, Present
  <2>3. KeyInv'
    BY DEF KeyInv, InstallingInv, HasKeys, Validator
  <2>4. SecretInv' /\ TokensVerify' /\ TrustedPeersOmitSelf'
    BY DEF SecretInv, TokensVerify, ToolPath, TrustedPeersOmitSelf
  <2>5. IdentityIsOnePair' /\ AssignmentIsTrue'
    BY DEF IdentityIsOnePair, AssignmentIsTrue, Validator
  <2>6. QED
    BY <2>1, <2>2, <2>3, <2>4, <2>5
<1>3. QED
  BY <1>1, <1>2

\* What holds of every reachable state.
THEOREM Invariance == Spec => []Inv
BY InitInv, NextInv, PTL DEF Spec

\* The types of the installer's state.
THEOREM TypeCorrectness == Spec => []TypeOK
<1>1. Inv => TypeOK
  BY DEF Inv
<1>2. QED
  BY <1>1, Invariance, PTL

\* A generated pair is never of two generations, whatever runs were cut off.
THEOREM OneIdentity == Spec => []IdentityIsOnePair
<1>1. Inv => IdentityIsOnePair
  BY DEF Inv
<1>2. QED
  BY <1>1, Invariance, PTL

\* The observer's marker names the assignment its key was generated under.
THEOREM TrueAssignment == Spec => []AssignmentIsTrue
<1>1. Inv => AssignmentIsTrue
  BY DEF Inv
<1>2. QED
  BY <1>1, Invariance, PTL

\* Handlers have a secret; the tool has one unless no path was ever recorded
\* and no handler uses the default; after a deployment they have the same.
THEOREM TokenAgreement == Spec => []TokensVerify
<1>1. Inv => TokensVerify
  BY DEF Inv
<1>2. QED
  BY <1>1, Invariance, PTL

\* A node whose keys step ended well does not have itself as a trusted peer.
THEOREM PeersWithoutSelf == Spec => []TrustedPeersOmitSelf
<1>1. Inv => TrustedPeersOmitSelf
  BY DEF Inv
<1>2. QED
  BY <1>1, Invariance, PTL

\* No run changes a key file or a secret that has contents.
THEOREM MaterialIsKept == Spec => ExistingMaterialIsKept
<1> DEFINE Kept == /\ \A k \in Keys : key[k] \notin {None, Empty} => key'[k] = key[k]
                   /\ \A p \in Paths : secret[p] # None => secret'[p] = secret[p]
<1>1. ASSUME Inv, [Next]_vars PROVE Kept
  <2>1. CASE UNCHANGED <<key, secret>>
    BY <2>1
  <2>2. ASSUME NEW p \in Parents, Provision(p) PROVE Kept
    BY <2>2 DEF Provision, Present, Inv, TypeOK
  <2>3. CASE SetupP2pKey
    <3>1. UNCHANGED secret
      BY <2>3 DEF SetupP2pKey
    <3>2. CASE Present("p2p")
      BY <2>3, <3>1, <3>2 DEF SetupP2pKey
    <3>3. CASE ~Present("p2p")
      <4>1. key["p2p"] = None /\ key' = [key EXCEPT !["p2p"] = generations']
        BY <2>3, <3>3 DEF SetupP2pKey, Present
      <4>2. QED
        BY <3>1, <4>1, <1>1 DEF Inv, TypeOK
    <3>4. QED
      BY <3>2, <3>3
  <2>4. ASSUME NEW k \in {"node", "consensus"}, BeginInstallKey(k) PROVE Kept
    <3>1. key[k] = None
      BY <1>1, <2>4 DEF BeginInstallKey, Inv, KeyInv, InstallingInv
    <3>2. QED
      BY <1>1, <2>4, <3>1 DEF BeginInstallKey, Inv, TypeOK
  <2>5. ASSUME NEW k \in {"node", "consensus"}, WriteKey(k) PROVE Kept
    <3>1. key[k] = Empty
      BY <1>1, <2>5 DEF WriteKey, Inv, KeyInv, InstallingInv
    <3>2. QED
      BY <1>1, <2>5, <3>1 DEF WriteKey, Inv, TypeOK
  <2>6. CASE SetupSecret
    <3>1. UNCHANGED key
      BY <2>6 DEF SetupSecret
    <3>2. CASE secret[run.path] # None
      BY <2>6, <3>1, <3>2 DEF SetupSecret
    <3>3. CASE secret[run.path] = None
      <4>1. \/ secret' = [secret EXCEPT ![run.path] = Inherited]
            \/ secret' = [secret EXCEPT ![run.path] = generations']
        BY <2>6, <3>3 DEF SetupSecret
      <4>2. QED
        BY <3>1, <3>3, <4>1, <1>1 DEF Inv, TypeOK
    <3>4. QED
      BY <3>2, <3>3
  <2>7. CASE Next
    <3>1. \/ UNCHANGED <<key, secret>>
          \/ \E p \in Parents : Provision(p)
          \/ SetupP2pKey
          \/ \E k \in {"node", "consensus"} : BeginInstallKey(k) \/ WriteKey(k)
          \/ SetupSecret
      BY <2>7 DEF Next, StartRun, Fail, BeginNodeEnv, WriteNodeEnv,
         AdoptValidatorKeys, GenerateValidatorKeys, AdoptObserverKey,
         GenerateObserverKey, CheckParentKey, Assign, SecretUnused,
         BeginInstallLua, WriteLua, PersistSecretPath, disk
    <3>2. QED
      BY <3>1, <2>1, <2>2, <2>3, <2>4, <2>5, <2>6
  <2>8. CASE UNCHANGED vars
    BY <2>8 DEF vars, disk
  <2>9. QED
    BY <1>1, <2>7, <2>8
<1>2. QED
  BY <1>1, Invariance, PTL DEF Spec, ExistingMaterialIsKept

\* The secret embedded in an old handler outlives the handler, but where the
\* operator's own secret was in its place.
THEOREM LegacyIsSaved == Spec => LegacySecretSurvives
<1> DEFINE Saved == jwt_lua = Legacy /\ jwt_lua' # Legacy =>
                      (\E p \in Paths : secret'[p] = Legacy) \/ secret[run.path] = 0
<1>1. ASSUME Inv, [Next]_vars PROVE Saved
  <2>1. CASE UNCHANGED jwt_lua
    BY <2>1
  <2>2. CASE BeginInstallLua \/ WriteLua
    <3>1. pc \in {"lua", "write lua"} /\ UNCHANGED secret
      BY <2>2 DEF BeginInstallLua, WriteLua
    <3>2. run.path \in Paths
      BY <1>1, <3>1, RunFields DEF Inv, PlanInv
    <3>3. jwt_lua = Legacy => secret[run.path] \in {Legacy, 0}
      BY <1>1, <3>1, <3>2 DEF Inv, SecretInv
    <3>4. QED
      BY <3>1, <3>2, <3>3
  <2>3. UNCHANGED jwt_lua \/ BeginInstallLua \/ WriteLua
    BY <1>1 DEF Next, vars, StartRun, Fail, Provision, BeginNodeEnv, WriteNodeEnv,
       SetupP2pKey, AdoptValidatorKeys, GenerateValidatorKeys, AdoptObserverKey,
       GenerateObserverKey, BeginInstallKey, WriteKey, CheckParentKey, Assign,
       SecretUnused, SetupSecret, PersistSecretPath, disk
  <2>4. QED
    BY <2>1, <2>2, <2>3
<1>2. QED
  BY <1>1, Invariance, PTL DEF Spec, LegacySecretSurvives
=============================================================================
