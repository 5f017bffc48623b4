--------------------------- MODULE DeploymentProofs ---------------------------
(***************************************************************************)
(* Theorems about Deployment, for any number of script runs and deaths:    *)
(* the env file never names a half-made deployment, and a deploy script    *)
(* touches only what it creates.                                           *)
(***************************************************************************)
EXTENDS Deployment, TLAPS

-----------------------------------------------------------------------------
(* The shape of the state.                                                 *)

Values == {"none", "uln302", "dvn", "default", "labs"}
Keys == {"none", "deployer", "relayer"}

Packages == [channel : BOOLEAN, cfg : [Settings -> Values], peer : Nat, relayer : Keys]
Adapters == [peer : Nat, send : Values, recv : Values, permit2 : BOOLEAN]
Envs == [pkg : Nat, chan : Nat, evm : Nat, escrow : Nat, receiver : Nat, key : Keys]
Runs == [script : Scripts \union {"none"}, at : Nat \ {0}, seen : Envs, pkg : Nat, chan : Nat,
         adapter : Nat]

\* Where deploy-sui.ts makes each setting.
Place(s) ==
    CASE s = "sendLib" -> 3 [] s = "recvLib" -> 4 [] s = "recvUln" -> 5 [] s = "sendUln" -> 6
      [] s = "executor" -> 7

\* A package of S that is configured, and one that is as deploy-sui.ts leaves it before step k.
Sound(S, p) == p \in DOMAIN S /\ S[p].channel /\ \A s \in Settings : S[p].cfg[s] # "none"

Made(S, p, k) ==
    /\ p \in DOMAIN S
    /\ k >= 3 => S[p].channel
    /\ \A s \in Settings : Place(s) < k => S[p].cfg[s] # "none"

EnvOk(S, E, e) ==
    /\ e.pkg # 0 => Sound(S, e.pkg)
    /\ {e.evm, e.escrow} \subseteq DOMAIN E \union {0}

RunOk(S, E, r) ==
    /\ EnvOk(S, E, r.seen)
    /\ r.script = "deploySui" /\ r.at >= 2 => Made(S, r.pkg, r.at)
    /\ r.script \in EvmDeploys /\ r.at >= 2 => r.adapter \in DOMAIN E
    /\ r.script = "setEvmReceiveUln" => r.seen.evm # 0

PeersOk(S, E) == \A a \in DOMAIN E : E[a].peer # 0 => Sound(S, E[a].peer)

\* What a script read and what it made are as good as the env file's: they are saved there.
LaneInv ==
    /\ sui \in Seq(Packages) /\ evm \in Seq(Adapters) /\ env \in Envs /\ plan \in Plans
    /\ run \in [Operators -> Runs]
    /\ PeersOk(sui, evm)
    /\ EnvOk(sui, evm, env)
    /\ \A o \in Operators : RunOk(sui, evm, run[o])

-----------------------------------------------------------------------------
(* What may be done to the deployments.                                    *)

\* T is S with packages added, or configured further.
SuiGrows(S, T) ==
    /\ T \in Seq(Packages) /\ DOMAIN S \subseteq DOMAIN T
    /\ \A p \in DOMAIN S :
          /\ S[p].channel => T[p].channel
          /\ \A s \in Settings : S[p].cfg[s] # "none" => T[p].cfg[s] # "none"

EvmGrows(E, F) == F \in Seq(Adapters) /\ DOMAIN E \subseteq DOMAIN F

LEMMA Kept ==
    ASSUME NEW S, NEW T, SuiGrows(S, T), NEW E, NEW F, EvmGrows(E, F)
    PROVE  /\ \A p : Sound(S, p) => Sound(T, p)
           /\ \A p, k : Made(S, p, k) => Made(T, p, k)
           /\ \A e : EnvOk(S, E, e) => EnvOk(T, F, e)
           /\ \A r : RunOk(S, E, r) => RunOk(T, F, r)
<1>1. \A p : Sound(S, p) => Sound(T, p)
  BY DEF Sound, SuiGrows
<1>2. \A p, k : Made(S, p, k) => Made(T, p, k)
  BY DEF Made, SuiGrows
<1>3. \A e : EnvOk(S, E, e) => EnvOk(T, F, e)
  BY <1>1 DEF EnvOk, EvmGrows
<1>4. \A r : RunOk(S, E, r) => RunOk(T, F, r)
  BY <1>2, <1>3 DEF RunOk, EvmGrows
<1> QED BY <1>1, <1>2, <1>3, <1>4

LEMMA Same ==
    /\ \A S \in Seq(Packages) : SuiGrows(S, S)
    /\ \A E \in Seq(Adapters) : EvmGrows(E, E)
  BY DEF SuiGrows, EvmGrows

LEMMA SettingNames ==
    /\ Settings = {"sendLib", "recvLib", "recvUln", "sendUln", "executor"}
    /\ NoSettings \in [Settings -> Values]
    /\ FreshPackage \in Packages /\ LivePackage \in Packages
    /\ FreshAdapter \in Adapters /\ LiveAdapter \in Adapters
<1>1. Settings = {"sendLib", "recvLib", "recvUln", "sendUln", "executor"}
  BY DEF Settings, UlnSettings
<1>2. NoSettings \in [Settings -> Values]
  BY DEF NoSettings, Values
<1>3. [s \in Settings |-> IF s \in UlnSettings THEN "dvn" ELSE "uln302"] \in [Settings -> Values]
  BY DEF Values
<1>4. FreshPackage \in Packages
  BY <1>2 DEF FreshPackage, Packages, Keys
<1>5. LivePackage \in Packages
  BY <1>3 DEF LivePackage, Packages, Keys
<1> QED BY <1>1, <1>2, <1>4, <1>5, DeploymentAssumption DEF FreshAdapter, LiveAdapter, Adapters, Values

\* publish: a new package, which has no settings.
LEMMA Published ==
    ASSUME NEW S \in Seq(Packages)
    PROVE  LET T == Append(S, FreshPackage)
           IN  /\ SuiGrows(S, T) /\ Len(S) + 1 \in DOMAIN T
               /\ \A p \in DOMAIN S : T[p] = S[p]
<1> DEFINE T == Append(S, FreshPackage)
<1>1. T \in Seq(Packages) /\ DOMAIN T = 1 .. (Len(S) + 1) /\ \A p \in DOMAIN S : T[p] = S[p]
  BY SettingNames
<1> HIDE DEF T
<1>2. DOMAIN S = 1 .. Len(S) /\ Len(S) \in Nat
  OBVIOUS
<1> QED BY <1>1, <1>2 DEF SuiGrows, T

\* One package is set to q, which keeps what was configured.
LEMMA Configures ==
    ASSUME NEW S \in Seq(Packages), NEW p, NEW q \in Packages,
           p \in DOMAIN S =>
              /\ S[p].channel => q.channel
              /\ \A s \in Settings : S[p].cfg[s] # "none" => q.cfg[s] # "none"
    PROVE  SuiGrows(S, [S EXCEPT ![p] = q])
<1> DEFINE T == [S EXCEPT ![p] = q]
<1>1. T \in Seq(Packages) /\ DOMAIN T = DOMAIN S
  <2>1. CASE p \in DOMAIN S
    BY <2>1
  <2>2. CASE p \notin DOMAIN S
    <3>1. T = S
      BY <2>2
    <3> QED BY <3>1
  <2> QED BY <2>1, <2>2
<1>2. \A x \in DOMAIN S : T[x] = IF x = p THEN q ELSE S[x]
  OBVIOUS
<1> HIDE DEF T
<1>3. SuiGrows(S, T)
  BY <1>1, <1>2 DEF SuiGrows
<1> QED BY <1>3 DEF T

\* What a transaction sets on one package; an id that names none changes nothing.
WithCfg(S, p, s, v) == [S EXCEPT ![p].cfg[s] = v]

LEMMA SetCfg ==
    ASSUME NEW S \in Seq(Packages), NEW p, NEW s \in Settings, NEW v,
           p \in DOMAIN S => v \in Values \ {"none"}
    PROVE  /\ SuiGrows(S, WithCfg(S, p, s, v))
           /\ p \in DOMAIN S => WithCfg(S, p, s, v)[p].cfg[s] = v
           /\ \A x \in DOMAIN S \ {p} : WithCfg(S, p, s, v)[x] = S[x]
<1>0. PICK T : T = WithCfg(S, p, s, v)
  OBVIOUS
<1>1. CASE p \in DOMAIN S
  <2> DEFINE c == [S[p].cfg EXCEPT ![s] = v]
             q == [S[p] EXCEPT !.cfg = c]
  <2>1. S[p] \in Packages /\ S[p].cfg \in [Settings -> Values]
    <3>1. S[p] \in Packages
      BY <1>1
    <3> QED BY <3>1 DEF Packages
  <2>2. c \in [Settings -> Values] /\ c[s] = v /\ \A x \in Settings \ {s} : c[x] = S[p].cfg[x]
    BY <1>1, <2>1
  <2>3. T = [S EXCEPT ![p] = q]
    BY <1>0, <1>1, <2>1 DEF Packages, WithCfg
  <2> HIDE DEF c
  <2>4. q \in Packages /\ q.cfg = c /\ q.channel = S[p].channel
    BY <2>1, <2>2 DEF Packages
  <2> HIDE DEF q
  <2>5. v # "none"
    BY <1>1
  <2>6. \A x \in Settings : S[p].cfg[x] # "none" => q.cfg[x] # "none"
    BY <2>2, <2>4, <2>5
  <2>7. SuiGrows(S, T)
    <3>1. SuiGrows(S, [S EXCEPT ![p] = q])
      BY <2>4, <2>6, Configures
    <3> QED BY <2>3, <3>1
  <2>8. T[p] = q /\ \A x \in DOMAIN S \ {p} : T[x] = S[x]
    BY <1>1, <2>3
  <2> QED BY <1>0, <1>1, <2>2, <2>4, <2>7, <2>8
<1>2. CASE p \notin DOMAIN S
  <2>1. T = S
    BY <1>0, <1>2 DEF WithCfg
  <2> QED BY <1>0, <1>2, <2>1, Same
<1> QED BY <1>1, <1>2

LEMMA SetOther ==
    ASSUME NEW S \in Seq(Packages), NEW p, NEW T,
           \/ T = S
           \/ T = [S EXCEPT ![p].channel = TRUE]
           \/ \E x \in Nat : T = [S EXCEPT ![p].peer = x]
           \/ \E k \in Keys : T = [S EXCEPT ![p].relayer = k]
    PROVE  /\ SuiGrows(S, T) /\ (p \in DOMAIN S => T[p].cfg = S[p].cfg)
           /\ (p \in DOMAIN S /\ T = [S EXCEPT ![p].channel = TRUE] => T[p].channel)
           /\ \A x \in DOMAIN S \ {p} : T[x] = S[x]
<1>1. CASE p \in DOMAIN S
  <2>1. S[p] \in Packages
    BY <1>1
  <2>2. \E q \in Packages : /\ T = [S EXCEPT ![p] = q] /\ q.cfg = S[p].cfg
                            /\ S[p].channel => q.channel
                            /\ T = [S EXCEPT ![p].channel = TRUE] => q.channel
    <3>1. CASE T = S
      <4>1. T = [S EXCEPT ![p] = S[p]]
        BY <1>1, <3>1
      <4>2. [S EXCEPT ![p].channel = TRUE][p].channel
        BY <1>1, <2>1 DEF Packages
      <4>3. T = [S EXCEPT ![p].channel = TRUE] => S[p].channel
        BY <3>1, <4>2
      <4> QED BY <2>1, <4>1, <4>3
    <3>2. CASE T = [S EXCEPT ![p].channel = TRUE]
      <4> DEFINE q == [S[p] EXCEPT !.channel = TRUE]
      <4>1. T = [S EXCEPT ![p] = q]
        BY <1>1, <3>2
      <4>2. q \in Packages /\ q.cfg = S[p].cfg /\ q.channel
        BY <2>1 DEF Packages
      <4> QED BY <4>1, <4>2
    <3>3. ASSUME NEW x \in Nat, T = [S EXCEPT ![p].peer = x], T # [S EXCEPT ![p].channel = TRUE]
          PROVE  \E q \in Packages : T = [S EXCEPT ![p] = q] /\ q.cfg = S[p].cfg /\ q.channel = S[p].channel
      <4> DEFINE q == [S[p] EXCEPT !.peer = x]
      <4>1. T = [S EXCEPT ![p] = q]
        BY <1>1, <3>3
      <4>2. q \in Packages /\ q.cfg = S[p].cfg /\ q.channel = S[p].channel
        BY <2>1 DEF Packages
      <4> QED BY <4>1, <4>2
    <3>4. ASSUME NEW k \in Keys, T = [S EXCEPT ![p].relayer = k], T # [S EXCEPT ![p].channel = TRUE]
          PROVE  \E q \in Packages : T = [S EXCEPT ![p] = q] /\ q.cfg = S[p].cfg /\ q.channel = S[p].channel
      <4> DEFINE q == [S[p] EXCEPT !.relayer = k]
      <4>1. T = [S EXCEPT ![p] = q]
        BY <1>1, <3>4
      <4>2. q \in Packages /\ q.cfg = S[p].cfg /\ q.channel = S[p].channel
        BY <2>1 DEF Packages
      <4> QED BY <4>1, <4>2
    <3> QED BY <3>1, <3>2, <3>3, <3>4
  <2>3. PICK q \in Packages : /\ T = [S EXCEPT ![p] = q] /\ q.cfg = S[p].cfg
                              /\ S[p].channel => q.channel
                              /\ T = [S EXCEPT ![p].channel = TRUE] => q.channel
    BY <2>2
  <2>4. SuiGrows(S, T)
    BY <2>3, Configures
  <2>5. T[p] = q /\ \A x \in DOMAIN S \ {p} : T[x] = S[x]
    BY <1>1, <2>3
  <2> QED BY <2>3, <2>4, <2>5
<1>2. CASE p \notin DOMAIN S
  <2>1. T = S
    BY <1>2
  <2> QED BY <1>2, <2>1, Same
<1> QED BY <1>1, <1>2

\* The same for an adapter.
LEMMA SetAdapter ==
    ASSUME NEW E \in Seq(Adapters), NEW a, NEW q, a \in DOMAIN E => q \in Adapters
    PROVE  LET F == [E EXCEPT ![a] = q]
           IN  /\ EvmGrows(E, F) /\ DOMAIN F = DOMAIN E
               /\ \A x \in DOMAIN E : F[x] = IF x = a THEN q ELSE E[x]
<1> DEFINE F == [E EXCEPT ![a] = q]
<1>1. F \in Seq(Adapters) /\ DOMAIN F = DOMAIN E
  <2>1. CASE a \in DOMAIN E
    BY <2>1
  <2>2. CASE a \notin DOMAIN E
    <3>1. F = E
      BY <2>2
    <3> QED BY <3>1
  <2> QED BY <2>1, <2>2
<1> QED BY <1>1 DEF EvmGrows

LEMMA SetEvmPeer ==
    ASSUME NEW E \in Seq(Adapters), NEW a, NEW x \in Nat
    PROVE  LET F == [E EXCEPT ![a].peer = x]
           IN  /\ EvmGrows(E, F) /\ DOMAIN F = DOMAIN E
               /\ \A y \in DOMAIN E : F[y].recv = E[y].recv /\ F[y].peer \in {E[y].peer, x}
               /\ \A y \in DOMAIN E \ {a} : F[y] = E[y]
<1> DEFINE q == [E[a] EXCEPT !.peer = x]
           F == [E EXCEPT ![a].peer = x]
<1>1. a \in DOMAIN E => E[a] \in Adapters
  OBVIOUS
<1>2. a \in DOMAIN E => q \in Adapters /\ q.recv = E[a].recv /\ q.peer = x
  BY <1>1 DEF Adapters
<1>3. F = [E EXCEPT ![a] = q]
  OBVIOUS
<1> HIDE DEF q, F
<1>4. /\ EvmGrows(E, F) /\ DOMAIN F = DOMAIN E
      /\ \A y \in DOMAIN E : F[y] = IF y = a THEN q ELSE E[y]
  BY <1>2, <1>3, SetAdapter
<1> QED BY <1>2, <1>4 DEF F

LEMMA SetEvmConfig ==
    ASSUME NEW E \in Seq(Adapters), NEW a, NEW F,
           \/ \E x \in BOOLEAN : F = [E EXCEPT ![a].permit2 = x]
           \/ \E x \in Values : F = [E EXCEPT ![a].recv = x]
           \/ \E x \in Values : F = [E EXCEPT ![a].send = x]
    PROVE  /\ EvmGrows(E, F) /\ DOMAIN F = DOMAIN E
           /\ \A y \in DOMAIN E : F[y].peer = E[y].peer
           /\ \A y \in DOMAIN E \ {a} : F[y] = E[y]
           /\ (\E x \in BOOLEAN : F = [E EXCEPT ![a].permit2 = x]) =>
                 \A y \in DOMAIN E : F[y].recv = E[y].recv
<1>1. a \in DOMAIN E => E[a] \in Adapters
  OBVIOUS
<1>2. ASSUME NEW q, F = [E EXCEPT ![a] = q], a \in DOMAIN E => q \in Adapters /\ q.peer = E[a].peer
      PROVE  /\ EvmGrows(E, F) /\ DOMAIN F = DOMAIN E
             /\ \A y \in DOMAIN E : F[y].peer = E[y].peer
             /\ \A y \in DOMAIN E : F[y] = IF y = a THEN q ELSE E[y]
  BY <1>2, SetAdapter
<1>3. ASSUME NEW x \in BOOLEAN, F = [E EXCEPT ![a].permit2 = x]
      PROVE  \E q : /\ F = [E EXCEPT ![a] = q]
                    /\ a \in DOMAIN E => q \in Adapters /\ q.peer = E[a].peer /\ q.recv = E[a].recv
  <2> DEFINE q == [E[a] EXCEPT !.permit2 = x]
  <2>1. a \in DOMAIN E => q \in Adapters /\ q.peer = E[a].peer /\ q.recv = E[a].recv
    BY <1>1 DEF Adapters
  <2>2. F = [E EXCEPT ![a] = q]
    BY <1>3
  <2> HIDE DEF q
  <2> QED BY <2>1, <2>2
<1>4. ASSUME NEW x \in Values, F = [E EXCEPT ![a].recv = x]
      PROVE  \E q : F = [E EXCEPT ![a] = q] /\ (a \in DOMAIN E => q \in Adapters /\ q.peer = E[a].peer)
  <2> DEFINE q == [E[a] EXCEPT !.recv = x]
  <2>1. a \in DOMAIN E => q \in Adapters /\ q.peer = E[a].peer
    BY <1>1 DEF Adapters
  <2>2. F = [E EXCEPT ![a] = q]
    BY <1>4
  <2> HIDE DEF q
  <2> QED BY <2>1, <2>2
<1>5. ASSUME NEW x \in Values, F = [E EXCEPT ![a].send = x]
      PROVE  \E q : F = [E EXCEPT ![a] = q] /\ (a \in DOMAIN E => q \in Adapters /\ q.peer = E[a].peer)
  <2> DEFINE q == [E[a] EXCEPT !.send = x]
  <2>1. a \in DOMAIN E => q \in Adapters /\ q.peer = E[a].peer
    BY <1>1 DEF Adapters
  <2>2. F = [E EXCEPT ![a] = q]
    BY <1>5
  <2> HIDE DEF q
  <2> QED BY <2>1, <2>2
<1>6. \E q : F = [E EXCEPT ![a] = q] /\ (a \in DOMAIN E => q \in Adapters /\ q.peer = E[a].peer)
  BY <1>3, <1>4, <1>5
<1> QED BY <1>2, <1>3, <1>6

-----------------------------------------------------------------------------
(* The scripts.                                                            *)

LEMMA OperatorNames == Operators = {"runbook", "other"} /\ Runbook \in Operators /\ Other \in Operators
  BY DEF Operators, Runbook, Other

LEMMA ScriptNames ==
    /\ Scripts = {"deploySui", "deployEvm", "deployEvmEscrow", "wire", "setDvn", "setEvmReceiveUln",
                  "setExecutorConfig", "setLzRelayer", "initStore", "setLibraries", "setReceiveDvn",
                  "setPeer", "editEnv"}
    /\ \A p \in Plans : \A i \in DOMAIN Plan[p] : Plan[p][i] \in Scripts
<1>1. Scripts = {"deploySui", "deployEvm", "deployEvmEscrow", "wire", "setDvn", "setEvmReceiveUln",
                 "setExecutorConfig", "setLzRelayer", "initStore", "setLibraries", "setReceiveDvn",
                 "setPeer", "editEnv"}
  BY DEF Scripts, Steps
<1>2. Plans \subseteq {"first", "escrow", "m4", "solana"}
  BY DeploymentAssumption DEF Plan
<1>3. ASSUME NEW i \in DOMAIN Plan["first"] PROVE Plan["first"][i] \in Scripts
  BY <1>1, <1>3 DEF Plan
<1>4. ASSUME NEW i \in DOMAIN Plan["escrow"] PROVE Plan["escrow"][i] \in Scripts
  BY <1>1, <1>4 DEF Plan
<1>5. ASSUME NEW i \in DOMAIN Plan["m4"] PROVE Plan["m4"][i] \in Scripts
  BY <1>1, <1>5 DEF Plan
<1>6. ASSUME NEW i \in DOMAIN Plan["solana"] PROVE Plan["solana"][i] \in Scripts
  BY <1>1, <1>6 DEF Plan
<1> QED BY <1>1, <1>2, <1>3, <1>4, <1>5, <1>6

\* Where the deploy scripts are when they are at a step.
LEMMA SuiPlaces ==
    ASSUME NEW o, NEW l, At(o, "deploySui", l), run[o].at \in Nat \ {0}
    PROVE  /\ run[o].script = "deploySui" /\ run[o].at \in 1 .. 10
           /\ l = "publish" => run[o].at = 1
           /\ l = "registerOApp" => run[o].at = 2
           /\ l \in Settings => run[o].at = Place(l)
           /\ l = "setPeer" => run[o].at = 8
           /\ l = "setRelayer" => run[o].at = 9
           /\ l = "updateEnv" => run[o].at = 10
<1>1. /\ Steps["deploySui"] = <<"publish", "registerOApp", "sendLib", "recvLib", "recvUln", "sendUln",
                                "executor", "setPeer", "setRelayer", "updateEnv">>
      /\ Len(Steps["deploySui"]) = 10
  BY DEF Steps
<1>2. run[o].script = "deploySui" /\ run[o].at <= 10 /\ Steps["deploySui"][run[o].at] = l
  BY <1>1 DEF At
<1>3. run[o].at \in 1 .. 10
  BY <1>2
<1>4. PICK k \in 1 .. 10 : k = run[o].at
  BY <1>3
<1>5. k \in {1, 2, 3, 4, 5, 6, 7, 8, 9, 10}
  OBVIOUS
<1>6. <<"publish", "registerOApp", "sendLib", "recvLib", "recvUln", "sendUln",
        "executor", "setPeer", "setRelayer", "updateEnv">>[k] = l
  BY <1>1, <1>2, <1>4
<1> QED BY <1>2, <1>4, <1>5, <1>6, SettingNames DEF Place

LEMMA EvmPlaces ==
    ASSUME NEW o, NEW s \in EvmDeploys, NEW l, At(o, s, l), run[o].at \in Nat \ {0}
    PROVE  /\ run[o].script = s /\ (l = "deploy" => run[o].at = 1)
           /\ l # "deploy" => run[o].at >= 2
           /\ l = "updateEnv" => run[o].at = IF s = "deployEvm" THEN 3 ELSE 4
           /\ run[o].at \in 1 .. 4
<1>1. /\ Steps["deployEvm"] = <<"deploy", "setPeer", "updateEnv">> /\ Len(Steps["deployEvm"]) = 3
      /\ Steps["deployEvmEscrow"] = <<"deploy", "setPeer", "setPermit2", "updateEnv">>
      /\ Len(Steps["deployEvmEscrow"]) = 4
  BY DEF Steps
<1>2. PICK k \in Nat \ {0} : k = run[o].at
  OBVIOUS
<1>3. run[o].script = s /\ k <= Len(Steps[s]) /\ Steps[s][k] = l
  BY <1>2 DEF At
<1>4. CASE s = "deployEvm"
  <2>1. k \in {1, 2, 3} /\ <<"deploy", "setPeer", "updateEnv">>[k] = l
    BY <1>1, <1>3, <1>4
  <2> QED BY <1>2, <1>3, <1>4, <2>1
<1>5. CASE s = "deployEvmEscrow"
  <2>1. k \in {1, 2, 3, 4} /\ <<"deploy", "setPeer", "setPermit2", "updateEnv">>[k] = l
    BY <1>1, <1>3, <1>5
  <2> QED BY <1>2, <1>3, <1>5, <2>1
<1> QED BY <1>4, <1>5 DEF EvmDeploys

-----------------------------------------------------------------------------
(* Steps of an operator.                                                   *)

\* One operator's script moves on to r, and the state with it.
LEMMA Carries ==
    ASSUME LaneInv, NEW o \in Operators, NEW r \in Runs, run' = [run EXCEPT ![o] = r],
           SuiGrows(sui, sui'), EvmGrows(evm, evm'), PeersOk(sui', evm'),
           env' \in Envs, EnvOk(sui', evm', env'), RunOk(sui', evm', r), plan' = plan
    PROVE  LaneInv'
<1>1. run' \in [Operators -> Runs]
  BY DEF LaneInv
<1>2. ASSUME NEW x \in Operators PROVE RunOk(sui', evm', run'[x])
  <2>1. CASE x = o
    BY <2>1 DEF LaneInv
  <2>2. CASE x # o
    <3>1. run'[x] = run[x] /\ RunOk(sui, evm, run[x])
      BY <2>2 DEF LaneInv
    <3> QED BY <3>1, Kept
  <2> QED BY <2>1, <2>2
<1> QED BY <1>1, <1>2 DEF LaneInv, SuiGrows, EvmGrows

\* Sui's packages move on, the rest of the chains and the env file stay.
LEMMA SuiMoved ==
    ASSUME LaneInv, SuiGrows(sui, sui')
    PROVE  /\ \A e : EnvOk(sui, evm, e) => EnvOk(sui', evm, e)
           /\ \A r : RunOk(sui, evm, r) => RunOk(sui', evm, r)
           /\ EvmGrows(evm, evm) /\ PeersOk(sui', evm)
<1>1. EvmGrows(evm, evm)
  BY Same DEF LaneInv
<1> QED BY <1>1, Kept DEF LaneInv, PeersOk

\* ... or the adapters.
LEMMA EvmMoved ==
    ASSUME LaneInv, EvmGrows(evm, evm')
    PROVE  /\ \A e : EnvOk(sui, evm, e) => EnvOk(sui, evm', e)
           /\ \A r : RunOk(sui, evm, r) => RunOk(sui, evm', r)
           /\ SuiGrows(sui, sui)
<1>1. SuiGrows(sui, sui)
  BY Same DEF LaneInv
<1> QED BY <1>1, Kept

\* A script goes on by one step.
LEMMA Advanced ==
    ASSUME LaneInv, NEW o \in Operators, Advance(o),
           SuiGrows(sui, sui'), EvmGrows(evm, evm'), PeersOk(sui', evm'),
           env' \in Envs, EnvOk(sui', evm', env'), plan' = plan,
           run[o].script = "deploySui" => Made(sui', run[o].pkg, run[o].at + 1),
           run[o].script \in EvmDeploys => run[o].adapter \in DOMAIN evm'
    PROVE  LaneInv'
<1> DEFINE r == [run[o] EXCEPT !.at = @ + 1]
<1>1. run[o] \in Runs /\ RunOk(sui, evm, run[o])
  BY DEF LaneInv
<1>2. /\ r \in Runs /\ r.at = run[o].at + 1 /\ r.seen = run[o].seen /\ r.script = run[o].script
      /\ r.pkg = run[o].pkg /\ r.adapter = run[o].adapter
  BY <1>1 DEF Runs
<1>3. run' = [run EXCEPT ![o] = r]
  BY DEF Advance, LaneInv
<1> HIDE DEF r
<1>4. EnvOk(sui', evm', r.seen)
  BY <1>1, <1>2, Kept DEF RunOk
<1>5. RunOk(sui', evm', r)
  BY <1>1, <1>2, <1>4 DEF RunOk
<1> QED BY <1>2, <1>3, <1>5, Carries

LEMMA NoRunOk == NoRun \in Runs /\ NoEnv \in Envs /\ \A S, E : RunOk(S, E, NoRun)
<1>1. NoEnv \in Envs
  BY DEF NoEnv, Envs, Keys
<1>2. NoRun \in Runs
  BY <1>1 DEF NoRun, Runs
<1>3. NoRun.seen.pkg = 0 /\ NoRun.seen.evm = 0 /\ NoRun.seen.escrow = 0 /\ NoRun.script = "none"
  BY DEF NoRun, NoEnv
<1> QED BY <1>1, <1>2, <1>3 DEF RunOk, EnvOk, EvmDeploys

\* A script ends.
LEMMA Exited ==
    ASSUME LaneInv, NEW o \in Operators, Exit(o), SuiGrows(sui, sui'), UNCHANGED <<evm, env, plan>>
    PROVE  LaneInv'
<1>1. run' = [run EXCEPT ![o] = NoRun]
  BY DEF Exit
<1>2. EnvOk(sui', evm, env)
  BY SuiMoved DEF LaneInv
<1>3. EvmGrows(evm, evm') /\ PeersOk(sui', evm') /\ EnvOk(sui', evm', env') /\ env' \in Envs
  BY <1>2, SuiMoved DEF LaneInv
<1> QED BY <1>1, <1>3, NoRunOk, Carries

\* A script starts.
LEMMA Launched ==
    ASSUME LaneInv, NEW o \in Operators, NEW s \in Scripts, Launch(o, s), UNCHANGED <<chains, env, plan>>
    PROVE  LaneInv'
<1> DEFINE r == [NoRun EXCEPT !.script = s, !.seen = env]
<1>1. env \in Envs /\ EnvOk(sui, evm, env) /\ SuiGrows(sui, sui) /\ EvmGrows(evm, evm) /\ PeersOk(sui, evm)
  BY Same DEF LaneInv
<1>2. r \in Runs /\ r.at = 1 /\ r.seen = env /\ r.script = s
  BY <1>1, NoRunOk DEF NoRun, Runs
<1>6. s = "setEvmReceiveUln" => env.evm # 0
  BY DEF Launch, RequiredEnv
<1>3. run' = [run EXCEPT ![o] = r]
  BY DEF Launch
<1> HIDE DEF r
<1>4. RunOk(sui, evm, r)
  BY <1>1, <1>2, <1>6 DEF RunOk
<1>5. sui' = sui /\ evm' = evm /\ env' = env
  BY DEF chains
<1> QED BY <1>1, <1>2, <1>3, <1>4, <1>5, Carries

-----------------------------------------------------------------------------
(* deploy-sui.ts                                                           *)

LEMMA PublishStep ==
    ASSUME LaneInv, NEW o \in Operators, publish(o)
    PROVE  LaneInv'
<1> DEFINE r == [run[o] EXCEPT !.at = @ + 1, !.pkg = Len(sui) + 1]
<1>1. run[o] \in Runs /\ RunOk(sui, evm, run[o]) /\ sui \in Seq(Packages) /\ EnvOk(sui, evm, env)
  BY DEF LaneInv
<1>2. /\ At(o, "deploySui", "publish") /\ sui' = Append(sui, FreshPackage)
      /\ run' = [run EXCEPT ![o].at = @ + 1, ![o].pkg = Len(sui) + 1]
      /\ evm' = evm /\ env' = env /\ plan' = plan
  BY DEF publish, control
<1>3. run[o].at = 1 /\ run[o].script = "deploySui"
  BY <1>1, <1>2, SuiPlaces DEF Runs
<1>4. SuiGrows(sui, sui') /\ Len(sui) + 1 \in DOMAIN sui'
  BY <1>1, <1>2, Published
<1>5. /\ r \in Runs /\ r.at = 2 /\ r.seen = run[o].seen /\ r.script = "deploySui"
      /\ r.pkg = Len(sui) + 1
  <2>1. PICK k \in Nat : k = Len(sui) + 1
    BY <1>1
  <2>2. PICK n \in Nat \ {0} : n = run[o].at + 1 /\ n = 2
    BY <1>3
  <2>3. r = [run[o] EXCEPT !.at = n, !.pkg = k]
    BY <2>1, <2>2
  <2>4. r \in Runs
    BY <1>1, <2>3 DEF Runs
  <2>5. r.at = n /\ r.seen = run[o].seen /\ r.script = run[o].script /\ r.pkg = k
    BY <1>1, <2>3 DEF Runs
  <2> QED BY <1>3, <2>1, <2>2, <2>4, <2>5
<1>6. run' = [run EXCEPT ![o] = r]
  BY <1>2 DEF LaneInv
<1> HIDE DEF r
<1>7. Made(sui', r.pkg, 2)
  BY <1>4, <1>5, SettingNames DEF Made, Place
<1>8. EnvOk(sui', evm, r.seen) /\ EnvOk(sui', evm, env)
  BY <1>1, <1>4, <1>5, SuiMoved DEF RunOk
<1>9. RunOk(sui', evm', r)
  BY <1>2, <1>5, <1>7, <1>8 DEF RunOk, EvmDeploys
<1>10. EvmGrows(evm, evm') /\ PeersOk(sui', evm') /\ env' \in Envs /\ EnvOk(sui', evm', env')
  BY <1>2, <1>4, <1>8, SuiMoved DEF LaneInv
<1> QED BY <1>2, <1>4, <1>5, <1>6, <1>9, <1>10, Carries

LEMMA RegisterStep ==
    ASSUME LaneInv, NEW o \in Operators, registerOApp(o)
    PROVE  LaneInv'
<1>1. run[o] \in Runs /\ RunOk(sui, evm, run[o]) /\ sui \in Seq(Packages) /\ EnvOk(sui, evm, env)
  BY DEF LaneInv
<1>2. PICK found \in findCreatedByType(run[o].pkg) :
         run' = [run EXCEPT ![o].at = @ + 1, ![o].chan = found]
  BY DEF registerOApp
<1>3. /\ At(o, "deploySui", "registerOApp") /\ sui' = [sui EXCEPT ![run[o].pkg].channel = TRUE]
      /\ evm' = evm /\ env' = env /\ plan' = plan
  BY DEF registerOApp, control
<1>4. run[o].at = 2 /\ run[o].script = "deploySui"
  BY <1>1, <1>3, SuiPlaces DEF Runs
<1>5. run[o].pkg \in DOMAIN sui
  BY <1>1, <1>4 DEF RunOk, Made
<1>6. SuiGrows(sui, sui') /\ sui'[run[o].pkg].channel
  <2>1. PICK p : p = run[o].pkg
    BY Zenon
  <2>2. PICK S \in Seq(Packages) : S = sui
    BY <1>1
  <2>3. PICK T : T = sui'
    BY Zenon
  <2>4. p \in DOMAIN S /\ T = [S EXCEPT ![p].channel = TRUE]
    BY <1>3, <1>5, <2>1, <2>2, <2>3, Zenon
  <2>5. SuiGrows(S, T) /\ T[p].channel
    BY <2>4, SetOther, Zenon
  <2> QED BY <2>1, <2>2, <2>3, <2>5, Zenon
<1> DEFINE r == [run[o] EXCEPT !.at = @ + 1, !.chan = found]
<1>7. /\ r \in Runs /\ r.at = 3 /\ r.seen = run[o].seen /\ r.script = "deploySui"
      /\ r.pkg = run[o].pkg
  <2>1. found \in Nat
    BY <1>1 DEF findCreatedByType, Runs
  <2>2. PICK n \in Nat \ {0} : n = run[o].at + 1 /\ n = 3
    BY <1>4
  <2>3. r = [run[o] EXCEPT !.at = n, !.chan = found]
    BY <2>2
  <2>4. r \in Runs
    BY <1>1, <2>1, <2>3 DEF Runs
  <2>5. r.at = n /\ r.seen = run[o].seen /\ r.script = run[o].script /\ r.pkg = run[o].pkg
    BY <1>1, <2>3 DEF Runs
  <2> QED BY <1>4, <2>2, <2>4, <2>5
<1>8. run' = [run EXCEPT ![o] = r]
  BY <1>2 DEF LaneInv
<1> HIDE DEF r
<1>9. Made(sui', r.pkg, 3)
  BY <1>5, <1>6, <1>7, SettingNames DEF Made, Place, SuiGrows
<1>10. EnvOk(sui', evm, r.seen) /\ EnvOk(sui', evm, env)
  BY <1>1, <1>6, <1>7, SuiMoved DEF RunOk
<1>11. RunOk(sui', evm', r)
  BY <1>3, <1>7, <1>9, <1>10 DEF RunOk, EvmDeploys
<1>12. EvmGrows(evm, evm') /\ PeersOk(sui', evm') /\ env' \in Envs /\ EnvOk(sui', evm', env')
  BY <1>3, <1>6, <1>10, SuiMoved DEF LaneInv
<1> QED BY <1>3, <1>6, <1>7, <1>8, <1>11, <1>12, Carries

\* The settings of the package, and its peer and relayer.
LEMMA ConfigureStep ==
    ASSUME LaneInv, NEW o \in Operators, setLzLibraries(o) \/ setLzConfig(o)
    PROVE  LaneInv'
<1>1. run[o] \in Runs /\ RunOk(sui, evm, run[o]) /\ sui \in Seq(Packages) /\ EnvOk(sui, evm, env)
  BY DEF LaneInv
<1>2. PICK s \in Settings, v \in Values \ {"none"} :
         /\ At(o, "deploySui", s) /\ sui' = WithCfg(sui, run[o].pkg, s, v) /\ Advance(o)
  <2>1. "uln302" \in Values \ {"none"} /\ UlnConfig \in Values \ {"none"}
    BY DEF UlnConfig, Values
  <2>2. {"sendLib", "recvLib"} \subseteq Settings /\ UlnSettings \subseteq Settings
    BY DEF Settings
  <2>3. CASE setLzLibraries(o)
    BY <2>1, <2>2, <2>3, Zenon DEF setLzLibraries, WithCfg
  <2>4. CASE setLzConfig(o)
    BY <2>1, <2>2, <2>4, Zenon DEF setLzConfig, WithCfg
  <2> QED BY <2>3, <2>4
<1>3. evm' = evm /\ env' = env /\ plan' = plan
  BY DEF setLzLibraries, setLzConfig, control
<1>4. run[o].at = Place(s) /\ run[o].script = "deploySui" /\ run[o].at \in 3 .. 7
  <2>1. run[o].at \in Nat \ {0}
    BY <1>1 DEF Runs
  <2>2. run[o].at = Place(s) /\ run[o].script = "deploySui"
    BY <1>2, <2>1, SuiPlaces
  <2>3. Place(s) \in 3 .. 7
    BY SettingNames DEF Place
  <2> QED BY <2>2, <2>3
<1>5. Made(sui, run[o].pkg, run[o].at)
  BY <1>1, <1>4 DEF RunOk
<1>6. run[o].pkg \in DOMAIN sui
  BY <1>5 DEF Made
<1>7. SuiGrows(sui, sui') /\ sui'[run[o].pkg].cfg[s] # "none"
  BY <1>1, <1>2, <1>6, SetCfg
<1>8. Made(sui', run[o].pkg, run[o].at)
  BY <1>5, <1>7, Same, Kept DEF LaneInv
<1>9. \A x \in Settings : Place(x) < run[o].at + 1 => x = s \/ Place(x) < run[o].at
  <2>1. \A x \in Settings : Place(x) \in Nat /\ (Place(x) = Place(s) => x = s)
    BY SettingNames DEF Place
  <2> QED BY <1>4, <2>1
<1>10. Made(sui', run[o].pkg, run[o].at + 1)
  BY <1>4, <1>7, <1>8, <1>9 DEF Made
<1>11. EvmGrows(evm, evm') /\ PeersOk(sui', evm') /\ env' \in Envs /\ EnvOk(sui', evm', env')
  BY <1>1, <1>3, <1>7, SuiMoved DEF LaneInv
<1> QED BY <1>2, <1>3, <1>4, <1>7, <1>10, <1>11, Advanced DEF EvmDeploys

LEMMA WireNewStep ==
    ASSUME LaneInv, NEW o \in Operators, suiSetPeer(o) \/ setRelayer(o) \/ suiUpdateEnv(o)
    PROVE  LaneInv'
<1>1. run[o] \in Runs /\ RunOk(sui, evm, run[o]) /\ sui \in Seq(Packages) /\ EnvOk(sui, evm, env)
  BY DEF LaneInv
<1>2. run[o].at \in 8 .. 10 /\ run[o].script = "deploySui" /\ Advance(o)
  BY <1>1, SuiPlaces DEF Runs, suiSetPeer, setRelayer, suiUpdateEnv
<1>3. Made(sui, run[o].pkg, run[o].at)
  BY <1>1, <1>2 DEF RunOk
<1>4. Sound(sui, run[o].pkg)
  BY <1>2, <1>3, SettingNames DEF Made, Sound, Place
<1>5. SuiGrows(sui, sui') /\ evm' = evm /\ plan' = plan
  <2>1. run[o].seen \in Envs
    BY <1>1 DEF Runs
  <2>2. run[o].seen.evm \in Nat /\ "relayer" \in Keys
    BY <2>1 DEF Envs, Keys
  <2>3. CASE suiSetPeer(o) \/ setRelayer(o)
    <3>1. \/ sui' = sui
          \/ \E x \in Nat : sui' = [sui EXCEPT ![run[o].pkg].peer = x]
          \/ \E k \in Keys : sui' = [sui EXCEPT ![run[o].pkg].relayer = k]
      BY <2>2, <2>3 DEF suiSetPeer, setRelayer
    <3> QED BY <1>1, <2>3, <3>1, SetOther DEF suiSetPeer, setRelayer, control
  <2>4. CASE suiUpdateEnv(o)
    BY <1>1, <2>4, Same DEF suiUpdateEnv, chains, control
  <2> QED BY <2>3, <2>4
<1>6. Sound(sui', run[o].pkg) /\ EnvOk(sui', evm, env)
  BY <1>1, <1>4, <1>5, Kept, SuiMoved
<1>7. Made(sui', run[o].pkg, run[o].at + 1)
  BY <1>6 DEF Made, Sound
<1>8. env' \in Envs /\ EnvOk(sui', evm, env')
  <2>1. CASE env' = env
    BY <1>6, <2>1 DEF LaneInv
  <2>2. CASE suiUpdateEnv(o)
    <3> DEFINE chan == IF run[o].chan # 0 THEN run[o].chan ELSE env.chan
    <3>1. env \in Envs /\ run[o].pkg \in Nat /\ chan \in Nat
      BY <1>1 DEF LaneInv, Runs, Envs
    <3>2. env' = [env EXCEPT !.pkg = run[o].pkg, !.chan = chan]
      BY <2>2, <3>1 DEF suiUpdateEnv, Envs
    <3> HIDE DEF chan
    <3>3. env' \in Envs /\ env'.pkg = run[o].pkg /\ env'.evm = env.evm /\ env'.escrow = env.escrow
      BY <3>1, <3>2 DEF Envs
    <3> QED BY <1>6, <3>3 DEF EnvOk
  <2> QED BY <2>1, <2>2 DEF suiSetPeer, setRelayer
<1>9. EvmGrows(evm, evm') /\ PeersOk(sui', evm') /\ env' \in Envs /\ EnvOk(sui', evm', env')
  BY <1>5, <1>8, SuiMoved
<1> QED BY <1>2, <1>5, <1>7, <1>9, Advanced DEF EvmDeploys

-----------------------------------------------------------------------------
(* deploy-evm.ts and deploy-evm-escrow.ts                                  *)

LEMMA DeployStep ==
    ASSUME LaneInv, NEW o \in Operators, deployAdapter(o)
    PROVE  LaneInv'
<1> DEFINE r == [run[o] EXCEPT !.at = @ + 1, !.adapter = Len(evm) + 1]
<1>1. run[o] \in Runs /\ RunOk(sui, evm, run[o]) /\ evm \in Seq(Adapters) /\ EnvOk(sui, evm, env)
  BY DEF LaneInv
<1>2. PICK s \in EvmDeploys : At(o, s, "deploy")
  BY DEF deployAdapter
<1>3. /\ evm' = Append(evm, FreshAdapter)
      /\ run' = [run EXCEPT ![o].at = @ + 1, ![o].adapter = Len(evm) + 1]
      /\ sui' = sui /\ env' = env /\ plan' = plan
  BY DEF deployAdapter, control
<1>4. run[o].at = 1 /\ run[o].script = s
  BY <1>1, <1>2, EvmPlaces DEF Runs
<1>5. /\ evm' \in Seq(Adapters) /\ DOMAIN evm' = 1 .. (Len(evm) + 1) /\ DOMAIN evm = 1 .. Len(evm)
      /\ Len(evm) \in Nat /\ evm'[Len(evm) + 1] = FreshAdapter
      /\ \A a \in DOMAIN evm : evm'[a] = evm[a]
  BY <1>1, <1>3, SettingNames
<1>6. EvmGrows(evm, evm') /\ Len(evm) + 1 \in DOMAIN evm'
  BY <1>5 DEF EvmGrows
<1>7. PeersOk(sui', evm')
  <2>1. FreshAdapter.peer = 0
    BY DEF FreshAdapter
  <2>2. \A a \in DOMAIN evm' : a \in DOMAIN evm \/ a = Len(evm) + 1
    BY <1>5
  <2> QED BY <1>3, <1>5, <2>1, <2>2 DEF LaneInv, PeersOk
<1>8. /\ r \in Runs /\ r.at = 2 /\ r.seen = run[o].seen /\ r.script = s
      /\ r.adapter = Len(evm) + 1
  <2>1. PICK k \in Nat : k = Len(evm) + 1
    BY <1>5
  <2>2. PICK n \in Nat \ {0} : n = run[o].at + 1 /\ n = 2
    BY <1>4
  <2>3. r = [run[o] EXCEPT !.at = n, !.adapter = k]
    BY <2>1, <2>2
  <2>4. r \in Runs
    BY <1>1, <2>3 DEF Runs
  <2>5. r.at = n /\ r.seen = run[o].seen /\ r.script = run[o].script /\ r.adapter = k
    BY <1>1, <2>3 DEF Runs
  <2> QED BY <1>4, <2>1, <2>2, <2>4, <2>5
<1>9. run' = [run EXCEPT ![o] = r]
  BY <1>3 DEF LaneInv
<1> HIDE DEF r
<1>10. EnvOk(sui, evm', r.seen) /\ EnvOk(sui, evm', env) /\ SuiGrows(sui, sui')
  BY <1>1, <1>3, <1>6, <1>8, EvmMoved DEF RunOk
<1>11. RunOk(sui', evm', r)
  BY <1>3, <1>6, <1>8, <1>10 DEF RunOk, EvmDeploys
<1>12. env' \in Envs
  BY <1>3 DEF LaneInv
<1> QED BY <1>3, <1>6, <1>7, <1>8, <1>9, <1>10, <1>11, <1>12, Carries

\* A script sets something on an adapter: the peer it sets is 0, or one that is configured.
LEMMA EvmSetStep ==
    ASSUME LaneInv, NEW o \in Operators, Advance(o), sui' = sui, env' = env, plan' = plan,
           run[o].script # "deploySui", run[o].script \in EvmDeploys => run[o].at >= 2,
           NEW a,
           \/ evm' = [evm EXCEPT ![a].peer = run[o].seen.pkg]
           \/ \E x \in BOOLEAN : evm' = [evm EXCEPT ![a].permit2 = x]
           \/ \E x \in Values : evm' = [evm EXCEPT ![a].recv = x]
           \/ \E x \in Values : evm' = [evm EXCEPT ![a].send = x]
    PROVE  LaneInv'
<1>1. run[o] \in Runs /\ RunOk(sui, evm, run[o]) /\ evm \in Seq(Adapters) /\ EnvOk(sui, evm, env)
  BY DEF LaneInv
<1>2. run[o].seen.pkg \in Nat /\ EnvOk(sui, evm, run[o].seen)
  <2>1. run[o].seen \in Envs
    BY <1>1 DEF Runs
  <2> QED BY <1>1, <2>1 DEF Envs, RunOk
<1>3. /\ EvmGrows(evm, evm') /\ DOMAIN evm' = DOMAIN evm
      /\ \A y \in DOMAIN evm : evm'[y].peer \in {evm[y].peer, run[o].seen.pkg}
  <2>1. CASE evm' = [evm EXCEPT ![a].peer = run[o].seen.pkg]
    BY <1>1, <1>2, <2>1, SetEvmPeer
  <2>2. CASE evm' # [evm EXCEPT ![a].peer = run[o].seen.pkg]
    BY <1>1, <2>2, SetEvmConfig
  <2> QED BY <2>1, <2>2
<1>4. PeersOk(sui', evm')
  BY <1>2, <1>3 DEF LaneInv, PeersOk, EnvOk
<1>5. EnvOk(sui', evm', env') /\ SuiGrows(sui, sui') /\ env' \in Envs
  BY <1>1, <1>3, EvmMoved DEF LaneInv
<1>6. run[o].script \in EvmDeploys => run[o].adapter \in DOMAIN evm'
  BY <1>1, <1>3 DEF RunOk
<1> QED BY <1>3, <1>4, <1>5, <1>6, Advanced

LEMMA EvmDeploySteps ==
    ASSUME LaneInv, NEW o \in Operators,
           evmSetPeer(o) \/ setPermit2(o) \/ deployEvm(o) \/ deployEvmEscrow(o)
    PROVE  LaneInv'
<1>1. run[o] \in Runs /\ RunOk(sui, evm, run[o]) /\ sui \in Seq(Packages) /\ evm \in Seq(Adapters)
      /\ EnvOk(sui, evm, env) /\ run[o].at \in Nat \ {0} /\ env \in Envs
  BY DEF LaneInv, Runs
<1>2. run[o].script \in EvmDeploys /\ run[o].at >= 2 /\ Advance(o)
  BY <1>1, EvmPlaces DEF evmSetPeer, setPermit2, deployEvm, deployEvmEscrow, EvmDeploys
<1>3. sui' = sui /\ plan' = plan /\ run[o].script # "deploySui"
  BY <1>2 DEF evmSetPeer, setPermit2, deployEvm, deployEvmEscrow, chains, control, EvmDeploys
<1>4. CASE evmSetPeer(o)
  BY <1>2, <1>3, <1>4, EvmSetStep DEF evmSetPeer
<1>5. CASE setPermit2(o)
  BY <1>2, <1>3, <1>5, DeploymentAssumption, EvmSetStep DEF setPermit2
<1>6. ASSUME evm' = evm,
             \/ env' = [env EXCEPT !.evm = run[o].adapter]
             \/ env' = [env EXCEPT !.escrow = run[o].adapter]
      PROVE  LaneInv'
  <2>1. run[o].adapter \in Nat /\ run[o].adapter \in DOMAIN evm
    BY <1>1, <1>2 DEF Runs, RunOk
  <2>2. /\ env' \in Envs /\ env'.pkg = env.pkg
        /\ {env'.evm, env'.escrow} \subseteq {env.evm, env.escrow, run[o].adapter}
    BY <1>1, <1>6, <2>1 DEF Envs
  <2>3. EnvOk(sui, evm, env')
    BY <1>1, <2>1, <2>2 DEF EnvOk
  <2>4. SuiGrows(sui, sui') /\ EvmGrows(evm, evm') /\ PeersOk(sui', evm')
    BY <1>1, <1>3, <1>6, Same DEF LaneInv
  <2> QED BY <1>2, <1>3, <1>6, <2>1, <2>2, <2>3, <2>4, Advanced
<1>7. deployEvm(o) \/ deployEvmEscrow(o) =>
         /\ evm' = evm
         /\ \/ env' = [env EXCEPT !.evm = run[o].adapter]
            \/ env' = [env EXCEPT !.escrow = run[o].adapter]
  BY DEF deployEvm, deployEvmEscrow, chains
<1> QED BY <1>4, <1>5, <1>6, <1>7

-----------------------------------------------------------------------------
(* scripts/util, scripts/solana and the operator's edits.                  *)

\* The script an operator is running is not one that deploys.
LEMMA NoDeploy ==
    ASSUME NEW o, NEW s, NEW l, At(o, s, l), s \notin {"deploySui"} \union EvmDeploys
    PROVE  run[o].script = s /\ run[o].script # "deploySui" /\ run[o].script \notin EvmDeploys
  BY DEF At

\* It sets something on a package, and keeps what is configured.
LEMMA SuiSetStep ==
    ASSUME LaneInv, NEW o \in Operators, Advance(o), SuiGrows(sui, sui'),
           evm' = evm, env' = env, plan' = plan,
           run[o].script # "deploySui", run[o].script \notin EvmDeploys
    PROVE  LaneInv'
<1>1. EvmGrows(evm, evm') /\ PeersOk(sui', evm') /\ env' \in Envs /\ EnvOk(sui', evm', env')
  BY SuiMoved DEF LaneInv
<1> QED BY <1>1, Advanced

LEMMA Thrown ==
    ASSUME LaneInv, NEW o \in Operators, Throw(o) \/ Finish(o) \/ Die(o)
    PROVE  LaneInv'
<1>1. Exit(o) /\ sui' = sui /\ UNCHANGED <<evm, env, plan>>
  BY DEF Throw, Finish, Die, chains
<1>2. SuiGrows(sui, sui')
  BY <1>1, Same DEF LaneInv
<1> QED BY <1>1, <1>2, Exited

LEMMA WireSteps ==
    ASSUME LaneInv, NEW o \in Operators, wireEvm(o) \/ wireSui(o)
    PROVE  LaneInv'
<1>1. run[o].script # "deploySui" /\ run[o].script \notin EvmDeploys
  BY NoDeploy DEF wireEvm, wireSui, EvmDeploys
<1>2. CASE wireEvm(o)
  BY <1>1, <1>2, EvmSetStep DEF wireEvm, control
<1>3. CASE wireSui(o)
  <2>1. CASE Throw(o)
    BY <2>1, Thrown
  <2>2. CASE run[o].seen.chan = run[o].seen.pkg
    <3>1. sui \in Seq(Packages) /\ run[o].seen.evm \in Nat
      <4>1. run[o] \in Runs
        BY DEF LaneInv
      <4>2. run[o].seen \in Envs
        BY <4>1 DEF Runs
      <4> QED BY <4>2 DEF Envs, LaneInv
    <3>2. \E x \in Nat : sui' = [sui EXCEPT ![run[o].seen.pkg].peer = x]
      BY <1>3, <2>2, <3>1 DEF wireSui
    <3>3. SuiGrows(sui, sui')
      BY <3>1, <3>2, SetOther
    <3> QED BY <1>1, <1>3, <2>2, <3>3, SuiSetStep DEF wireSui, control
  <2> QED BY <1>3, <2>1, <2>2 DEF wireSui
<1> QED BY <1>2, <1>3

LEMMA DvnSteps ==
    ASSUME LaneInv, NEW o \in Operators, updateEvmDvn(o) \/ updateSuiDvn(o)
    PROVE  LaneInv'
<1>1. run[o].script # "deploySui" /\ run[o].script \notin EvmDeploys
  BY NoDeploy DEF updateEvmDvn, updateSuiDvn, EvmDeploys
<1>2. "labs" \in Values \ {"none"} /\ "recvUln" \in Settings
  BY SettingNames DEF Values
<1>3. CASE updateEvmDvn(o)
  <2>1. PICK side \in {"send", "recv"} : evm' = [evm EXCEPT ![run[o].seen.evm][side] = "labs"]
    BY <1>3 DEF updateEvmDvn
  <2>2. \/ \E x \in Values : evm' = [evm EXCEPT ![run[o].seen.evm].recv = x]
        \/ \E x \in Values : evm' = [evm EXCEPT ![run[o].seen.evm].send = x]
    <3>1. CASE side = "send"
      BY <1>2, <2>1, <3>1
    <3>2. CASE side = "recv"
      BY <1>2, <2>1, <3>2
    <3> QED BY <3>1, <3>2
  <2>3. Advance(o) /\ sui' = sui /\ env' = env /\ plan' = plan
    BY <1>3 DEF updateEvmDvn, control
  <2> QED BY <1>1, <2>2, <2>3, EvmSetStep
<1>4. CASE updateSuiDvn(o)
  <2>1. sui' = WithCfg(sui, run[o].seen.pkg, "recvUln", "labs") /\ Exit(o) /\ UNCHANGED <<evm, env, plan>>
    BY <1>4, Zenon DEF updateSuiDvn, WithCfg
  <2>2. sui \in Seq(Packages)
    BY DEF LaneInv
  <2>3. SuiGrows(sui, sui')
    BY <1>2, <2>1, <2>2, SetCfg
  <2> QED BY <2>1, <2>3, Exited
<1> QED BY <1>3, <1>4

LEMMA MirrorStep ==
    ASSUME LaneInv, NEW o \in Operators, setEvmReceiveUln(o)
    PROVE  LaneInv'
<1>1. /\ run[o].script = "setEvmReceiveUln"
      /\ run[o].script # "deploySui" /\ run[o].script \notin EvmDeploys
  BY NoDeploy DEF setEvmReceiveUln, EvmDeploys
<1>2. CASE Throw(o)
  BY <1>2, Thrown
<1>3. CASE ~ Throw(o)
  <2>0. /\ \E apply \in BOOLEAN :
              evm' = IF apply THEN [evm EXCEPT ![run[o].seen.escrow].recv = evm[run[o].seen.evm].recv]
                              ELSE evm
        /\ Advance(o) /\ sui' = sui /\ env' = env /\ plan' = plan
    BY <1>3 DEF setEvmReceiveUln, control
  <2>1. evm[run[o].seen.evm].recv \in Values /\ sui \in Seq(Packages)
    <3>1. run[o].seen.evm \in DOMAIN evm /\ evm \in Seq(Adapters)
      BY <1>1 DEF LaneInv, RunOk, EnvOk
    <3>2. evm[run[o].seen.evm] \in Adapters
      BY <3>1
    <3> QED BY <3>2 DEF Adapters, LaneInv
  <2>2. CASE evm' = evm
    BY <1>1, <2>0, <2>1, <2>2, Same, SuiSetStep
  <2>3. CASE evm' # evm
    <3>1. \E x \in Values : evm' = [evm EXCEPT ![run[o].seen.escrow].recv = x]
      BY <2>0, <2>1, <2>3
    <3> QED BY <1>1, <2>0, <3>1, EvmSetStep
  <2> QED BY <2>2, <2>3
<1> QED BY <1>2, <1>3

LEMMA SuiUtilSteps ==
    ASSUME LaneInv, NEW o \in Operators, setExecutorConfig(o) \/ setLzRelayer(o)
    PROVE  LaneInv'
<1>1. run[o].script # "deploySui" /\ run[o].script \notin EvmDeploys
  BY NoDeploy DEF setExecutorConfig, setLzRelayer, EvmDeploys
<1>2. run[o].seen \in Envs /\ sui \in Seq(Packages) /\ EnvOk(sui, evm, run[o].seen)
  <2>1. run[o] \in Runs /\ RunOk(sui, evm, run[o])
    BY DEF LaneInv
  <2> QED BY <2>1 DEF Runs, RunOk, LaneInv
<1>3. SuiGrows(sui, sui')
  <2>1. CASE setExecutorConfig(o)
    <3>1. PICK value \in {sui[run[o].seen.pkg].cfg["executor"], "default", "dvn"} :
             sui' = WithCfg(sui, run[o].seen.pkg, "executor", value)
      BY <2>1, Zenon DEF setExecutorConfig, WithCfg
    <3>2. "executor" \in Settings /\ {"default", "dvn"} \subseteq Values \ {"none"}
      BY SettingNames DEF Values
    <3>3. run[o].seen.pkg \in DOMAIN sui => sui[run[o].seen.pkg].cfg["executor"] \in Values \ {"none"}
      <4> SUFFICES ASSUME run[o].seen.pkg \in DOMAIN sui
                   PROVE  sui[run[o].seen.pkg].cfg["executor"] \in Values \ {"none"}
        OBVIOUS
      <4>1. sui[run[o].seen.pkg] \in Packages /\ run[o].seen.pkg # 0
        BY <1>2
      <4>2. sui[run[o].seen.pkg].cfg \in [Settings -> Values]
        BY <4>1 DEF Packages
      <4>3. sui[run[o].seen.pkg].cfg["executor"] # "none"
        BY <1>2, <3>2, <4>1 DEF EnvOk, Sound
      <4> QED BY <3>2, <4>2, <4>3
    <3>4. run[o].seen.pkg \in DOMAIN sui => value \in Values \ {"none"}
      BY <3>2, <3>3
    <3> QED BY <1>2, <3>1, <3>2, <3>4, SetCfg
  <2>2. CASE setLzRelayer(o)
    <3>1. \E k \in Keys : sui' = [sui EXCEPT ![run[o].seen.pkg].relayer = k]
      BY <1>2, <2>2 DEF setLzRelayer, Envs
    <3> QED BY <1>2, <3>1, SetOther
  <2> QED BY <2>1, <2>2
<1> QED BY <1>1, <1>3, SuiSetStep DEF setExecutorConfig, setLzRelayer, control

LEMMA SolanaSteps ==
    ASSUME LaneInv, NEW o \in Operators,
           initStore(o) \/ setLibraries(o) \/ setReceiveDvn(o) \/ setSolanaPeer(o)
    PROVE  LaneInv'
<1>1. run[o].script # "deploySui" /\ run[o].script \notin EvmDeploys
  BY NoDeploy DEF initStore, setLibraries, setReceiveDvn, setSolanaPeer, EvmDeploys
<1>2. Throw(o) \/ (Advance(o) /\ sui' = sui /\ evm' = evm /\ env' = env /\ plan' = plan)
  BY DEF initStore, setLibraries, setReceiveDvn, setSolanaPeer, send, control
<1>3. SuiGrows(sui, sui)
  BY Same DEF LaneInv
<1> QED BY <1>1, <1>2, <1>3, Thrown, SuiSetStep

LEMMA EditSteps ==
    ASSUME LaneInv, (\E o \in Operators : editEnv(o)) \/ heedRefusal
    PROVE  LaneInv'
<1>1. env \in Envs /\ EnvOk(sui, evm, env) /\ sui \in Seq(Packages) /\ evm \in Seq(Adapters)
  BY DEF LaneInv
<1>2. ASSUME NEW o \in Operators, editEnv(o)
      PROVE  LaneInv'
  <2> DEFINE a == IF plan \in Redeployments THEN env.escrow ELSE env.evm
             k == IF env.key = "none" THEN "relayer" ELSE env.key
  <2>1. env' = [env EXCEPT !.evm = a, !.chan = env.pkg, !.receiver = env.pkg, !.key = k]
    BY <1>1, <1>2 DEF editEnv, Envs
  <2>2. a \in {env.evm, env.escrow} /\ a \in Nat /\ k \in Keys
    BY <1>1 DEF Envs, Keys
  <2> HIDE DEF a, k
  <2>3. env' \in Envs /\ env'.pkg = env.pkg /\ env'.evm = a /\ env'.escrow = env.escrow
    BY <1>1, <2>1, <2>2 DEF Envs
  <2>4. EnvOk(sui, evm, env')
    BY <1>1, <2>2, <2>3 DEF EnvOk
  <2>5. sui' = sui /\ evm' = evm /\ plan' = plan /\ Advance(o)
    BY <1>2 DEF editEnv, chains, control
  <2>6. run[o].script # "deploySui" /\ run[o].script \notin EvmDeploys
    BY <1>2, NoDeploy DEF editEnv, EvmDeploys
  <2>7. SuiGrows(sui, sui') /\ EvmGrows(evm, evm') /\ PeersOk(sui', evm')
    BY <1>1, <2>5, Same DEF LaneInv
  <2> QED BY <2>3, <2>4, <2>5, <2>6, <2>7, Advanced
<1>3. ASSUME heedRefusal
      PROVE  LaneInv'
  <2>1. PICK a \in DOMAIN evm : env' = [env EXCEPT !.evm = a]
    BY <1>3 DEF heedRefusal
  <2>2. a \in Nat
    BY <1>1
  <2>3. env' \in Envs /\ env'.pkg = env.pkg /\ env'.evm = a /\ env'.escrow = env.escrow
    BY <1>1, <2>1, <2>2 DEF Envs
  <2>4. EnvOk(sui, evm, env')
    BY <1>1, <2>1, <2>3 DEF EnvOk
  <2>5. sui' = sui /\ evm' = evm /\ plan' = plan /\ run' = run
    BY <1>3 DEF heedRefusal, chains, control
  <2> QED BY <2>3, <2>4, <2>5 DEF LaneInv
<1> QED BY <1>2, <1>3

-----------------------------------------------------------------------------
LEMMA InitLane == Init => LaneInv
<1> SUFFICES ASSUME Init PROVE LaneInv
  OBVIOUS
<1>1. plan \in Plans /\ run = [o \in Operators |-> NoRun]
  BY DEF Init
<1>2. CASE plan = "first"
  <2>1. sui = << >> /\ evm = << >> /\ \E key \in Keys : env = [NoEnv EXCEPT !.key = key]
    BY <1>2 DEF Init, Keys
  <2>2. env \in Envs /\ env.pkg = 0 /\ env.evm = 0 /\ env.escrow = 0
    BY <2>1, NoRunOk DEF NoEnv, Envs
  <2>3. sui \in Seq(Packages) /\ evm \in Seq(Adapters) /\ PeersOk(sui, evm)
    BY <2>1 DEF PeersOk
  <2>4. EnvOk(sui, evm, env)
    BY <2>2 DEF EnvOk
  <2> QED BY <1>1, <2>2, <2>3, <2>4, NoRunOk DEF LaneInv
<1>3. CASE plan # "first"
  <2>1. /\ sui = <<LivePackage>> /\ evm = <<LiveAdapter>>
        /\ env = [NoEnv EXCEPT !.pkg = 1, !.chan = 1, !.evm = 1, !.key = "relayer"]
    BY <1>3 DEF Init
  <2>2. env \in Envs /\ env.pkg = 1 /\ env.evm = 1 /\ env.escrow = 0
    BY <2>1, NoRunOk DEF NoEnv, Envs, Keys
  <2>3. /\ sui \in Seq(Packages) /\ evm \in Seq(Adapters)
        /\ DOMAIN sui = {1} /\ sui[1] = LivePackage /\ DOMAIN evm = {1} /\ evm[1] = LiveAdapter
    BY <2>1, SettingNames
  <2>4. Sound(sui, 1)
    <3>1. LivePackage.channel /\ \A s \in Settings : LivePackage.cfg[s] # "none"
      BY DEF LivePackage
    <3> QED BY <2>3, <3>1 DEF Sound
  <2>5. PeersOk(sui, evm)
    <3>1. LiveAdapter.peer = 1
      BY DEF LiveAdapter
    <3> QED BY <2>3, <2>4, <3>1 DEF PeersOk
  <2>6. EnvOk(sui, evm, env)
    BY <2>2, <2>3, <2>4 DEF EnvOk
  <2> QED BY <1>1, <2>2, <2>3, <2>5, <2>6, NoRunOk DEF LaneInv
<1> QED BY <1>2, <1>3

LEMMA StartSteps ==
    ASSUME LaneInv, StartNext \/ StartUnplanned
    PROVE  LaneInv'
<1>1. CASE StartNext
  <2>1. Plan[plan][step] \in Scripts
    BY <1>1, ScriptNames DEF StartNext, LaneInv
  <2> QED BY <1>1, <2>1, Launched, OperatorNames DEF StartNext, control
<1>2. CASE StartUnplanned
  <2>1. PICK s \in Scripts : Launch(Other, s)
    BY <1>2, DeploymentAssumption DEF StartUnplanned
  <2> QED BY <1>2, <2>1, Launched, OperatorNames DEF StartUnplanned
<1> QED BY <1>1, <1>2

LEMMA LaneStep == LaneInv /\ [Next]_vars => LaneInv'
<1> SUFFICES ASSUME LaneInv, [Next]_vars PROVE LaneInv'
  OBVIOUS
<1>1. CASE StartNext \/ StartUnplanned
  BY <1>1, StartSteps
<1>2. ASSUME NEW o \in Operators, Step(o) \/ Die(o)
      PROVE  LaneInv'
  BY <1>2, PublishStep, RegisterStep, ConfigureStep, WireNewStep, DeployStep, EvmDeploySteps,
     WireSteps, DvnSteps, MirrorStep, SuiUtilSteps, SolanaSteps, EditSteps, Thrown DEF Step
<1>3. CASE heedRefusal
  BY <1>3, EditSteps
<1>4. CASE UNCHANGED vars
  BY <1>4 DEF vars, chains, LaneInv
<1> QED BY <1>1, <1>2, <1>3, <1>4 DEF Next

\* deploy-sui.ts, deploy-evm.ts and deploy-evm-escrow.ts save an id only when what it names is
\* made: whatever dies and whoever else is deploying, the env file names configured packages
\* and adapters that exist, whose peer is a configured package.
THEOREM EnvNamesWholeDeployments == Spec => []EnvIsComplete
<1>1. LaneInv => EnvIsComplete
  <2> SUFFICES ASSUME LaneInv PROVE EnvIsComplete
    OBVIOUS
  <2>1. \A p : Sound(sui, p) => Configured(p)
    BY DEF Sound, Configured
  <2> QED BY <2>1 DEF LaneInv, EnvOk, PeersOk, EnvIsComplete
<1>2. Init => LaneInv
  BY InitLane
<1>3. LaneInv /\ [Next]_vars => LaneInv'
  BY LaneStep
<1> QED BY <1>1, <1>2, <1>3, PTL DEF Spec

-----------------------------------------------------------------------------
(* What a deploy script is making.                                         *)

Publishes(r) == r.script = "deploySui" /\ r.at \in 2 .. 10
Builds(r) == \/ r.script = "deployEvm" /\ r.at \in 2 .. 3
             \/ r.script = "deployEvmEscrow" /\ r.at \in 2 .. 4

\* Until its id is saved, a new package or adapter is known to the script that made it alone:
\* not to the env file, to a script that read the env file, or to the other operator's; and
\* nobody has set the adapter's receive side, so no operator takes it for one in use.
BuildInv ==
    \A o \in Operators :
       /\ Publishes(run[o]) =>
             /\ run[o].pkg # env.pkg
             /\ \A x \in Operators \ {o} : Publishes(run[x]) => run[x].pkg # run[o].pkg
       /\ Builds(run[o]) =>
             /\ evm[run[o].adapter].recv = "none"
             /\ run[o].adapter \notin {env.evm, env.escrow}
             /\ \A x \in Operators : run[o].adapter \notin {run[x].seen.evm, run[x].seen.escrow}
             /\ \A x \in Operators \ {o} : Builds(run[x]) => run[x].adapter # run[o].adapter

\* Operator o's script moves on to r: what it is making is the same, or new.
Turns(o, r) ==
    /\ r \in Runs /\ run' = [run EXCEPT ![o] = r]
    /\ r.seen \in {run[o].seen, env, NoEnv}
    /\ Publishes(r) => \/ Publishes(run[o]) /\ r.pkg = run[o].pkg
                       \/ r.pkg \notin DOMAIN sui \union {0}
    /\ Builds(r) => \/ Builds(run[o]) /\ r.adapter = run[o].adapter
                    \/ r.adapter \notin DOMAIN evm \union {0} /\ evm'[r.adapter].recv = "none"

\* The env file is given an id when it is made.
Saves(o, r) ==
    /\ env'.pkg = env.pkg \/ (Publishes(run[o]) /\ ~ Publishes(r) /\ env'.pkg = run[o].pkg)
    /\ {env'.evm, env'.escrow} \subseteq
          {env.evm, env.escrow} \union
          (IF Builds(run[o]) /\ ~ Builds(r) THEN {run[o].adapter} ELSE {})

\* A deploy script touches what it makes, other scripts what the env file named.
Touches(o) ==
    /\ \A a \in DOMAIN evm \ {run[o].seen.evm, run[o].seen.escrow} : evm'[a].recv = evm[a].recv
    /\ run[o].script \in {"deploySui"} \union EvmDeploys =>
          /\ \A p \in DOMAIN sui : sui'[p] = sui[p] \/ (Publishes(run[o]) /\ p = run[o].pkg)
          /\ \A a \in DOMAIN evm : evm'[a] = evm[a] \/ (Builds(run[o]) /\ a = run[o].adapter)

Moves(o) == \E r : Turns(o, r) /\ Saves(o, r) /\ Touches(o)

\* What is being made exists.
LEMMA BuildsExist ==
    ASSUME LaneInv, NEW o \in Operators
    PROVE  /\ Publishes(run[o]) => run[o].pkg \in DOMAIN sui
           /\ Builds(run[o]) => run[o].adapter \in DOMAIN evm
           /\ run[o] \in Runs /\ run[o].seen \in Envs /\ run[o].at \in Nat \ {0}
           /\ 0 \notin DOMAIN sui /\ 0 \notin DOMAIN evm
           /\ env.pkg \in DOMAIN sui \union {0}
           /\ {env.evm, env.escrow} \subseteq DOMAIN evm \union {0}
           /\ {run[o].seen.evm, run[o].seen.escrow} \subseteq DOMAIN evm \union {0}
<1>1. RunOk(sui, evm, run[o]) /\ EnvOk(sui, evm, env) /\ run[o] \in Runs
  BY DEF LaneInv
<1>2. 0 \notin DOMAIN sui /\ 0 \notin DOMAIN evm
  BY DEF LaneInv
<1>3. run[o].seen \in Envs /\ run[o].at \in Nat \ {0}
  BY <1>1 DEF Runs
<1>4. Publishes(run[o]) => run[o].pkg \in DOMAIN sui
  BY <1>1 DEF Publishes, RunOk, Made
<1>5. Builds(run[o]) => run[o].adapter \in DOMAIN evm
  BY <1>1 DEF Builds, RunOk, EvmDeploys
<1> QED BY <1>1, <1>2, <1>3, <1>4, <1>5 DEF EnvOk, RunOk, Sound

LEMMA MovesKeep ==
    ASSUME LaneInv, BuildInv, NEW o \in Operators, Moves(o)
    PROVE  BuildInv'
<1>1. PICK r : Turns(o, r) /\ Saves(o, r) /\ Touches(o)
  BY DEF Moves
<1>2. run'[o] = r /\ \A x \in Operators \ {o} : run'[x] = run[x]
  BY <1>1 DEF Turns, LaneInv
<1>3. NoEnv.evm = 0 /\ NoEnv.escrow = 0
  BY DEF NoEnv
<1>4. \A x \in Operators : Publishes(run'[x]) =>
         \/ Publishes(run[x]) /\ run'[x].pkg = run[x].pkg
         \/ x = o /\ run'[x].pkg \notin DOMAIN sui \union {0}
  BY <1>1, <1>2 DEF Turns
<1>5. \A x \in Operators : Builds(run'[x]) =>
         \/ Builds(run[x]) /\ run'[x].adapter = run[x].adapter
         \/ x = o /\ run'[x].adapter \notin DOMAIN evm \union {0} /\ evm'[run'[x].adapter].recv = "none"
  BY <1>1, <1>2 DEF Turns
<1>6. \A x \in Operators : run'[x].seen \in {run[x].seen, env, NoEnv}
  BY <1>1, <1>2 DEF Turns
<1>7. ASSUME NEW y \in Operators, Publishes(run'[y])
      PROVE  /\ run'[y].pkg # env'.pkg
             /\ \A x \in Operators \ {y} : Publishes(run'[x]) => run'[x].pkg # run'[y].pkg
  <2>1. CASE Publishes(run[y]) /\ run'[y].pkg = run[y].pkg
    <3>1. run'[y].pkg # env'.pkg
      BY <1>1, <1>2, <1>7, <2>1 DEF Saves, BuildInv
    <3>2. \A x \in Operators \ {y} : Publishes(run'[x]) => run'[x].pkg # run'[y].pkg
      BY <1>4, <2>1, BuildsExist DEF BuildInv
    <3> QED BY <3>1, <3>2
  <2>2. CASE y = o /\ run'[y].pkg \notin DOMAIN sui \union {0}
    <3>1. run'[y].pkg # env'.pkg
      BY <1>1, <2>2, BuildsExist DEF Saves
    <3>2. \A x \in Operators \ {y} : Publishes(run'[x]) => run'[x].pkg # run'[y].pkg
      BY <1>4, <2>2, BuildsExist
    <3> QED BY <3>1, <3>2
  <2> QED BY <1>4, <1>7, <2>1, <2>2
<1>8. ASSUME NEW y \in Operators, Builds(run'[y])
      PROVE  /\ evm'[run'[y].adapter].recv = "none"
             /\ run'[y].adapter \notin {env'.evm, env'.escrow}
             /\ \A x \in Operators : run'[y].adapter \notin {run'[x].seen.evm, run'[x].seen.escrow}
             /\ \A x \in Operators \ {y} : Builds(run'[x]) => run'[x].adapter # run'[y].adapter
  <2>1. CASE Builds(run[y]) /\ run'[y].adapter = run[y].adapter
    <3>0. PICK a \in DOMAIN evm : a = run[y].adapter
      BY <2>1, BuildsExist
    <3>1. /\ evm[a].recv = "none" /\ a \notin {env.evm, env.escrow} /\ a # 0
          /\ \A x \in Operators : a \notin {run[x].seen.evm, run[x].seen.escrow}
          /\ \A x \in Operators \ {y} : Builds(run[x]) => run[x].adapter # a
      BY <2>1, <3>0, BuildsExist DEF BuildInv
    <3>2. evm'[a].recv = "none"
      BY <1>1, <3>1 DEF Touches
    <3>3. a \notin {env'.evm, env'.escrow}
      <4>1. CASE y = o
        BY <1>1, <1>2, <1>8, <3>1, <4>1 DEF Saves
      <4>2. CASE y # o
        BY <1>1, <3>1, <4>2 DEF Saves
      <4> QED BY <4>1, <4>2
    <3>4. \A x \in Operators : a \notin {run'[x].seen.evm, run'[x].seen.escrow}
      BY <1>3, <1>6, <3>1
    <3>5. \A x \in Operators \ {y} : Builds(run'[x]) => run'[x].adapter # a
      BY <1>5, <3>1
    <3> QED BY <2>1, <3>0, <3>2, <3>3, <3>4, <3>5
  <2>2. CASE y = o /\ run'[y].adapter \notin DOMAIN evm \union {0} /\ evm'[run'[y].adapter].recv = "none"
    <3>1. {env'.evm, env'.escrow} \subseteq DOMAIN evm \union {0}
      BY <1>1, BuildsExist DEF Saves
    <3>2. \A x \in Operators : {run'[x].seen.evm, run'[x].seen.escrow} \subseteq DOMAIN evm \union {0}
      BY <1>3, <1>6, BuildsExist
    <3>3. \A x \in Operators \ {y} : Builds(run'[x]) => run'[x].adapter \in DOMAIN evm
      BY <1>5, <2>2, BuildsExist
    <3> QED BY <2>2, <3>1, <3>2, <3>3
  <2> QED BY <1>5, <1>8, <2>1, <2>2
<1> QED BY <1>7, <1>8 DEF BuildInv

-----------------------------------------------------------------------------
(* Every step of an operator is such a move.                               *)

LEMMA AdvanceTurns ==
    ASSUME LaneInv, NEW o \in Operators, Advance(o),
           run[o].script \in {"deploySui"} \union EvmDeploys => run[o].at >= 2
    PROVE  \E r : /\ Turns(o, r) /\ r.at = run[o].at + 1 /\ r.script = run[o].script
<1> DEFINE r == [run[o] EXCEPT !.at = @ + 1]
<1>1. run[o] \in Runs /\ run[o].at \in Nat \ {0}
  BY DEF LaneInv, Runs
<1>2. /\ r \in Runs /\ r.at = run[o].at + 1 /\ r.seen = run[o].seen /\ r.script = run[o].script
      /\ r.pkg = run[o].pkg /\ r.adapter = run[o].adapter
  BY <1>1 DEF Runs
<1>3. run' = [run EXCEPT ![o] = r]
  BY DEF Advance, LaneInv
<1> HIDE DEF r
<1>4. (Publishes(r) => Publishes(run[o])) /\ (Builds(r) => Builds(run[o]))
  BY <1>1, <1>2 DEF Publishes, Builds, EvmDeploys
<1>5. Turns(o, r)
  BY <1>2, <1>3, <1>4 DEF Turns
<1> QED BY <1>2, <1>5

\* A script that ends, or starts, or that deploys nothing.
LEMMA IdleMoves ==
    ASSUME LaneInv, NEW o \in Operators,
           \/ Exit(o)
           \/ Advance(o) /\ run[o].script \notin {"deploySui"} \union EvmDeploys
           \/ \E s : Launch(o, s) /\ s \in Scripts,
           env'.pkg = env.pkg, {env'.evm, env'.escrow} \subseteq {env.evm, env.escrow}, Touches(o)
    PROVE  Moves(o)
<1>1. \A r : Saves(o, r)
  BY DEF Saves
<1>2. CASE Exit(o)
  <2>1. NoRun \in Runs /\ ~ Publishes(NoRun) /\ ~ Builds(NoRun) /\ NoRun.seen = NoEnv
    BY NoRunOk DEF Publishes, Builds, NoRun
  <2>2. Turns(o, NoRun)
    BY <1>2, <2>1 DEF Turns, Exit
  <2> QED BY <1>1, <2>2 DEF Moves
<1>3. CASE Advance(o) /\ run[o].script \notin {"deploySui"} \union EvmDeploys
  BY <1>1, <1>3, AdvanceTurns DEF Moves
<1>4. ASSUME NEW s \in Scripts, Launch(o, s)
      PROVE  Moves(o)
  <2> DEFINE r == [NoRun EXCEPT !.script = s, !.seen = env]
  <2>1. env \in Envs
    BY DEF LaneInv
  <2>2. r \in Runs /\ r.at = 1 /\ r.seen = env
    BY <2>1, NoRunOk DEF NoRun, Runs
  <2>3. run' = [run EXCEPT ![o] = r]
    BY <1>4 DEF Launch
  <2> HIDE DEF r
  <2>4. ~ Publishes(r) /\ ~ Builds(r)
    BY <2>2 DEF Publishes, Builds
  <2>5. Turns(o, r)
    BY <2>2, <2>3, <2>4 DEF Turns
  <2> QED BY <1>1, <2>5 DEF Moves
<1> QED BY <1>2, <1>3, <1>4

LEMMA UntouchedChains ==
    ASSUME NEW o, sui' = sui, evm' = evm
    PROVE  Touches(o)
  BY DEF Touches

LEMMA PublishMoves ==
    ASSUME LaneInv, NEW o \in Operators, publish(o)
    PROVE  Moves(o)
<1> DEFINE r == [run[o] EXCEPT !.at = @ + 1, !.pkg = Len(sui) + 1]
<1>1. run[o] \in Runs /\ sui \in Seq(Packages)
  BY DEF LaneInv
<1>2. /\ At(o, "deploySui", "publish") /\ sui' = Append(sui, FreshPackage)
      /\ run' = [run EXCEPT ![o].at = @ + 1, ![o].pkg = Len(sui) + 1]
      /\ evm' = evm /\ env' = env
  BY DEF publish
<1>3. run[o].at = 1 /\ run[o].script = "deploySui"
  BY <1>1, <1>2, SuiPlaces DEF Runs
<1>4. \A p \in DOMAIN sui : sui'[p] = sui[p]
  BY <1>1, <1>2, Published
<1>5. r \in Runs /\ r.seen = run[o].seen /\ r.script = "deploySui" /\ r.pkg = Len(sui) + 1
  <2>1. PICK k \in Nat : k = Len(sui) + 1
    BY <1>1
  <2>2. PICK n \in Nat \ {0} : n = run[o].at + 1
    BY <1>3
  <2>3. r = [run[o] EXCEPT !.at = n, !.pkg = k]
    BY <2>1, <2>2
  <2>4. r \in Runs
    BY <1>1, <2>3 DEF Runs
  <2>5. r.seen = run[o].seen /\ r.script = run[o].script /\ r.pkg = k
    BY <1>1, <2>3 DEF Runs
  <2> QED BY <1>3, <2>1, <2>4, <2>5
<1>6. run' = [run EXCEPT ![o] = r]
  BY <1>2 DEF LaneInv
<1> HIDE DEF r
<1>7. r.pkg \notin DOMAIN sui \union {0} /\ ~ Builds(r)
  BY <1>1, <1>5 DEF Builds
<1>8. Turns(o, r) /\ Saves(o, r)
  BY <1>2, <1>5, <1>6, <1>7 DEF Turns, Saves
<1>9. Touches(o)
  BY <1>2, <1>4 DEF Touches
<1> QED BY <1>8, <1>9 DEF Moves

LEMMA RegisterMoves ==
    ASSUME LaneInv, NEW o \in Operators, registerOApp(o)
    PROVE  Moves(o)
<1>1. run[o] \in Runs /\ sui \in Seq(Packages)
  BY DEF LaneInv
<1>2. PICK found \in findCreatedByType(run[o].pkg) :
         run' = [run EXCEPT ![o].at = @ + 1, ![o].chan = found]
  BY DEF registerOApp
<1>3. /\ At(o, "deploySui", "registerOApp") /\ sui' = [sui EXCEPT ![run[o].pkg].channel = TRUE]
      /\ evm' = evm /\ env' = env
  BY DEF registerOApp
<1>4. run[o].at = 2 /\ run[o].script = "deploySui"
  BY <1>1, <1>3, SuiPlaces DEF Runs
<1>5. \A p \in DOMAIN sui \ {run[o].pkg} : sui'[p] = sui[p]
  BY <1>1, <1>3, SetOther
<1> DEFINE r == [run[o] EXCEPT !.at = @ + 1, !.chan = found]
<1>6. r \in Runs /\ r.seen = run[o].seen /\ r.script = "deploySui" /\ r.pkg = run[o].pkg
  <2>1. found \in Nat
    BY <1>1 DEF findCreatedByType, Runs
  <2>2. PICK n \in Nat \ {0} : n = run[o].at + 1
    BY <1>4
  <2>3. r = [run[o] EXCEPT !.at = n, !.chan = found]
    BY <2>2
  <2>4. r \in Runs
    BY <1>1, <2>1, <2>3 DEF Runs
  <2>5. r.seen = run[o].seen /\ r.script = run[o].script /\ r.pkg = run[o].pkg
    BY <1>1, <2>3 DEF Runs
  <2> QED BY <1>4, <2>4, <2>5
<1>7. run' = [run EXCEPT ![o] = r]
  BY <1>2 DEF LaneInv
<1> HIDE DEF r
<1>8. Publishes(run[o]) /\ ~ Builds(r)
  BY <1>4, <1>6 DEF Publishes, Builds
<1>9. Turns(o, r) /\ Saves(o, r)
  BY <1>3, <1>6, <1>7, <1>8 DEF Turns, Saves
<1>10. Touches(o)
  BY <1>3, <1>5, <1>8 DEF Touches
<1> QED BY <1>9, <1>10 DEF Moves

\* The later steps of deploy-sui.ts.
LEMMA SuiDeployMoves ==
    ASSUME LaneInv, NEW o \in Operators,
           setLzLibraries(o) \/ setLzConfig(o) \/ suiSetPeer(o) \/ setRelayer(o) \/ suiUpdateEnv(o)
    PROVE  Moves(o)
<1>1. run[o] \in Runs /\ sui \in Seq(Packages) /\ env \in Envs /\ run[o].at \in Nat \ {0}
  BY DEF LaneInv, Runs
<1>2. \E l \in Settings \union {"setPeer", "setRelayer", "updateEnv"} : At(o, "deploySui", l)
  BY DEF setLzLibraries, setLzConfig, suiSetPeer, setRelayer, suiUpdateEnv, Settings
<1>3. run[o].script = "deploySui" /\ run[o].at \in 3 .. 10
  <2>1. \A s \in Settings : Place(s) \in 3 .. 7
    BY SettingNames DEF Place
  <2> QED BY <1>1, <1>2, <2>1, SuiPlaces
<1>4. Advance(o) /\ evm' = evm
  BY DEF setLzLibraries, setLzConfig, suiSetPeer, setRelayer, suiUpdateEnv, chains
<1>5. PICK r : Turns(o, r) /\ r.at = run[o].at + 1 /\ r.script = run[o].script
  BY <1>3, <1>4, AdvanceTurns
<1>6. Publishes(run[o])
  BY <1>3 DEF Publishes
<1>7. \A p \in DOMAIN sui \ {run[o].pkg} : sui'[p] = sui[p]
  <2>1. CASE setLzLibraries(o) \/ setLzConfig(o)
    <3>1. PICK s \in Settings, v \in Values \ {"none"} : sui' = WithCfg(sui, run[o].pkg, s, v)
      <4>1. "uln302" \in Values \ {"none"} /\ UlnConfig \in Values \ {"none"}
        BY DEF UlnConfig, Values
      <4>2. {"sendLib", "recvLib"} \subseteq Settings /\ UlnSettings \subseteq Settings
        BY DEF Settings
      <4>3. CASE setLzLibraries(o)
        BY <4>1, <4>2, <4>3, Zenon DEF setLzLibraries, WithCfg
      <4>4. CASE setLzConfig(o)
        BY <4>1, <4>2, <4>4, Zenon DEF setLzConfig, WithCfg
      <4> QED BY <2>1, <4>3, <4>4
    <3>2. \A x \in DOMAIN sui \ {run[o].pkg} : WithCfg(sui, run[o].pkg, s, v)[x] = sui[x]
      BY DEF WithCfg
    <3> QED BY <3>1, <3>2
  <2>2. CASE suiSetPeer(o) \/ setRelayer(o)
    <3>1. run[o].seen \in Envs
      BY <1>1 DEF Runs
    <3>2. run[o].seen.evm \in Nat /\ "relayer" \in Keys
      BY <3>1 DEF Envs, Keys
    <3>3. \/ sui' = sui
          \/ \E x \in Nat : sui' = [sui EXCEPT ![run[o].pkg].peer = x]
          \/ \E k \in Keys : sui' = [sui EXCEPT ![run[o].pkg].relayer = k]
      BY <2>2, <3>2 DEF suiSetPeer, setRelayer
    <3> QED BY <1>1, <3>3, SetOther
  <2>3. CASE suiUpdateEnv(o)
    BY <2>3 DEF suiUpdateEnv, chains
  <2> QED BY <2>1, <2>2, <2>3
<1>8. Touches(o)
  BY <1>4, <1>6, <1>7 DEF Touches
<1>9. Saves(o, r)
  <2>1. CASE suiUpdateEnv(o)
    <3>1. run[o].at = 10
      BY <1>1, <2>1, SuiPlaces DEF suiUpdateEnv
    <3>2. ~ Publishes(r)
      BY <1>5, <3>1 DEF Publishes
    <3>3. env'.pkg = run[o].pkg /\ env'.evm = env.evm /\ env'.escrow = env.escrow
      BY <1>1, <2>1 DEF suiUpdateEnv, Envs
    <3> QED BY <1>6, <3>2, <3>3 DEF Saves
  <2>2. CASE env' = env
    BY <2>2 DEF Saves
  <2> QED BY <2>1, <2>2 DEF setLzLibraries, setLzConfig, suiSetPeer, setRelayer
<1> QED BY <1>5, <1>8, <1>9 DEF Moves

\* deploy-evm.ts and deploy-evm-escrow.ts.
LEMMA AdapterMoves ==
    ASSUME LaneInv, NEW o \in Operators, deployAdapter(o)
    PROVE  Moves(o)
<1> DEFINE r == [run[o] EXCEPT !.at = @ + 1, !.adapter = Len(evm) + 1]
<1>1. run[o] \in Runs /\ evm \in Seq(Adapters)
  BY DEF LaneInv
<1>2. PICK s \in EvmDeploys : At(o, s, "deploy")
  BY DEF deployAdapter
<1>3. /\ evm' = Append(evm, FreshAdapter)
      /\ run' = [run EXCEPT ![o].at = @ + 1, ![o].adapter = Len(evm) + 1]
      /\ sui' = sui /\ env' = env
  BY DEF deployAdapter
<1>4. run[o].at = 1 /\ run[o].script = s
  BY <1>1, <1>2, EvmPlaces DEF Runs
<1>5. evm'[Len(evm) + 1] = FreshAdapter /\ \A a \in DOMAIN evm : evm'[a] = evm[a]
  BY <1>1, <1>3, SettingNames
<1>6. r \in Runs /\ r.seen = run[o].seen /\ r.script = s /\ r.adapter = Len(evm) + 1
  <2>1. PICK k \in Nat : k = Len(evm) + 1
    BY <1>1
  <2>2. PICK n \in Nat \ {0} : n = run[o].at + 1
    BY <1>4
  <2>3. r = [run[o] EXCEPT !.at = n, !.adapter = k]
    BY <2>1, <2>2
  <2>4. r \in Runs
    BY <1>1, <2>3 DEF Runs
  <2>5. r.seen = run[o].seen /\ r.script = run[o].script /\ r.adapter = k
    BY <1>1, <2>3 DEF Runs
  <2> QED BY <1>4, <2>1, <2>4, <2>5
<1>7. run' = [run EXCEPT ![o] = r]
  BY <1>3 DEF LaneInv
<1> HIDE DEF r
<1>8. r.adapter \notin DOMAIN evm \union {0} /\ ~ Publishes(r) /\ evm'[r.adapter].recv = "none"
  BY <1>1, <1>5, <1>6 DEF Publishes, EvmDeploys, FreshAdapter
<1>9. Turns(o, r) /\ Saves(o, r)
  BY <1>3, <1>6, <1>7, <1>8 DEF Turns, Saves
<1>10. Touches(o)
  BY <1>3, <1>5 DEF Touches
<1> QED BY <1>9, <1>10 DEF Moves

LEMMA EvmDeployMoves ==
    ASSUME LaneInv, NEW o \in Operators,
           evmSetPeer(o) \/ setPermit2(o) \/ deployEvm(o) \/ deployEvmEscrow(o)
    PROVE  Moves(o)
<1>1. run[o] \in Runs /\ evm \in Seq(Adapters) /\ env \in Envs /\ run[o].at \in Nat \ {0}
  BY DEF LaneInv, Runs
<1>2. PICK s \in EvmDeploys, l \in {"setPeer", "setPermit2", "updateEnv"} : At(o, s, l)
  BY DEF evmSetPeer, setPermit2, deployEvm, deployEvmEscrow, EvmDeploys
<1>3. run[o].script = s /\ run[o].at >= 2 /\ Builds(run[o])
  <2>1. run[o].script = s /\ run[o].at >= 2 /\ run[o].at \in 1 .. 4
    BY <1>1, <1>2, EvmPlaces
  <2>2. run[o].at <= Len(Steps[s])
    BY <1>2 DEF At
  <2>3. Len(Steps["deployEvm"]) = 3
    BY DEF Steps
  <2>4. CASE s = "deployEvm"
    <3>1. run[o].at <= 3
      BY <2>2, <2>3, <2>4
    <3> QED BY <2>1, <2>4, <3>1 DEF Builds
  <2>5. CASE s = "deployEvmEscrow"
    BY <2>1, <2>5 DEF Builds
  <2> QED BY <2>4, <2>5 DEF EvmDeploys
<1>4. Advance(o) /\ sui' = sui
  BY DEF evmSetPeer, setPermit2, deployEvm, deployEvmEscrow, chains
<1>5. PICK r : Turns(o, r) /\ r.at = run[o].at + 1 /\ r.script = run[o].script
  BY <1>3, <1>4, AdvanceTurns
<1>6. /\ \A a \in DOMAIN evm \ {run[o].adapter} : evm'[a] = evm[a]
      /\ \A a \in DOMAIN evm : evm'[a].recv = evm[a].recv
  <2>1. CASE evmSetPeer(o)
    <3>1. run[o].seen \in Envs
      BY <1>1 DEF Runs
    <3>2. run[o].seen.pkg \in Nat
      BY <3>1 DEF Envs
    <3> QED BY <1>1, <2>1, <3>2, SetEvmPeer DEF evmSetPeer
  <2>2. CASE setPermit2(o)
    BY <1>1, <2>2, DeploymentAssumption, SetEvmConfig DEF setPermit2
  <2>3. CASE deployEvm(o) \/ deployEvmEscrow(o)
    BY <2>3 DEF deployEvm, deployEvmEscrow, chains
  <2> QED BY <2>1, <2>2, <2>3
<1>7. Touches(o)
  BY <1>3, <1>4, <1>6 DEF Touches
<1>8. Saves(o, r)
  <2>1. CASE deployEvm(o) \/ deployEvmEscrow(o)
    <3>1. run[o].at = IF run[o].script = "deployEvm" THEN 3 ELSE 4
      BY <1>1, <2>1, EvmPlaces DEF deployEvm, deployEvmEscrow, EvmDeploys
    <3>2. ~ Builds(r)
      BY <1>5, <3>1 DEF Builds
    <3>3. env'.pkg = env.pkg /\ {env'.evm, env'.escrow} \subseteq {env.evm, env.escrow, run[o].adapter}
      BY <1>1, <2>1 DEF deployEvm, deployEvmEscrow, Envs
    <3> QED BY <1>3, <3>2, <3>3 DEF Saves
  <2>2. CASE env' = env
    BY <2>2 DEF Saves
  <2> QED BY <2>1, <2>2 DEF evmSetPeer, setPermit2
<1> QED BY <1>5, <1>7, <1>8 DEF Moves

\* The scripts that change a deployment in use: the receive side they set is of an adapter
\* that the env file named.
LEMMA UtilMoves ==
    ASSUME LaneInv, NEW o \in Operators,
           \/ wireEvm(o) \/ wireSui(o) \/ updateEvmDvn(o) \/ updateSuiDvn(o)
           \/ setEvmReceiveUln(o) \/ setExecutorConfig(o) \/ setLzRelayer(o)
    PROVE  Moves(o)
<1>1. run[o] \in Runs /\ evm \in Seq(Adapters) /\ EnvOk(sui, evm, run[o].seen)
  BY DEF LaneInv, RunOk
<1>2. run[o].script \notin {"deploySui"} \union EvmDeploys
  BY NoDeploy DEF wireEvm, wireSui, updateEvmDvn, updateSuiDvn, setEvmReceiveUln,
                  setExecutorConfig, setLzRelayer, EvmDeploys
<1>3. (Advance(o) \/ Exit(o)) /\ env' = env
  BY DEF wireEvm, wireSui, updateEvmDvn, updateSuiDvn, setEvmReceiveUln, setExecutorConfig,
         setLzRelayer, Throw
<1>4. \A a \in DOMAIN evm \ {run[o].seen.evm, run[o].seen.escrow} : evm'[a].recv = evm[a].recv
  <2>1. CASE wireEvm(o)
    <3>1. run[o].seen \in Envs
      BY <1>1 DEF Runs
    <3>2. run[o].seen.pkg \in Nat
      BY <3>1 DEF Envs
    <3> QED BY <1>1, <2>1, <3>2, SetEvmPeer DEF wireEvm
  <2>2. CASE updateEvmDvn(o)
    <3>1. PICK side \in {"send", "recv"} : evm' = [evm EXCEPT ![run[o].seen.evm][side] = "labs"]
      BY <2>2 DEF updateEvmDvn
    <3> QED BY <3>1
  <2>3. CASE setEvmReceiveUln(o)
    <3>1. \/ evm' = evm
          \/ evm' = [evm EXCEPT ![run[o].seen.escrow].recv = evm[run[o].seen.evm].recv]
      BY <2>3 DEF setEvmReceiveUln, Throw, chains
    <3> QED BY <3>1
  <2>4. CASE evm' = evm
    BY <2>4
  <2>5. wireSui(o) \/ updateSuiDvn(o) \/ setExecutorConfig(o) \/ setLzRelayer(o) => evm' = evm
    BY DEF wireSui, updateSuiDvn, setExecutorConfig, setLzRelayer, Throw, chains
  <2> QED BY <2>1, <2>2, <2>3, <2>4, <2>5
<1>5. Touches(o)
  BY <1>2, <1>4 DEF Touches
<1> QED BY <1>2, <1>3, <1>5, IdleMoves

LEMMA OtherMoves ==
    ASSUME LaneInv, NEW o \in Operators,
           \/ initStore(o) \/ setLibraries(o) \/ setReceiveDvn(o) \/ setSolanaPeer(o)
           \/ editEnv(o) \/ Finish(o) \/ Die(o)
    PROVE  Moves(o)
<1>1. sui' = sui /\ evm' = evm
  BY DEF initStore, setLibraries, setReceiveDvn, setSolanaPeer, editEnv, Finish, Die, send, Throw, chains
<1>2. env'.pkg = env.pkg /\ {env'.evm, env'.escrow} \subseteq {env.evm, env.escrow}
  <2>1. CASE editEnv(o)
    <3>1. env \in Envs
      BY DEF LaneInv
    <3> QED BY <2>1, <3>1 DEF editEnv, Envs
  <2>2. CASE env' = env
    BY <2>2
  <2> QED BY <2>1, <2>2 DEF initStore, setLibraries, setReceiveDvn, setSolanaPeer, Finish, Die, send, Throw
<1>3. Exit(o) \/ (Advance(o) /\ run[o].script \notin {"deploySui"} \union EvmDeploys)
  BY NoDeploy DEF initStore, setLibraries, setReceiveDvn, setSolanaPeer, editEnv, Finish, Die, send,
                  Throw, EvmDeploys
<1> QED BY <1>1, <1>2, <1>3, UntouchedChains, IdleMoves

LEMMA StepMoves ==
    ASSUME LaneInv, NEW o \in Operators, Step(o) \/ Die(o)
    PROVE  Moves(o)
  BY PublishMoves, RegisterMoves, SuiDeployMoves, AdapterMoves, EvmDeployMoves, UtilMoves,
     OtherMoves DEF Step

LEMMA StartMoves ==
    ASSUME LaneInv, StartNext \/ StartUnplanned
    PROVE  \E o \in Operators : run[o] = NoRun /\ Moves(o)
<1>1. PICK o \in Operators, s \in Scripts : Launch(o, s)
  <2>1. CASE StartNext
    <3>1. Plan[plan][step] \in Scripts
      BY <2>1, ScriptNames DEF StartNext, LaneInv
    <3> QED BY <2>1, <3>1, OperatorNames DEF StartNext
  <2>2. CASE StartUnplanned
    BY <2>2, DeploymentAssumption, OperatorNames DEF StartUnplanned
  <2> QED BY <2>1, <2>2
<1>2. sui' = sui /\ evm' = evm /\ env' = env
  BY DEF StartNext, StartUnplanned, chains
<1> QED BY <1>1, <1>2, UntouchedChains, IdleMoves DEF Launch

LEMMA BuildStep == LaneInv /\ BuildInv /\ [Next]_vars => BuildInv'
<1> SUFFICES ASSUME LaneInv, BuildInv, [Next]_vars PROVE BuildInv'
  OBVIOUS
<1>1. CASE StartNext \/ StartUnplanned
  BY <1>1, StartMoves, MovesKeep
<1>2. ASSUME NEW o \in Operators, Step(o) \/ Die(o)
      PROVE  BuildInv'
  BY <1>2, StepMoves, MovesKeep
<1>3. CASE heedRefusal
  <2>1. PICK a \in DOMAIN evm : evm[a].recv # "none" /\ env' = [env EXCEPT !.evm = a]
    BY <1>3 DEF heedRefusal
  <2>2. env \in Envs
    BY DEF LaneInv
  <2>3. env'.pkg = env.pkg /\ env'.evm = a /\ env'.escrow = env.escrow
    BY <2>1, <2>2 DEF Envs
  <2>4. evm' = evm /\ run' = run
    BY <1>3 DEF heedRefusal, chains
  <2> QED BY <2>1, <2>3, <2>4 DEF BuildInv
<1>4. CASE UNCHANGED vars
  BY <1>4 DEF vars, chains, BuildInv
<1> QED BY <1>1, <1>2, <1>3, <1>4 DEF Next

\* A step of a deploy script leaves alone what the env file names.
LEMMA MoveIsLocal ==
    ASSUME LaneInv, BuildInv, NEW o \in Operators, Moves(o), NEW x \in Operators,
           run[x].script \in {"deploySui"} \union EvmDeploys, run'[x] # run[x]
    PROVE  /\ env.pkg # 0 => sui'[env.pkg] = sui[env.pkg]
           /\ \A a \in {env.evm, env.escrow} \ {0} : evm'[a] = evm[a]
<1>1. x = o /\ Touches(o)
  BY DEF Moves, Turns, LaneInv
<1>2. env.pkg # 0 => env.pkg \in DOMAIN sui
  BY BuildsExist
<1>3. \A a \in {env.evm, env.escrow} \ {0} : a \in DOMAIN evm
  BY BuildsExist
<1>4. Publishes(run[o]) => env.pkg # run[o].pkg
  BY DEF BuildInv
<1>5. Builds(run[o]) => run[o].adapter \notin {env.evm, env.escrow}
  BY DEF BuildInv
<1> QED BY <1>1, <1>2, <1>3, <1>4, <1>5 DEF Touches

\* deploy-sui.ts and the EVM deploy scripts transact with what they created: whatever the other
\* operator runs meanwhile, no step of theirs changes the package or the adapters the env file
\* names.
THEOREM DeployTouchesItsOwn == Spec => LiveLaneUntouched
<1>1. Init => LaneInv /\ BuildInv
  <2>1. ASSUME Init PROVE BuildInv
    <3>1. \A o \in Operators : run[o].script = "none"
      BY <2>1 DEF Init, NoRun
    <3> QED BY <3>1 DEF BuildInv, Publishes, Builds
  <2> QED BY <2>1, InitLane
<1>2. LaneInv /\ BuildInv /\ [Next]_vars => (LaneInv /\ BuildInv)'
  BY LaneStep, BuildStep
<1>3. LaneInv /\ BuildInv /\ [Next]_vars =>
         [\A o \in Operators :
            run[o].script \in {"deploySui"} \union EvmDeploys /\ run'[o] # run[o]
               => /\ env.pkg # 0 => sui'[env.pkg] = sui[env.pkg]
                  /\ \A a \in {env.evm, env.escrow} \ {0} : evm'[a] = evm[a]]_vars
  <2> SUFFICES ASSUME LaneInv, BuildInv, Next, NEW x \in Operators,
                      run[x].script \in {"deploySui"} \union EvmDeploys, run'[x] # run[x]
               PROVE  /\ env.pkg # 0 => sui'[env.pkg] = sui[env.pkg]
                      /\ \A a \in {env.evm, env.escrow} \ {0} : evm'[a] = evm[a]
    OBVIOUS
  <2>1. CASE \E o \in Operators : Step(o) \/ Die(o)
    BY <2>1, StepMoves, MoveIsLocal
  <2>2. CASE StartNext \/ StartUnplanned
    BY <2>2, StartMoves, MoveIsLocal
  <2>3. CASE heedRefusal
    BY <2>3 DEF heedRefusal
  <2> QED BY <2>1, <2>2, <2>3 DEF Next
<1> QED BY <1>1, <1>2, <1>3, PTL DEF Spec, LiveLaneUntouched
=============================================================================
