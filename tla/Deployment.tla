----------------------------- MODULE Deployment -----------------------------
(***************************************************************************)
(* The scripts that deploy the contracts and wire them into LayerZero      *)
(* lanes: scripts/deploy, scripts/util and the set-up half of              *)
(* scripts/solana.                                                         *)
(*                                                                         *)
(* A script reads the env file once, when it starts, and then sends one    *)
(* transaction per step; it may die between any two.  The deploy scripts   *)
(* write what they created back to the env file as their last step.  One   *)
(* operator works through a runbook and runs a script again when it        *)
(* failed; another may run scripts at the same time, nothing locks them    *)
(* out, and when such a run is over the runbook is started from the top.   *)
(*                                                                         *)
(* A Sui deployment is its package, with the OApp, the admin cap and the   *)
(* messaging channel made for it: all have the package's number.  Numbers  *)
(* count deployments; 0 is an id that is not set.                          *)
(***************************************************************************)
EXTENDS Naturals, Sequences

CONSTANTS Plans,           \* the runbooks that are followed, names of Plan
          UseDefaultDvns,  \* LZ_USE_DEFAULT_DVNS
          Permit2,         \* is PERMIT2_ADDRESS set?
          PresetReceiver,  \* the Sui package a testnet preset names; 0 on mainnet
          Unplanned,       \* the scripts the second operator may run
          MaxUnplanned,    \* bounds of the model: how many runs of those,
          MaxDeaths        \* and how many scripts die half way

Runbook == "runbook"
Other   == "other"
Operators == {Runbook, Other}

VARIABLES
    sui,        \* the Sui deployments: [channel, cfg, peer, relayer]
    evm,        \* the EVM adapters: [peer, send, recv, permit2]
    solana,     \* the Solana store: what was initialised and set
    env,        \* the env file
    run,        \* the script each operator is running
    plan, step, \* the runbook followed, and where its operator is in it
    unplanned, deaths

chains == <<sui, evm, solana>>
vars   == <<chains, env, run, plan, step, unplanned, deaths>>

-----------------------------------------------------------------------------
(* The scripts, each as the transactions and writes it makes in order.     *)

Steps ==
    [deploySui |-> <<"publish", "registerOApp", "sendLib", "recvLib", "recvUln", "sendUln",
                     "executor", "setPeer", "setRelayer", "updateEnv">>,
     deployEvm        |-> <<"deploy", "setPeer", "updateEnv">>,
     deployEvmEscrow  |-> <<"deploy", "setPeer", "setPermit2", "updateEnv">>,
     wire             |-> <<"evmSetPeer", "suiSetPeer">>,
     setDvn           |-> <<"send", "recv", "recvUln">>,
     setEvmReceiveUln |-> <<"mirror">>,
     setExecutorConfig |-> <<"executor">>,
     setLzRelayer     |-> <<"setRelayer">>,
     initStore        |-> <<"store">>,
     setLibraries     |-> <<"sendInit", "sendLib", "recvInit", "recvLib">>,
     setReceiveDvn    |-> <<"cfgInit", "dvn">>,
     setPeer          |-> <<"peer">>,
     editEnv          |-> <<"edit">>]

Scripts == DOMAIN Steps

\* What an operator works through: a first deployment; the redeployment with escrow,
\* and the same in the order of M4_REDEPLOY.md, which wires before the env file is
\* pointed at the new adapter; the wiring of the Solana program.
Plan ==
    [first   |-> <<"deploySui", "deployEvm", "editEnv", "setLzRelayer", "wire">>,
     escrow  |-> <<"deploySui", "deployEvmEscrow", "setEvmReceiveUln", "editEnv",
                   "setLzRelayer", "wire">>,
     m4      |-> <<"deployEvmEscrow", "setEvmReceiveUln", "wire", "setLzRelayer", "editEnv">>,
     solana  |-> <<"editEnv", "initStore", "setLibraries", "setReceiveDvn", "setPeer">>]

Redeployments == {"escrow", "m4"}

ASSUME DeploymentAssumption ==
    /\ Plans \subseteq DOMAIN Plan
    /\ Unplanned \subseteq Scripts
    /\ UseDefaultDvns \in BOOLEAN /\ Permit2 \in BOOLEAN
    /\ PresetReceiver \in Nat /\ MaxUnplanned \in Nat /\ MaxDeaths \in Nat

UlnSettings == {"recvUln", "sendUln", "executor"}
Settings    == {"sendLib", "recvLib"} \union UlnSettings
NoSettings  == [s \in Settings |-> "none"]

NoEnv == [pkg |-> 0, chan |-> 0, evm |-> 0, escrow |-> 0, receiver |-> 0, key |-> "none"]
NoRun == [script |-> "none", at |-> 1, seen |-> NoEnv, pkg |-> 0, chan |-> 0, adapter |-> 0]

SolanaSettings == {"store", "sendInit", "sendLib", "recvInit", "recvLib", "cfgInit", "dvn"}
FreshSolana == [done |-> {}, peer |-> 0]

FreshAdapter == [peer |-> 0, send |-> "none", recv |-> "none", permit2 |-> FALSE]

\* LzReceiverConfig.relayer is the publisher, the deployer, at first.
FreshPackage == [channel |-> FALSE, cfg |-> NoSettings, peer |-> 0, relayer |-> "deployer"]

\* The deployment the redeployment replaces: configured, wired and in use.
LivePackage == [channel |-> TRUE,
                cfg |-> [s \in Settings |-> IF s \in UlnSettings THEN "dvn" ELSE "uln302"],
                peer |-> 1, relayer |-> "relayer"]
LiveAdapter == [peer |-> 1, send |-> "dvn", recv |-> "dvn", permit2 |-> FALSE]

Init ==
    /\ plan \in Plans
    /\ \/ /\ plan = "first"
          /\ sui = << >> /\ evm = << >>
          /\ \E key \in {"none", "deployer"} : env = [NoEnv EXCEPT !.key = key]
       \/ /\ plan # "first"
          /\ sui = <<LivePackage>> /\ evm = <<LiveAdapter>>
          /\ env = [NoEnv EXCEPT !.pkg = 1, !.chan = 1, !.evm = 1, !.key = "relayer"]
    /\ solana = FreshSolana
    /\ run = [o \in Operators |-> NoRun]
    /\ step = 1 /\ unplanned = 0 /\ deaths = 0

-----------------------------------------------------------------------------
(* Starting a script, and its end.                                         *)

At(o, s, l) == /\ run[o].script = s
               /\ run[o].at <= Len(Steps[s]) /\ Steps[s][run[o].at] = l

Advance(o) == run' = [run EXCEPT ![o].at = @ + 1]
Exit(o)    == run' = [run EXCEPT ![o] = NoRun]

control == <<plan, step, unplanned, deaths>>

\* setting: the env file's value, or the default of the network.
setting(value, preset) == IF value # 0 THEN value ELSE preset

\* requiredEnv: a script whose variables are not set exits before it did anything.
RequiredEnv(s, e) ==
    CASE s \in {"wire", "setDvn"} -> e.evm # 0 /\ e.pkg # 0 /\ e.chan # 0
      [] s = "setEvmReceiveUln"  -> e.evm # 0 /\ e.escrow # 0 /\ e.evm # e.escrow
      [] s = "setExecutorConfig" -> e.pkg # 0
      [] s = "setLzRelayer"      -> e.pkg # 0 /\ e.key # "none"
      [] s = "setPeer"           -> setting(e.receiver, PresetReceiver) # 0
      [] OTHER                   -> TRUE

Launch(o, s) ==
    /\ run[o] = NoRun
    /\ RequiredEnv(s, env)
    /\ run' = [run EXCEPT ![o] = [NoRun EXCEPT !.script = s, !.seen = env]]

\* The operator of the runbook runs its next script.
StartNext ==
    /\ step \in DOMAIN Plan[plan]
    /\ Launch(Runbook, Plan[plan][step])
    /\ UNCHANGED <<chains, env, control>>

\* The second operator runs a script of its own.
StartUnplanned ==
    /\ unplanned < MaxUnplanned
    /\ unplanned' = unplanned + 1
    /\ \E s \in Unplanned : Launch(Other, s)
    /\ UNCHANGED <<chains, env, plan, step, deaths>>

\* Where the runbook goes on when operator o's script is over; 0 is its top, once the
\* script its operator is running is over too.
StepAfter(o, completed) ==
    CASE o = Other -> IF run[Runbook] = NoRun THEN 1 ELSE 0
      [] o = Runbook /\ step = 0 -> 1
      [] OTHER -> IF completed THEN step + 1 ELSE step

Finish(o) ==
    /\ run[o] # NoRun
    /\ run[o].at > Len(Steps[run[o].script])
    /\ step' = StepAfter(o, TRUE)
    /\ Exit(o)
    /\ UNCHANGED <<chains, env, plan, unplanned, deaths>>

\* main().catch: what the script throws ends it; nothing it did is undone.
Throw(o) ==
    /\ step' = StepAfter(o, FALSE)
    /\ Exit(o)
    /\ UNCHANGED <<chains, env, plan, unplanned, deaths>>

\* A transaction that fails, a wait that gives up, a script that is killed.
Die(o) ==
    /\ run[o] # NoRun
    /\ deaths < MaxDeaths
    /\ deaths' = deaths + 1
    /\ step' = StepAfter(o, FALSE)
    /\ Exit(o)
    /\ UNCHANGED <<chains, env, plan, unplanned>>

-----------------------------------------------------------------------------
(* deploy-sui.ts                                                           *)

\* Mutant: the package id is saved as soon as it is known.
PublishSaves(o) ==
    /\ At(o, "deploySui", "publish")
    /\ sui' = Append(sui, FreshPackage)
    /\ run' = [run EXCEPT ![o].at = @ + 1, ![o].pkg = Len(sui) + 1]
    /\ env' = [env EXCEPT !.pkg = Len(sui) + 1]
    /\ UNCHANGED <<evm, solana, control>>

publish(o) ==
    /\ At(o, "deploySui", "publish")
    /\ sui' = Append(sui, FreshPackage)
    /\ run' = [run EXCEPT ![o].at = @ + 1, ![o].pkg = Len(sui) + 1]
    /\ UNCHANGED <<evm, solana, env, control>>

\* findCreatedByType: the id of the object the transaction made, or none when no
\* answer names it.
findCreatedByType(id) == {id, 0}

registerOApp(o) ==
    /\ At(o, "deploySui", "registerOApp")
    /\ sui' = [sui EXCEPT ![run[o].pkg].channel = TRUE]
    /\ \E found \in findCreatedByType(run[o].pkg) :
          run' = [run EXCEPT ![o].at = @ + 1, ![o].chan = found]
    /\ UNCHANGED <<evm, solana, env, control>>

setLzLibraries(o) ==
    \E lib \in {"sendLib", "recvLib"} :
       /\ At(o, "deploySui", lib)
       /\ sui' = [sui EXCEPT ![run[o].pkg].cfg[lib] = "uln302"]
       /\ Advance(o)
       /\ UNCHANGED <<evm, solana, env, control>>

\* encodeOAppUlnConfig and encodeExecutorConfig: our own, or the endpoint's defaults.
UlnConfig == IF UseDefaultDvns THEN "default" ELSE "dvn"

setLzConfig(o) ==
    \E item \in UlnSettings :
       /\ At(o, "deploySui", item)
       /\ sui' = [sui EXCEPT ![run[o].pkg].cfg[item] = UlnConfig]
       /\ Advance(o)
       /\ UNCHANGED <<evm, solana, env, control>>

\* Mutant: the peer is set on the OApp the env file names.
PeersTheOld(o) ==
    /\ At(o, "deploySui", "setPeer")
    /\ sui' = IF run[o].seen.evm # 0 /\ run[o].chan # 0 /\ run[o].seen.pkg # 0
                 THEN [sui EXCEPT ![run[o].seen.pkg].peer = 0]
                 ELSE sui
    /\ Advance(o)
    /\ UNCHANGED <<evm, solana, env, control>>

\* Skipped without an adapter to name, or without the channel.
suiSetPeer(o) ==
    /\ At(o, "deploySui", "setPeer")
    /\ sui' = IF run[o].seen.evm # 0 /\ run[o].chan # 0
                 THEN [sui EXCEPT ![run[o].pkg].peer = run[o].seen.evm]
                 ELSE sui
    /\ Advance(o)
    /\ UNCHANGED <<evm, solana, env, control>>

\* Skipped without SUI_RELAYER_KEY, or when that is the deployer's key.
setRelayer(o) ==
    /\ At(o, "deploySui", "setRelayer")
    /\ sui' = IF run[o].seen.key = "relayer"
                 THEN [sui EXCEPT ![run[o].pkg].relayer = "relayer"]
                 ELSE sui
    /\ Advance(o)
    /\ UNCHANGED <<evm, solana, env, control>>

\* The end of main: all ids at once, the channel's only when it was found.
suiUpdateEnv(o) ==
    /\ At(o, "deploySui", "updateEnv")
    /\ env' = [env EXCEPT !.pkg = run[o].pkg,
                          !.chan = IF run[o].chan # 0 THEN run[o].chan ELSE @]
    /\ Advance(o)
    /\ UNCHANGED <<chains, control>>

-----------------------------------------------------------------------------
(* deploy-evm.ts and deploy-evm-escrow.ts                                  *)

EvmDeploys == {"deployEvm", "deployEvmEscrow"}

deployAdapter(o) ==
    /\ \E s \in EvmDeploys : At(o, s, "deploy")
    /\ evm' = Append(evm, FreshAdapter)
    /\ run' = [run EXCEPT ![o].at = @ + 1, ![o].adapter = Len(evm) + 1]
    /\ UNCHANGED <<sui, solana, env, control>>

\* The peer is the Sui package the env file named when the script started.
evmSetPeer(o) ==
    /\ \E s \in EvmDeploys : At(o, s, "setPeer")
    /\ evm' = [evm EXCEPT ![run[o].adapter].peer = run[o].seen.pkg]
    /\ Advance(o)
    /\ UNCHANGED <<sui, solana, env, control>>

setPermit2(o) ==
    /\ At(o, "deployEvmEscrow", "setPermit2")
    /\ evm' = [evm EXCEPT ![run[o].adapter].permit2 = Permit2]
    /\ Advance(o)
    /\ UNCHANGED <<sui, solana, env, control>>

deployEvm(o) ==
    /\ At(o, "deployEvm", "updateEnv")
    /\ env' = [env EXCEPT !.evm = run[o].adapter]
    /\ Advance(o)
    /\ UNCHANGED <<chains, control>>

deployEvmEscrow(o) ==
    /\ At(o, "deployEvmEscrow", "updateEnv")
    /\ env' = [env EXCEPT !.escrow = run[o].adapter]
    /\ Advance(o)
    /\ UNCHANGED <<chains, control>>

-----------------------------------------------------------------------------
(* scripts/util                                                            *)

\* wire.ts, first the adapter's peer, then the OApp's.  The endpoint refuses a
\* messaging channel that is not the OApp's.
wireEvm(o) ==
    /\ At(o, "wire", "evmSetPeer")
    /\ evm' = [evm EXCEPT ![run[o].seen.evm].peer = run[o].seen.pkg]
    /\ Advance(o)
    /\ UNCHANGED <<sui, solana, env, control>>

wireSui(o) ==
    /\ At(o, "wire", "suiSetPeer")
    /\ IF run[o].seen.chan = run[o].seen.pkg
          THEN /\ sui' = [sui EXCEPT ![run[o].seen.pkg].peer = run[o].seen.evm]
               /\ Advance(o)
               /\ UNCHANGED <<evm, solana, env, control>>
          ELSE Throw(o)

updateEvmDvn(o) ==
    \E side \in {"send", "recv"} :
       /\ At(o, "setDvn", side)
       /\ evm' = [evm EXCEPT ![run[o].seen.evm][side] = "labs"]
       /\ Advance(o)
       /\ UNCHANGED <<sui, solana, env, control>>

\* The receive side is written; then exec reads the result's `transaction`, which
\* signAndExecute does not return, and throws: the send side is never written.
updateSuiDvn(o) ==
    /\ At(o, "setDvn", "recvUln")
    /\ sui' = [sui EXCEPT ![run[o].seen.pkg].cfg["recvUln"] = "labs"]
    /\ step' = StepAfter(o, FALSE)
    /\ Exit(o)
    /\ UNCHANGED <<evm, solana, env, plan, unplanned, deaths>>

\* set-evm-receive-uln.ts: a dry run without --apply; refuses to mirror a
\* configuration without a required DVN; nothing to do when both are the same.
setEvmReceiveUln(o) ==
    /\ At(o, "setEvmReceiveUln", "mirror")
    /\ LET old == evm[run[o].seen.evm].recv IN
       IF old = "none" THEN Throw(o)
       ELSE /\ \E apply \in (IF o = Runbook THEN {TRUE} ELSE BOOLEAN) :
                  evm' = IF apply THEN [evm EXCEPT ![run[o].seen.escrow].recv = old] ELSE evm
            /\ Advance(o)
            /\ UNCHANGED <<sui, solana, env, control>>

\* set-executor-config.ts: inspect, inherit the default, or pin the executor's cap.
setExecutorConfig(o) ==
    /\ At(o, "setExecutorConfig", "executor")
    /\ \E value \in {sui[run[o].seen.pkg].cfg["executor"], "default", "dvn"} :
          sui' = [sui EXCEPT ![run[o].seen.pkg].cfg["executor"] = value]
    /\ Advance(o)
    /\ UNCHANGED <<evm, solana, env, control>>

\* set-lz-relayer.ts --use-relayer-key.
setLzRelayer(o) ==
    /\ At(o, "setLzRelayer", "setRelayer")
    /\ sui' = [sui EXCEPT ![run[o].seen.pkg].relayer = run[o].seen.key]
    /\ Advance(o)
    /\ UNCHANGED <<evm, solana, env, control>>

-----------------------------------------------------------------------------
(* scripts/solana                                                          *)

\* Mutant: the account is created without looking whether it is there.
InitAlways(o) ==
    /\ At(o, "initStore", "store")
    /\ IF "store" \notin solana.done
          THEN /\ solana' = [solana EXCEPT !.done = @ \union {"store"}]
               /\ Advance(o)
               /\ UNCHANGED <<sui, evm, env, control>>
          ELSE Throw(o)

\* init-store.ts: nothing to do when the store exists.
initStore(o) ==
    /\ At(o, "initStore", "store")
    /\ solana' = [solana EXCEPT !.done = @ \union {"store"}]
    /\ Advance(o)
    /\ UNCHANGED <<sui, evm, env, control>>

\* One transaction of set-libraries.ts or set-receive-dvn.ts; one that finds its
\* account made already is skipped, and without a store it fails.
send(o, part) ==
    IF "store" \in solana.done
       THEN /\ solana' = [solana EXCEPT !.done = @ \union {part}]
            /\ Advance(o)
            /\ UNCHANGED <<sui, evm, env, control>>
       ELSE Throw(o)

setLibraries(o) ==
    \E part \in {"sendInit", "sendLib", "recvInit", "recvLib"} :
       At(o, "setLibraries", part) /\ send(o, part)

setReceiveDvn(o) ==
    \E part \in {"cfgInit", "dvn"} :
       At(o, "setReceiveDvn", part) /\ send(o, part)

setSolanaPeer(o) ==
    /\ At(o, "setPeer", "peer")
    /\ IF "store" \in solana.done
          THEN /\ solana' = [solana EXCEPT !.peer = setting(run[o].seen.receiver,
                                                            PresetReceiver)]
               /\ Advance(o)
               /\ UNCHANGED <<sui, evm, env, control>>
          ELSE Throw(o)

-----------------------------------------------------------------------------
(* The operator's own edits of the env file.                               *)

\* Point it at the new deployment, fill in what the scripts said is missing.
editEnv(o) ==
    /\ At(o, "editEnv", "edit")
    /\ env' = [env EXCEPT !.evm = IF plan \in Redeployments THEN env.escrow ELSE @,
                          !.chan = env.pkg, !.receiver = env.pkg,
                          !.key = IF @ = "none" THEN "relayer" ELSE @]
    /\ Advance(o)
    /\ UNCHANGED <<chains, control>>

\* "Re-run against an adapter whose DVN is set."
RefusesToMirror == env.evm = env.escrow \/ evm[env.evm].recv = "none"

heedRefusal ==
    /\ run[Runbook] = NoRun
    /\ step \in DOMAIN Plan[plan] /\ Plan[plan][step] = "setEvmReceiveUln"
    /\ RefusesToMirror
    /\ \E a \in DOMAIN evm \ {env.escrow} :
          evm[a].recv # "none" /\ env' = [env EXCEPT !.evm = a]
    /\ UNCHANGED <<chains, run, control>>

-----------------------------------------------------------------------------
Step(o) ==
    \/ publish(o) \/ registerOApp(o) \/ setLzLibraries(o) \/ setLzConfig(o)
    \/ suiSetPeer(o) \/ setRelayer(o) \/ suiUpdateEnv(o)
    \/ deployAdapter(o) \/ evmSetPeer(o) \/ setPermit2(o) \/ deployEvm(o) \/ deployEvmEscrow(o)
    \/ wireEvm(o) \/ wireSui(o) \/ updateEvmDvn(o) \/ updateSuiDvn(o)
    \/ setEvmReceiveUln(o) \/ setExecutorConfig(o) \/ setLzRelayer(o)
    \/ initStore(o) \/ setLibraries(o) \/ setReceiveDvn(o) \/ setSolanaPeer(o)
    \/ editEnv(o)
    \/ Finish(o)

Next ==
    \/ StartNext \/ StartUnplanned \/ heedRefusal
    \/ \E o \in Operators : Step(o) \/ Die(o)

Spec == Init /\ [][Next]_vars

\* A running script goes on, and the operator goes on with the runbook, acting on
\* what a script that refused told them.
FairSpec ==
    /\ Spec
    /\ \A o \in Operators : WF_vars(Step(o))
    /\ WF_vars(StartNext)
    /\ SF_vars(heedRefusal)

-----------------------------------------------------------------------------
Configured(p) == sui[p].channel /\ \A s \in Settings : sui[p].cfg[s] # "none"

\* The env file never names a half-made deployment: every step of deploy-sui.ts that
\* configures a package is done before the ids are saved, whatever dies and whoever
\* else is deploying, and the adapters it names exist with the peer they were given.
EnvIsComplete ==
    /\ env.pkg # 0 => Configured(env.pkg)
    /\ \A a \in {env.evm, env.escrow} \ {0} :
          a \in DOMAIN evm /\ (evm[a].peer # 0 => Configured(evm[a].peer))

\* A deploy script works on what it creates: until the env file names the new
\* deployment, the one in use keeps its peers, its libraries and its relayer.
LiveLaneUntouched ==
    [][\A o \in Operators :
         run[o].script \in {"deploySui"} \union EvmDeploys /\ run'[o] # run[o]
            => /\ env.pkg # 0 => sui'[env.pkg] = sui[env.pkg]
               /\ \A a \in {env.evm, env.escrow} \ {0} : evm'[a] = evm[a]]_vars

Authorised(p) == sui[p].relayer = env.key

\* The lane carries messages both ways: the peers name each other, the proofs the
\* relayer sends are accepted and, on an escrow adapter, can be verified.
EvmLaneOpen ==
    /\ env.pkg # 0 /\ env.evm # 0
    /\ Configured(env.pkg) /\ Authorised(env.pkg)
    /\ evm[env.evm].peer = env.pkg /\ sui[env.pkg].peer = env.evm
    /\ plan \in Redeployments => env.evm = env.escrow /\ evm[env.evm].recv # "none"

SolanaLaneOpen == solana.done = SolanaSettings /\ solana.peer = env.pkg

LaneOpen == IF plan = "solana" THEN SolanaLaneOpen ELSE EvmLaneOpen

\* Running a script again after it died, and starting over after someone else ran
\* one, brings the lane up: no partial run leaves something a later run trips over.
LaneComesUp == <>[]LaneOpen

\* set-dvn.ts "updates the required DVN configuration on both EVM and Sui sides": when
\* no script is running, the proofs the OApp sends are given to the DVN that the
\* adapter requires.
DvnsAgree ==
    (\A o \in Operators : run[o] = NoRun) /\ env.pkg # 0 /\ env.evm # 0
       => (evm[env.evm].recv = "labs" => sui[env.pkg].cfg["sendUln"] = "labs")
=============================================================================
