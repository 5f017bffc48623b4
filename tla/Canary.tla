------------------------------- MODULE Canary -------------------------------
(***************************************************************************)
(* The canary: a process that sends a paid intent on every origin chain at *)
(* intervals and reports whether its proof came back.  Each chain has a    *)
(* timer of its own with a single-flight guard.  A round trip is submit    *)
(* (with the upload, retried while the relayer does not know the intent)   *)
(* and awaitProof; what it came to is recorded once.                       *)
(***************************************************************************)
EXTENDS Integers

CONSTANTS MinBalance, MaxBalance        \* the preflight's floor, the model's ceiling

Chains == {"evm", "solana"}
ProbeCost == 1

VARIABLES
    process,      \* "building", "up" or "exited"
    probe,        \* of each chain, what its round trip under way is doing
    owed,         \* of each chain, ticks started less outcomes recorded
    outcome,      \* of each chain, the last outcome recorded
    hung,         \* chains whose round trip waits for an answer that never comes
    balance,      \* of each wallet
    gas,          \* "normal" or "high", on EVM
    registered,   \* the relayer's watcher has seen the chain's last intent
    landed        \* the chain's last intent has its proof

canaryVars == <<process, probe, owed, outcome, hung, balance, gas, registered, landed>>
trip       == <<probe, owed, outcome>>
network    == <<balance, gas, registered, landed>>

CanaryInit ==
    /\ process = "building"
    /\ probe = [c \in Chains |-> "idle"]
    /\ owed = [c \in Chains |-> 0]
    /\ outcome = [c \in Chains |-> "none"]
    /\ hung = {}
    /\ balance = [c \in Chains |-> MaxBalance]
    /\ gas = "normal"
    /\ registered = [c \in Chains |-> FALSE]
    /\ landed = [c \in Chains |-> FALSE]

-----------------------------------------------------------------------------
(* main(): both probes are built before any timer is set; a probe that     *)
(* cannot be built ends the process, which is then started again.          *)

\* The Solana probe reads its LayerZero accounts from the chain when it is built.
createSolanaProbe == {"up", "exited"}

buildProbes ==
    /\ process = "building"
    /\ process' \in createSolanaProbe
    /\ UNCHANGED <<trip, network>>

Restart ==
    /\ process = "exited"
    /\ process' = "building"
    /\ UNCHANGED <<trip, network>>

\* Mutant: one flag for all chains.
OneFlight(c) ==
    /\ process = "up"
    /\ \A d \in Chains : probe[d] = "idle"
    /\ probe' = [probe EXCEPT ![c] = "preflight"]
    /\ owed' = [owed EXCEPT ![c] = @ + 1]
    /\ UNCHANGED <<process, outcome, network>>

\* A timer's tick, skipped while the chain's last round trip is under way.
scheduleChain(c) ==
    /\ process = "up"
    /\ probe[c] = "idle"
    /\ probe' = [probe EXCEPT ![c] = "preflight"]
    /\ owed' = [owed EXCEPT ![c] = @ + 1]
    /\ UNCHANGED <<process, outcome, network>>

\* CanaryMetrics: recordSuccess, recordFailure, recordSkip.
record(c, result) ==
    /\ owed' = [owed EXCEPT ![c] = @ - 1]
    /\ outcome' = [outcome EXCEPT ![c] = result]

Ends(c, result) ==
    /\ record(c, result)
    /\ probe' = [probe EXCEPT ![c] = "idle"]

Goes(c, stage) ==
    /\ probe' = [probe EXCEPT ![c] = stage]
    /\ UNCHANGED <<owed, outcome>>

\* The guard before a paid submit.  A value that cannot be read does not hold it back.
preflight(readsBalance, readsGas) ==
    /\ readsBalance => balance["evm"] >= MinBalance
    /\ readsGas => gas = "normal"

solanaPreflight(readsBalance) == readsBalance => balance["solana"] >= MinBalance

runCycle(c) ==
    /\ probe[c] = "preflight"
    /\ \E readsBalance, readsGas \in BOOLEAN :
          LET ok == IF c = "evm" THEN preflight(readsBalance, readsGas)
                                 ELSE solanaPreflight(readsBalance)
          IN  IF ok THEN Goes(c, "submit") ELSE Ends(c, "skip")
    /\ UNCHANGED <<process, network>>

\* encode, quote and submit of the SDK: the intent is paid for, or any of them throws.
submit(c) ==
    /\ probe[c] = "submit"
    /\ \/ /\ balance[c] >= ProbeCost
          /\ balance' = [balance EXCEPT ![c] = @ - ProbeCost]
          /\ registered' = [registered EXCEPT ![c] = FALSE]
          /\ landed' = [landed EXCEPT ![c] = FALSE]
          /\ Goes(c, "upload")
          /\ UNCHANGED gas
       \/ Ends(c, "failure") /\ UNCHANGED network
    /\ UNCHANGED process

\* The upload is retried on 404 until the deadline; any other refusal ends it.
uploadWithRetry(c) ==
    /\ probe[c] = "upload"
    /\ IF registered[c] THEN Goes(c, "await") \/ Ends(c, "failure")
                        ELSE Ends(c, "failure")
    /\ UNCHANGED <<process, network>>

\* Mutant: a timeout of the wait is taken for its end.
TimeoutIsSuccess(c) ==
    /\ probe[c] = "await"
    /\ Ends(c, "success")
    /\ UNCHANGED <<process, network>>

\* The return leg: polled until the proof is there or the wait is over.
awaitProof(c) ==
    /\ probe[c] = "await"
    /\ IF landed[c] THEN Ends(c, "success") \/ Ends(c, "failure")
                    ELSE Ends(c, "failure")
    /\ UNCHANGED <<process, network>>

-----------------------------------------------------------------------------
(* The relayer, the chains and the operator who fills the wallets.         *)

Register(c) ==
    /\ probe[c] \in {"upload", "await"}
    /\ ~registered[c]
    /\ registered' = [registered EXCEPT ![c] = TRUE]
    /\ UNCHANGED <<process, trip, balance, gas, landed>>

Land(c) ==
    /\ registered[c] /\ ~landed[c]
    /\ landed' = [landed EXCEPT ![c] = TRUE]
    /\ UNCHANGED <<process, trip, balance, gas, registered>>

GasMoves ==
    /\ gas' = IF gas = "normal" THEN "high" ELSE "normal"
    /\ UNCHANGED <<process, trip, balance, registered, landed>>

Refill(c) ==
    /\ balance[c] < MaxBalance
    /\ balance' = [balance EXCEPT ![c] = MaxBalance]
    /\ UNCHANGED <<process, trip, gas, registered, landed>>

\* What the canary itself does for a chain, once the await it is at is answered.
Probing(c) ==
    /\ c \notin hung
    /\ \/ scheduleChain(c) \/ runCycle(c) \/ submit(c)
       \/ uploadWithRetry(c) \/ awaitProof(c)
    /\ UNCHANGED hung

\* No answer comes.  CANARY_MAX_WAIT_MS bounds the return leg only: the SDK waits for
\* the confirmation of a transaction without a timeout, so one that stays pending or
\* is dropped keeps the chain's round trip, and its guard, for ever.
Hangs(c) ==
    /\ probe[c] # "idle"
    /\ c \notin hung
    /\ hung' = hung \union {c}
    /\ UNCHANGED <<process, trip, network>>

CanaryNext ==
    \/ \E c \in Chains : Probing(c) \/ Hangs(c)
    \/ /\ \/ buildProbes \/ Restart \/ GasMoves
          \/ \E c \in Chains : Register(c) \/ Land(c) \/ Refill(c)
       /\ UNCHANGED hung

CanarySpec == CanaryInit /\ [][CanaryNext]_canaryVars

-----------------------------------------------------------------------------
\* Every tick that starts a round trip is recorded exactly once, on whichever path it
\* ends, and a success is of an intent whose own proof came back (canary main.ts
\* runCycle and scheduleChain, probe.ts "Never throws").
OutcomesAreTrue ==
    \A c \in Chains :
        /\ owed[c] = (IF probe[c] = "idle" THEN 0 ELSE 1)
        /\ outcome[c] = "success" /\ probe[c] \notin {"upload", "await"} => landed[c]

\* A stalled Solana leg never blocks the EVM leg: once the timers are set, EVM is
\* probed again and again though Solana may never answer (main.ts scheduleChain),
\* unless a round trip of EVM's own waits for an answer that never comes.
EvmKeepsProbing == [](process = "up" => <>(probe["evm"] = "preflight" \/ "evm" \in hung))
=============================================================================
