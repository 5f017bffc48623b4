------------------------------ MODULE MCIntake ------------------------------
(* One intent per origin chain.                                            *)
EXTENDS Intake

\* When both intents are submitted, the client of the EVM intent delivers its bytes
\* and that of the Solana intent is gone: their blobs compete for the cap.  This adds
\* no fault and no other checkpoint to it.
BothSubmitted == \A i \in Intents : OnChain(i)
Environment ==
    \* A fault or a deadline that passes.
    /\ Cardinality(past) + faults <= 1
    /\ BothSubmitted =>
          /\ faults = 0
          /\ ToSet(delivered) \subseteq Intents
          /\ \A u \in Uploads :
                \/ request[u] = NoRequest
                \/ request[u].intent \in EvmIntents /\ request[u].bytes = "committed"
\* That client uploads again when the answer tells it to.
ClientRetries ==
    BothSubmitted => \A u \in Uploads :
        request[u].answer \in {"none", "unknown", "backpressure"} \/ UNCHANGED request[u]
MCSpec == Init /\ [][Next /\ Environment' /\ ClientRetries]_vars /\ Fairness
=============================================================================
