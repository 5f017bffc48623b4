---------------------------- MODULE StorageBargain ----------------------------
(***************************************************************************)
(* What Bosphor promises about an intent, with the chains, the relayer and *)
(* the messages between them left out: a payment is held for the intent,   *)
(* the relayer earns it only for a blob that is stored, and whatever       *)
(* happens it is given to one of the two once.                             *)
(***************************************************************************)
CONSTANT Ids

VARIABLES
    stored,     \* ids whose blob is stored and recorded
    payment     \* where the payment of an id is

Init ==
    /\ stored = {}
    /\ payment = [id \in Ids |-> "none"]

Pay(id) ==
    /\ payment[id] = "none"
    /\ payment' = [payment EXCEPT ![id] = "held"]
    /\ UNCHANGED stored

Store(id) ==
    /\ stored' = stored \union {id}
    /\ UNCHANGED payment

Earn(id) ==
    /\ payment[id] = "held"
    /\ id \in stored
    /\ payment' = [payment EXCEPT ![id] = "relayer"]
    /\ UNCHANGED stored

GiveBack(id) ==
    /\ payment[id] = "held"
    /\ payment' = [payment EXCEPT ![id] = "payer"]
    /\ UNCHANGED stored

Next == \E id \in Ids : Pay(id) \/ Store(id) \/ Earn(id) \/ GiveBack(id)

Spec == Init /\ [][Next]_<<stored, payment>>
=============================================================================
