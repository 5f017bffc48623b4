------------------------------- MODULE SuiStore -------------------------------
(***************************************************************************)
(* The Sui side: the LayerZero receiver (lz_receiver) that records the     *)
(* commitment of an intent and sends proofs back, the executor             *)
(* (walrus_executor) that accepts a certified Walrus blob for it, and the  *)
(* parts of Sui and Walrus they read: the clock, the Walrus epoch and the  *)
(* blob objects an address owns.  A transaction is a step, an abort is no  *)
(* step.                                                                   *)
(***************************************************************************)
EXTENDS Integers, FiniteSets

CONSTANTS
    Ids,            \* intent ids
    Blobs,          \* Walrus blob ids
    SuiAddresses,   \* addresses the admin may name as the relayer
    None,           \* an absent table entry
    MsPerSecond,    \* the Sui clock counts milliseconds, a deadline seconds
    MaxClock,       \* bound on the clock
    MaxEpoch,       \* bound on the Walrus epoch
    MaxUploads      \* bound on blob objects

VARIABLES
    clock,              \* Clock.timestamp_ms
    epoch,              \* System.epoch of Walrus
    uploads,            \* blob objects ever registered
    held,               \* certified blob objects a relayer owns
    receivedIntents,    \* received_intents: the commitment recorded for an id
    executedIntents,    \* executed_intents: the blob object accepted for an id
    proofs,             \* proof packets sent, by their LayerZero nonce
    receiverRelayer,    \* LzReceiverConfig.relayer
    executorRelayer     \* ExecutorConfig.relayer

walrus == <<epoch, uploads, held>>
tables == <<receivedIntents, executedIntents, proofs>>
roles  == <<receiverRelayer, executorRelayer>>
vars   == <<clock, walrus, tables, roles>>

-----------------------------------------------------------------------------

Commitments == [blob : Blobs, epochs : Nat, deadline : Nat]
BlobObjects == [no : 1 .. MaxUploads, blob : Blobs, endEpoch : Nat]
Proofs      == [id : Ids, blob : Blobs, endEpoch : Nat, nonce : Nat]

TypeOK ==
    /\ clock \in 0 .. MaxClock
    /\ epoch \in 0 .. MaxEpoch
    /\ uploads \in 0 .. MaxUploads
    /\ held \subseteq BlobObjects
    /\ receivedIntents \in [Ids -> Commitments \union {None}]
    /\ executedIntents \in [Ids -> BlobObjects \union {None}]
    /\ proofs \subseteq Proofs
    /\ receiverRelayer \in SuiAddresses
    /\ executorRelayer \in SuiAddresses

\* Each package names its deployer as the first relayer.
Init ==
    /\ clock = 0
    /\ epoch = 0
    /\ uploads = 0
    /\ held = {}
    /\ receivedIntents = [id \in Ids |-> None]
    /\ executedIntents = [id \in Ids |-> None]
    /\ proofs = {}
    /\ receiverRelayer \in SuiAddresses
    /\ executorRelayer = receiverRelayer

-----------------------------------------------------------------------------
(* Walrus and the clock.                                                   *)

\* The object writeBlob registers and certifies now, for that many epochs.
NewBlob(blob, epochs) == [no |-> uploads + 1, blob |-> blob, endEpoch |-> epoch + epochs]

WriteBlob(blob, epochs) ==
    /\ uploads < MaxUploads
    /\ uploads' = uploads + 1
    /\ held' = held \union {NewBlob(blob, epochs)}
    /\ UNCHANGED <<clock, epoch, tables, roles>>

NextEpoch ==
    /\ epoch < MaxEpoch
    /\ epoch' = epoch + 1
    /\ UNCHANGED <<clock, uploads, held, tables, roles>>

Tick ==
    /\ clock < MaxClock
    /\ clock' = clock + 1
    /\ UNCHANGED <<walrus, tables, roles>>

-----------------------------------------------------------------------------
(* lz_receiver.                                                            *)

lz_receive(id, commitment) ==
    /\ receivedIntents[id] = None
    /\ receivedIntents' = [receivedIntents EXCEPT ![id] = commitment]
    /\ UNCHANGED <<clock, walrus, executedIntents, proofs, roles>>

\* lz_send_proof, the endpoint's send and confirm_lz_send_proof are one transaction.
\* The intent must have been received; that it was executed is not asked.
lz_send_proof(sender, id, blob, endEpoch) ==
    /\ sender = receiverRelayer
    /\ receivedIntents[id] # None
    /\ proofs' = proofs \union {[id |-> id, blob |-> blob, endEpoch |-> endEpoch,
                                 nonce |-> Cardinality(proofs) + 1]}
    /\ UNCHANGED <<clock, walrus, receivedIntents, executedIntents, roles>>

SetReceiverRelayer(address) ==
    /\ receiverRelayer' = address
    /\ UNCHANGED <<clock, walrus, tables, executorRelayer>>

-----------------------------------------------------------------------------
(* walrus_executor.                                                        *)

\* assert_deadline: execution at the deadline itself is in time.
InTime(deadline) == clock <= deadline * MsPerSecond

\* assert_reference.
Covers(object, commitment) ==
    /\ object.blob = commitment.blob
    /\ object.endEpoch >= epoch + commitment.epochs

\* The checks that precede the duplicate check: the transaction's owned input
\* object, the sender.  The object is certified.
MayExecute(sender, object) == object \in held /\ sender = executorRelayer

\* EIntentAlreadyExecuted.
AbortsAlreadyExecuted(sender, id, object) ==
    /\ MayExecute(sender, object)
    /\ executedIntents[id] # None

\* The blob and its receipt go to the original sender.
execute_store(sender, id, object) ==
    /\ MayExecute(sender, object)
    /\ executedIntents[id] = None
    /\ receivedIntents[id] # None
    /\ InTime(receivedIntents[id].deadline)
    /\ Covers(object, receivedIntents[id])
    /\ executedIntents' = [executedIntents EXCEPT ![id] = object]
    /\ held' = held \ {object}
    /\ UNCHANGED <<clock, epoch, uploads, receivedIntents, proofs, roles>>

\* update_relayer by the relayer, set_relayer by the admin.
SetExecutorRelayer(address) ==
    /\ executorRelayer' = address
    /\ UNCHANGED <<clock, walrus, tables, receiverRelayer>>

-----------------------------------------------------------------------------

\* What happens without the relayer and without LayerZero.
Environment ==
    \/ Tick
    \/ NextEpoch
    \/ \E address \in SuiAddresses : SetReceiverRelayer(address) \/ SetExecutorRelayer(address)
=============================================================================
