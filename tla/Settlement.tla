------------------------------ MODULE Settlement ------------------------------
(***************************************************************************)
(* An intent from payment to settlement: the escrow contract on the origin *)
(* chain (EvmEscrow), the contracts on Sui (SuiStore), LayerZero between   *)
(* them, and the relayer that spends WAL on the strength of the escrow and *)
(* is paid by the proof.  The two chains have clocks of their own.         *)
(*                                                                         *)
(* The relayer is one process: how several share a row is StoreQueue.      *)
(* Here a row has the columns that money depends on, its attempts follow   *)
(* each other, each call of an attempt may fail, may land although its     *)
(* answer is lost, or may outlast the attempt's timeout, and a crash       *)
(* forgets the attempt and the P&L ledger, which live in memory.           *)
(*                                                                         *)
(* LayerZero (external) delivers a packet once, in any order and at any    *)
(* time; one that reverts may be tried again.                              *)
(***************************************************************************)
EXTENDS Integers, FiniteSets

CONSTANTS
    \* EvmEscrow
    Users, Relayers, Blobs, Deadlines, Payments, Fees, MaxNonce, MaxTime,
    \* SuiStore
    SuiAddresses, None, MsPerSecond, MaxClock, MaxEpoch, MaxUploads,
    Self,               \* the relayer's address on Sui
    StorageEpochs,      \* the storage duration the intents commit
    EpochCaps,          \* caps on the duration: WALRUS_MAX_EPOCHS, max_epochs_ahead
    Costs,              \* what a store may cost the relayer at live prices
    MarginPercent,      \* BREAK_EVEN_MIN_MARGIN
    MaxStoreAttempts,   \* MAX_STORE_ATTEMPTS
    ReturnMaxAttempts,  \* RETURN_MAX_ATTEMPTS
    MaxUncounted        \* bound on the attempts that end without being counted

ASSUME SettlementAssumption ==
    /\ Payments \subseteq Nat /\ Fees \subseteq Nat /\ Deadlines \subseteq Nat
    /\ IsFiniteSet(Users) /\ IsFiniteSet(Relayers) /\ IsFiniteSet(Blobs) /\ IsFiniteSet(Deadlines)
    /\ {MaxNonce, MaxTime, MsPerSecond, MaxClock, MaxEpoch, MaxUploads, MaxUncounted}
           \subseteq Nat
    /\ Self \in SuiAddresses
    /\ StorageEpochs \in Nat
    /\ EpochCaps \subseteq Nat
    /\ Costs \subseteq Nat
    /\ MarginPercent \in Nat
    /\ MaxStoreAttempts \in Nat \ {0}
    /\ ReturnMaxAttempts \in Nat \ {0}

VARIABLES
    \* EvmEscrow
    now, nonces, intents, executed, proven, escrows, credit, balance, permit2, trustedRelayer,
    \* SuiStore
    clock, epoch, uploads, held, receivedIntents, executedIntents, proofs, receiverRelayer,
    executorRelayer,
    \* the relayer
    rows,       \* staged_intent, durable
    attempt,    \* the attempt in flight on a row
    pnl,        \* PnlLedger.entries
    uncounted   \* attempts on a row that ended and left its counter as it was

Evm == INSTANCE EvmEscrow
Sui == INSTANCE SuiStore WITH Ids <- Evm!Ids

evm     == <<now, nonces, intents, executed, proven, escrows, credit, balance, permit2,
             trustedRelayer>>
sui     == <<clock, epoch, uploads, held, receivedIntents, executedIntents, proofs,
             receiverRelayer, executorRelayer>>
relayer == <<rows, attempt, pnl, uncounted>>
vars    == <<evm, sui, relayer>>

Ids == Evm!Ids

\* A NULL column is no value.
ASSUME NoneAssumption == None \notin Sui!BlobObjects \union Sui!Commitments

-----------------------------------------------------------------------------
(* The relayer's state.                                                    *)

Row == [state    : {"absent", "active", "done", "dead", "expired"},
        blob     : Blobs,       \* id of the staged bytes
        object   : Sui!BlobObjects \union {None},
        stored   : BOOLEAN,     \* store_digest IS NOT NULL
        returned : BOOLEAN,
        attempts : Nat]

\* A guard decision: what the escrow is worth and what the store will cost.
Decisions == [collected : Nat, spent : Nat]

Attempt == [pc       : {"idle", "decline", "upload", "persistUpload", "executeStore",
                        "persistStore", "sendProof", "confirm", "markReturned", "markDone", "book",
                        "failedPre", "failedPost"},
            object   : Sui!BlobObjects \union {None},
            decision : Decisions \union {None},
            late     : BOOLEAN]   \* its timeout elapsed, store() still runs

Idle == [pc |-> "idle", object |-> None, decision |-> None, late |-> FALSE]

PnlEntries == [status : {"completed", "skipped"}, collected : Nat, spent : Nat]

RelayerTypeOK ==
    /\ rows \in [Ids -> Row]
    /\ attempt \in [Ids -> Attempt]
    /\ pnl \in [Ids -> PnlEntries \union {None}]
    /\ uncounted \in [Ids -> 0 .. MaxUncounted]

TypeOK == Evm!TypeOK /\ Sui!TypeOK /\ RelayerTypeOK

Init ==
    /\ Evm!Init
    /\ Sui!Init
    /\ rows = [id \in Ids |-> [state |-> "absent", blob |-> id.blob, object |-> None,
                               stored |-> FALSE, returned |-> FALSE, attempts |-> 0]]
    /\ attempt = [id \in Ids |-> Idle]
    /\ pnl = [id \in Ids |-> None]
    /\ uncounted = [id \in Ids |-> 0]

-----------------------------------------------------------------------------
(* Origin chain and LayerZero.                                             *)

Submit(user, blob, deadline, value, fee) ==
    /\ Evm!SubmitIntent(user, blob, deadline, value, fee)
    /\ UNCHANGED <<sui, relayer>>

\* The commitment of an intent travels from its submission until it is received.
DeliverIntent(id) ==
    /\ id \in intents
    /\ Sui!lz_receive(id, [blob |-> id.blob, epochs |-> StorageEpochs, deadline |-> id.deadline])
    /\ UNCHANGED <<evm, relayer>>

DeliverProof(proof) ==
    /\ Evm!LzReceive(proof.id, proof.blob)
    /\ UNCHANGED <<sui, relayer>>

\* Users, anyone, the owner and the clock of the origin chain.
OriginStep ==
    /\ \/ \E id \in Ids : Evm!Refund(id)
       \/ \E account \in Evm!Accounts, token \in Evm!Tokens : Evm!Withdraw(account, token)
       \/ \E address \in Relayers : Evm!SetRelayer(address)
       \/ Evm!NextBlock
    /\ UNCHANGED <<sui, relayer>>

SuiStep ==
    /\ Sui!Environment
    /\ UNCHANGED <<evm, relayer>>

-----------------------------------------------------------------------------
(* The P&L ledger: the first entry of an intent stays.                     *)

Record(id, entry) == pnl' = IF pnl[id] = None THEN [pnl EXCEPT ![id] = entry] ELSE pnl

RecordSkip(id) == Record(id, [status |-> "skipped", collected |-> 0, spent |-> 0])

RecordCompletion(id, decision) ==
    Record(id, [status |-> "completed", collected |-> decision.collected,
                spent |-> decision.spent])

-----------------------------------------------------------------------------
(* The checks of store() before it spends.                                 *)

\* The bytes and the IntentReceived event are there.
Stage(id, blob) ==
    /\ receivedIntents[id] # None
    /\ rows[id].state = "absent"
    /\ rows' = [rows EXCEPT ![id].state = "active", ![id].blob = blob]
    /\ UNCHANGED <<evm, sui, attempt, pnl, uncounted>>

\* resolveStoreEpochs: the committed duration, one epoch at least, or no store.
Storable(cap) == StorageEpochs <= cap
StoreEpochs   == IF StorageEpochs > 1 THEN StorageEpochs ELSE 1

\* ChainEscrowReader: only a pending native escrow with a value has terms.
HasTerms(id) ==
    /\ escrows[id].status = "Pending"
    /\ escrows[id].token = "native"
    /\ escrows[id].amount > 0

\* evaluateBreakEven.
Proceed(decision) == decision.collected * 100 >= decision.spent * (100 + MarginPercent)

\* What the guard may decide: nothing when it does not apply (the reader has no
\* terms, or failed to read them), else by the costs of the moment.
GuardDecisions(id) ==
    {None} \union (IF HasTerms(id)
                   THEN {[collected |-> escrows[id].amount, spent |-> cost] : cost \in Costs}
                   ELSE {})

\* Mutant: every attempt asks the guard.
GuardedAlways(id) == TRUE

\* The guard is not asked about a blob that is uploaded: its WAL is spent.
Guarded(id) == rows[id].object = None

\* The step the columns of a row let an attempt start at.
Resume(row) ==
    CASE row.object = None -> "upload"
      [] row.object # None /\ ~row.stored -> "executeStore"
      [] row.stored /\ ~row.returned -> "sendProof"
      [] row.stored /\ row.returned -> "markDone"

Claimed(id) == rows[id].state = "active" /\ attempt[id] = Idle

MarkDead(id) == rows' = [rows EXCEPT ![id].state = "dead"]

\* A reason to decline before any spend: other bytes than committed, a duration above the
\* cap, or an escrow that does not cover the cost.
Reject(id) ==
    /\ Claimed(id)
    /\ \/ rows[id].blob # id.blob
       \/ rows[id].object = None /\ \E cap \in EpochCaps : ~Storable(cap)
       \/ /\ Guarded(id)
          /\ \E cap \in EpochCaps : Storable(cap)
          /\ \E decision \in GuardDecisions(id) \ {None} : ~Proceed(decision)
    /\ attempt' = [attempt EXCEPT ![id] = [pc |-> "decline", object |-> rows[id].object,
                                           decision |-> None, late |-> FALSE]]
    /\ UNCHANGED <<evm, sui, rows, pnl, uncounted>>

\* The checks pass, or one of their reads throws.
Start(id) ==
    /\ Claimed(id)
    /\ rows[id].blob = id.blob
    /\ rows[id].object = None => \E cap \in EpochCaps : Storable(cap)
    /\ \E decision \in IF Guarded(id) THEN GuardDecisions(id) ELSE {None},
          pc \in {Resume(rows[id]), "failedPre"} :
          /\ decision # None => Proceed(decision)
          /\ attempt' = [attempt EXCEPT ![id] = [pc |-> pc, object |-> rows[id].object,
                                                 decision |-> decision, late |-> FALSE]]
    /\ UNCHANGED <<evm, sui, rows, pnl, uncounted>>

-----------------------------------------------------------------------------
(* The rest of store(), call by call.                                      *)

Goto(id, pc) == attempt' = [attempt EXCEPT ![id].pc = pc]

\* The call took effect; its answer comes back or is lost.
Landed(id, pc) == \E next \in {pc, "failedPre"} : Goto(id, next)

\* Dead-letters the declined row; all but other bytes are then entered as skipped.  When
\* the answer is lost, markDead throws and there is no entry.
Decline(id) ==
    /\ attempt[id].pc = "decline"
    /\ MarkDead(id)
    /\ \/ /\ IF rows[id].blob = id.blob THEN RecordSkip(id) ELSE UNCHANGED pnl
          /\ attempt' = [attempt EXCEPT ![id] = Idle]
       \/ Goto(id, "failedPre") /\ UNCHANGED pnl
    /\ UNCHANGED <<evm, sui, uncounted>>

\* The object it registers is the relayer's even when the answer is lost.
Upload(id) ==
    /\ attempt[id].pc = "upload"
    /\ Sui!WriteBlob(rows[id].blob, StoreEpochs)
    /\ \E pc \in {"persistUpload", "failedPre"} :
          attempt' = [attempt EXCEPT ![id].pc = pc,
                                     ![id].object = Sui!NewBlob(rows[id].blob, StoreEpochs)]
    /\ UNCHANGED <<evm, rows, pnl, uncounted>>

PersistUpload(id) ==
    /\ attempt[id].pc = "persistUpload"
    /\ rows' = [rows EXCEPT ![id].object = attempt[id].object]
    /\ Landed(id, "executeStore")
    /\ UNCHANGED <<evm, sui, pnl, uncounted>>

\* Mutant: any abort of execute_store counts as already executed.
ExecuteStoreSwallowsAborts(id) ==
    /\ attempt[id].pc = "executeStore"
    /\ \/ Sui!execute_store(Self, id, attempt[id].object) /\ Landed(id, "persistStore")
       \/ Goto(id, "persistStore") /\ UNCHANGED sui
    /\ UNCHANGED <<evm, rows, pnl, uncounted>>

\* Abort code 2 means that an earlier attempt recorded the intent.
ExecuteStore(id) ==
    /\ attempt[id].pc = "executeStore"
    /\ \/ Sui!execute_store(Self, id, attempt[id].object) /\ Landed(id, "persistStore")
       \/ /\ Sui!AbortsAlreadyExecuted(Self, id, attempt[id].object)
          /\ Goto(id, "persistStore")
          /\ UNCHANGED sui
    /\ UNCHANGED <<evm, rows, pnl, uncounted>>

PersistStore(id) ==
    /\ attempt[id].pc = "persistStore"
    /\ rows' = [rows EXCEPT ![id].stored = TRUE]
    /\ Landed(id, "sendProof")
    /\ UNCHANGED <<evm, sui, pnl, uncounted>>

\* quoteLzFee: it checks the send path, simulates the send and reads the fee.  When it
\* throws, nothing was sent; the confirmation follows.
QuoteFails(id) == Goto(id, "confirm") /\ UNCHANGED sui

\* lzSendProof.  An error leads to the confirmation, also when the packet has left.
SendProof(id) ==
    /\ attempt[id].pc = "sendProof"
    /\ \/ /\ Sui!lz_send_proof(Self, id, attempt[id].object.blob, attempt[id].object.endEpoch)
          /\ \E pc \in {"markReturned", "confirm"} : Goto(id, pc)
       \/ QuoteFails(id)
    /\ UNCHANGED <<evm, rows, pnl, uncounted>>

\* confirmExecution by the relayer's wallet, the contract's owner.
Confirm(id) ==
    /\ attempt[id].pc = "confirm"
    /\ \/ Evm!ConfirmExecution(id) /\ \E pc \in {"markReturned", "failedPost"} : Goto(id, pc)
       \/ Goto(id, "failedPost") /\ UNCHANGED evm
    /\ UNCHANGED <<sui, rows, pnl, uncounted>>

MarkReturned(id) ==
    /\ attempt[id].pc = "markReturned"
    /\ rows' = [rows EXCEPT ![id].returned = TRUE]
    /\ Landed(id, "markDone")
    /\ UNCHANGED <<evm, sui, pnl, uncounted>>

MarkDone(id) ==
    /\ attempt[id].pc = "markDone"
    /\ rows' = [rows EXCEPT ![id].state = "done"]
    /\ Landed(id, "book")
    /\ UNCHANGED <<evm, sui, pnl, uncounted>>

\* Only an attempt that asked the guard has amounts to book.
Book(id) ==
    /\ attempt[id].pc = "book"
    /\ IF attempt[id].decision = None THEN UNCHANGED pnl
                                      ELSE RecordCompletion(id, attempt[id].decision)
    /\ attempt' = [attempt EXCEPT ![id] = Idle]
    /\ UNCHANGED <<evm, sui, rows, uncounted>>

\* A call of store() outside the return leg fails and has no effect.
CallFails(id) ==
    /\ attempt[id].pc \in {"decline", "upload", "persistUpload", "executeStore", "persistStore",
                           "markReturned", "markDone"}
    /\ Goto(id, "failedPre")
    /\ UNCHANGED <<evm, sui, rows, pnl, uncounted>>

-----------------------------------------------------------------------------
(* runStore(): failures, timeouts, crashes; the reaper.                    *)

\* Mutant: the reschedule forgets to count the attempt.
RetryOrBuryUncounted(id, limit) ==
    rows' = [rows EXCEPT ![id].state = IF rows[id].attempts + 1 >= limit THEN "dead" ELSE @]

\* The attempt counts; the last one buries the row.
RetryOrBury(id, limit) ==
    rows' = IF rows[id].attempts + 1 >= limit
            THEN [rows EXCEPT ![id].state = "dead"]
            ELSE [rows EXCEPT ![id].attempts = @ + 1]

\* Not counted: the write failed, or the process crashed before it.
Uncounted(id) ==
    /\ uncounted[id] < MaxUncounted
    /\ uncounted' = [uncounted EXCEPT ![id] = @ + 1]
    /\ UNCHANGED rows

Count(id, limit) == (RetryOrBury(id, limit) /\ UNCHANGED uncounted) \/ Uncounted(id)

\* The catch block; after a timeout it has run already.
HandleFailure(id) ==
    /\ attempt[id].pc \in {"failedPre", "failedPost"}
    /\ IF attempt[id].late
       THEN UNCHANGED <<rows, uncounted>>
       ELSE Count(id, IF attempt[id].pc = "failedPost" THEN ReturnMaxAttempts
                                                       ELSE MaxStoreAttempts)
    /\ attempt' = [attempt EXCEPT ![id] = Idle]
    /\ UNCHANGED <<evm, sui, pnl>>

TimesOut(id) ==
    /\ attempt[id].pc \notin {"idle", "book", "failedPre", "failedPost"}
    /\ ~attempt[id].late
    /\ Count(id, MaxStoreAttempts)
    /\ attempt' = [attempt EXCEPT ![id].late = TRUE]
    /\ UNCHANGED <<evm, sui, pnl>>

\* The attempts and the P&L ledger are in memory.
Crash ==
    /\ \E id \in Ids : attempt[id] # Idle
    /\ \A id \in Ids : attempt[id] # Idle => uncounted[id] < MaxUncounted
    /\ uncounted' = [id \in Ids |-> IF attempt[id] = Idle THEN uncounted[id]
                                                          ELSE uncounted[id] + 1]
    /\ attempt' = [id \in Ids |-> Idle]
    /\ pnl' = [id \in Ids |-> None]
    /\ UNCHANGED <<evm, sui, rows>>

\* The reaper expires active rows by their deadline.
Expire(id) ==
    /\ rows[id].state = "active"
    /\ ~Sui!InTime(id.deadline)
    /\ rows' = [rows EXCEPT ![id].state = "expired"]
    /\ UNCHANGED <<evm, sui, attempt, pnl, uncounted>>

-----------------------------------------------------------------------------

Pipeline(id) ==
    \/ Upload(id) \/ PersistUpload(id) \/ ExecuteStore(id) \/ PersistStore(id)
    \/ SendProof(id) \/ Confirm(id) \/ MarkReturned(id) \/ MarkDone(id) \/ Book(id)

RelayerStep(id) ==
    \/ \E blob \in Blobs : Stage(id, blob)
    \/ Reject(id)
    \/ Decline(id)
    \/ Start(id)
    \/ Pipeline(id)
    \/ CallFails(id)
    \/ HandleFailure(id)
    \/ TimesOut(id)
    \/ Expire(id)

Next ==
    \/ \E user \in Users, blob \in Blobs, deadline \in Deadlines, value \in Payments, fee \in Fees :
           Submit(user, blob, deadline, value, fee)
    \/ \E id \in Ids : DeliverIntent(id) \/ RelayerStep(id)
    \/ \E proof \in proofs : DeliverProof(proof)
    \/ OriginStep
    \/ SuiStep
    \/ Crash

Spec == Init /\ [][Next]_vars

-----------------------------------------------------------------------------
(* Safety.                                                                 *)

\* The system keeps the bargain: the relayer is paid only for an intent whose blob
\* execute_store has accepted, and each payment is given to one side once.
Bargain ==
    INSTANCE StorageBargain
        WITH stored  <- {id \in Ids : executedIntents[id] # None},
             payment <- [id \in Ids |-> CASE escrows[id].status = "None"     -> "none"
                                          [] escrows[id].status = "Pending"  -> "held"
                                          [] escrows[id].status = "Released" -> "relayer"
                                          [] escrows[id].status = "Refunded" -> "payer"]

\* (See Bargain.)  The composition implements StorageBargain.
KeepsTheBargain == Bargain!Spec

\* Every proof packet is one the origin chain accepts while the intent is neither
\* executed nor refunded: it names a submitted intent and the committed blob, however
\* the upload and its retries went.
ProofsAreAcceptable == \A proof \in proofs : proof.id \in intents /\ proof.blob = proof.id.blob

\* The cap on the return leg bounds the packets of an intent: one for each attempt the
\* limits allow and for each attempt that was lost uncounted.
ProofPacketsBounded ==
    LET limit == IF MaxStoreAttempts > ReturnMaxAttempts THEN MaxStoreAttempts
                                                         ELSE ReturnMaxAttempts
    IN  \A id \in Ids : Cardinality({p \in proofs : p.id = id}) <= limit + uncounted[id]

\* The P&L ledger agrees with the chains: a completed entry has no loss and belongs to an
\* intent stored on Sui and answered; a skipped intent was not stored and not paid for.
BooksAreHonest ==
    \A id \in Ids : pnl[id] # None =>
        IF pnl[id].status = "completed"
        THEN /\ pnl[id].collected >= pnl[id].spent
             /\ executedIntents[id] # None
             /\ id \in executed \/ \E p \in proofs : p.id = id
        ELSE executedIntents[id] = None /\ escrows[id].status # "Released"

-----------------------------------------------------------------------------
(* What the repository says and the code does not keep.                    *)

\* What is booked as collected stays collected: the escrow of a completed intent is
\* never refunded.
BookedNeverRefunded ==
    \A id \in Ids : pnl[id] # None /\ pnl[id].status = "completed" =>
        escrows[id].status # "Refunded"

\* The stored duration covers the commitment: a blob that is uploaded for an intent is
\* one execute_store accepts as long as the intent is not executed.
UploadCoversCommitment ==
    \A id \in Ids : rows[id].object # None /\ executedIntents[id] = None =>
        Sui!Covers(rows[id].object, receivedIntents[id])
=============================================================================
