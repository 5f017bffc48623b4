-------------------------------- MODULE Client --------------------------------
(***************************************************************************)
(* The SDK: store() and storePriced() calls of one wallet, some at the     *)
(* same time, on the EVM and the Solana client.  A call encodes the data,  *)
(* reads the fees, submits the intent, uploads the bytes and polls for the *)
(* proof; every await is a boundary between two steps.  The chains and the *)
(* relayer appear by the answers they give (EvmEscrow, SolanaAdapter and   *)
(* Intake model them); answers can be late, missing or errors.             *)
(*                                                                         *)
(* One blob per call, so a call's name stands for its blob id.  Amounts    *)
(* and waits are small numbers of units.                                   *)
(***************************************************************************)
EXTENDS Integers, Sequences, FiniteSets

CONSTANTS
    Calls,              \* store() calls the application may make
    Starts,             \* what a call may be: <<call, chain, priced, data>>
    Fees,               \* LayerZero fees the endpoint may ask
    FeeCap,             \* the Solana client's nativeFee
    Escrow,             \* the relayer-fronted bucket of a quote
    MaxAttempts,        \* retry policy: attempts, time, first and longest delay
    MaxElapsed, BaseDelay, MaxDelay,
    RetryAfters,        \* Retry-After values the relayer may send
    MaxPolls,           \* proof polls before timeoutMs
    MaxFaults,          \* bound on errors, lost answers and cancellations
    MaxFeeMoves,        \* bound on changes of the LayerZero fee
    MaxResumes          \* bound on calls the application takes up again

Chains == {"evm", "solana"}
Data   == {"bytes", "empty", "oversized"}   \* oversized: over the relayer's limit

ASSUME ConstantsAssumption ==
    /\ Starts \subseteq Calls \X Chains \X BOOLEAN \X Data
    /\ Fees \subseteq Nat \ {0} /\ Fees # {}
    /\ RetryAfters \subseteq Nat
    /\ {FeeCap, Escrow, MaxAttempts, MaxPolls, BaseDelay} \subseteq Nat \ {0}
    /\ {MaxElapsed, MaxDelay, MaxFaults, MaxFeeMoves, MaxResumes} \subseteq Nat

VARIABLES
    call,       \* the calls
    intents,    \* each chain's intents of this wallet, in the order of their nonces
    fee,        \* the LayerZero fee the endpoint asks now
    aborted,    \* calls whose signal has been aborted
    hung,       \* calls that wait for an answer that never comes
    faults, moves, resumes

vars == <<call, intents, fee, aborted, hung, faults, moves, resumes>>

NoId   == <<>>
NoFee  == -1

Max2(a, b) == IF a >= b THEN a ELSE b
Min2(a, b) == IF a <= b THEN a ELSE b

-----------------------------------------------------------------------------
(* State.                                                                  *)

StoreProgress == {"none", "encoded", "quoted", "submitted", "uploaded", "proven"}

Call == [pc : {"idle", "encode", "fee", "price", "nonce", "send", "confirm", "upload",
               "await", "read", "done", "failed"},
         chain : Chains, priced : BOOLEAN, data : Data,
         forward : Fees \union {FeeCap, NoFee},   \* the forward fee read or quoted
         upper : BOOLEAN,                          \* forwardIsUpperBound
         nonce : Nat, attempt : 1..MaxAttempts, elapsed : 0..MaxElapsed,
         polls : 0..MaxPolls, id : {NoId} \union (Chains \X (Nat \ {0})),
         progress : StoreProgress, epoch : 0..1,
         lostAnswer : BOOLEAN]                     \* ghost: sent, and never told
NewCall == [pc |-> "idle", chain |-> "evm", priced |-> FALSE, data |-> "bytes",
            forward |-> NoFee, upper |-> FALSE, nonce |-> 0, attempt |-> 1, elapsed |-> 0,
            polls |-> 0, id |-> NoId, progress |-> "none", epoch |-> 0, lostAnswer |-> FALSE]

\* An intent as the chain and the relayer see it: submitted, seen by the watcher,
\* stored on Walrus, proven on the origin chain, and its proof out of reach of the
\* client's log query.
Stages == {"submitted", "known", "stored", "executed", "pruned"}
Intent == [call : Calls, fee : Fees, escrow : Nat, stage : Stages,
           past : BOOLEAN, accepted : BOOLEAN]
IsStored(i) == i.stage \in {"stored", "executed", "pruned"}
IsExecuted(i) == i.stage \in {"executed", "pruned"}
ProvenEpoch(i) == IF IsExecuted(i) THEN 1 ELSE 0

TypeOK ==
    /\ call \in [Calls -> Call]
    /\ \A ch \in Chains : intents[ch] \in Seq(Intent)
    /\ fee \in Fees
    /\ aborted \subseteq Calls /\ hung \subseteq Calls
    /\ faults \in 0..MaxFaults /\ moves \in 0..MaxFeeMoves /\ resumes \in 0..MaxResumes

Init ==
    /\ call = [c \in Calls |-> NewCall]
    /\ intents = [ch \in Chains |-> <<>>]
    /\ fee \in Fees
    /\ aborted = {} /\ hung = {}
    /\ faults = 0 /\ moves = 0 /\ resumes = 0

Ids == {<<ch, n>> : ch \in Chains, n \in 1..Cardinality(Calls)}
Exists(id) == id[2] \in DOMAIN intents[id[1]]
At(id) == intents[id[1]][id[2]]
Set(id, r) == intents' = [intents EXCEPT ![id[1]][id[2]] = r]

Go(c, pc) == call' = [call EXCEPT ![c].pc = pc]
\* The counters of a loop start afresh.
Fresh(r) == [r EXCEPT !.attempt = 1, !.elapsed = 0, !.polls = 0]
\* The call rejects; what it knows and has reported stays with the application.
Fail(c) == call' = [call EXCEPT ![c] = Fresh([@ EXCEPT !.pc = "failed"])]
Fault == faults < MaxFaults /\ faults' = faults + 1
NoFault == UNCHANGED faults

-----------------------------------------------------------------------------
(* The relayer's HTTP answers and the retry loop.                          *)

isRetryableStatus(status) == status \in {408, 429, 500, 503}
\* RelayerUploadError and RelayerRequestError: what their `retryable` says.
RelayerUploadError(status) == status = 404 \/ isRetryableStatus(status)
RelayerRequestError(status) == isRetryableStatus(status)
\* A dropped connection, a timeout, a rate limit or a 5xx, and not a revert.
isTransientRpcError(error) == error = "transient"
RpcErrors == {"transient", "revert"}

\* Retry-After is sent with a 429 or a 503, when at all.
readRetryAfterMs(status) == {NoFee} \union (IF status \in {429, 503} THEN RetryAfters ELSE {})

\* Mutant: one attempt too many.
RetriesOnceMore(n, elapsed, retryable, retryAfter) ==
    LET backoff == Min2(MaxDelay, BaseDelay * 2^(n - 1))
        delay   == IF retryAfter >= 0 THEN retryAfter ELSE backoff
    IN  IF n > MaxAttempts \/ ~retryable \/ elapsed + delay > MaxElapsed THEN -1 ELSE delay

\* What follows a failed attempt n: the delay before the next, or -1 to rethrow.
withRelayerRetry(n, elapsed, retryable, retryAfter) ==
    LET backoff == Min2(MaxDelay, BaseDelay * 2^(n - 1))
        delay   == IF retryAfter >= 0 THEN retryAfter ELSE backoff
    IN  IF n >= MaxAttempts \/ ~retryable \/ elapsed + delay > MaxElapsed THEN -1 ELSE delay

\* A failed attempt of the loop at pc: sleep and go round, or reject.
Retry(c, retryable, retryAfter) ==
    LET delay == withRelayerRetry(call[c].attempt, call[c].elapsed, retryable, retryAfter)
    IN  IF delay = -1 \/ c \in aborted THEN Fail(c)
        ELSE call' = [call EXCEPT ![c].attempt = @ + 1, ![c].elapsed = @ + delay]

-----------------------------------------------------------------------------
(* encode and quote.                                                       *)

store(c, ch, priced, data) ==
    /\ call[c].pc = "idle"
    /\ <<c, ch, priced, data>> \in Starts
    /\ call' = [call EXCEPT ![c] = [NewCall EXCEPT !.pc = "encode", !.chain = ch,
                                                   !.priced = priced, !.data = data]]
    /\ UNCHANGED <<intents, fee, aborted, faults, moves, resumes>>

\* The one-call flows, by their awaits.  A Solana store has no fee to read.
EvmStore == <<"encode", "fee", "send", "confirm", "upload", "await", "read", "done">>
EvmStorePriced ==
    <<"encode", "fee", "price", "send", "confirm", "upload", "await", "read", "done">>
SolanaStore == <<"encode", "nonce", "send", "confirm", "upload", "await", "done">>
SolanaStorePriced ==
    <<"encode", "fee", "price", "nonce", "send", "confirm", "upload", "await", "done">>

Flow(c) == IF call[c].chain = "evm" THEN IF call[c].priced THEN EvmStorePriced ELSE EvmStore
           ELSE IF call[c].priced THEN SolanaStorePriced ELSE SolanaStore

\* The call goes on to the next await, with `r` as what it knows by now.
Proceed(c, r) ==
    LET n == CHOOSE k \in DOMAIN Flow(c) : Flow(c)[k] = call[c].pc
    IN  call' = [call EXCEPT ![c] = Fresh([r EXCEPT !.pc = Flow(c)[n + 1]])]

\* encodeIntent() with the blob id computed locally, which takes no signal, or by
\* the relayer's /blob/encode; the id is that of the data, or the call rejects.
encodeIntent(c) ==
    /\ call[c].pc = "encode"
    /\ \/ (call[c].data = "empty" \/ c \in aborted) /\ Fail(c)
       \/ call[c].data # "empty" /\ Proceed(c, [call[c] EXCEPT !.progress = "encoded"])
    /\ UNCHANGED <<intents, fee, aborted, faults, moves, resumes>>

\* An answer of /blob/encode that is not an encoding.
relayerComputeBlob(c) ==
    /\ call[c].pc = "encode"
    /\ call[c].data # "empty"
    /\ Fault
    /\ \/ \E status \in {413, 429, 500} : \E after \in readRetryAfterMs(status) :
             Retry(c, RelayerRequestError(status), after)
       \/ \E error \in RpcErrors : Retry(c, isTransientRpcError(error), NoFee)
       \/ Fail(c)                              \* unparseable, no blob id or wrong size
    /\ UNCHANGED <<intents, fee, aborted, moves, resumes>>

\* The EVM client reads the fee from the adapter; a view that fails rejects.
quote(c) ==
    /\ call[c].pc = "fee"
    /\ call[c].chain = "evm"
    /\ \/ NoFault /\ Proceed(c, [call[c] EXCEPT !.forward = fee])
       \/ Fault /\ Fail(c)
    /\ UNCHANGED <<intents, fee, aborted, moves, resumes>>

\* The live fee, simulated locally, or served by the relayer from a simulation that
\* may predate the last move; null when neither is on offer.  Any other failure is
\* thrown.
quoteSolanaLzFee == {fee}
fetchSolanaLzFee == IF moves = 0 THEN {fee} ELSE Fees
resolveSolanaLzFee == quoteSolanaLzFee \union fetchSolanaLzFee \union {NoFee}

\* priceQuote() of the Solana client, up to fetchQuote.
priceQuote(c) ==
    /\ call[c].pc = "fee"
    /\ call[c].chain = "solana"
    /\ \/ /\ NoFault
          /\ \E live \in resolveSolanaLzFee :
                Proceed(c, [call[c] EXCEPT !.upper = (live = NoFee),
                                           !.forward = IF live = NoFee THEN FeeCap ELSE live])
       \/ Fault /\ Fail(c)
    /\ UNCHANGED <<intents, fee, aborted, moves, resumes>>

\* POST /quote: one attempt, and any answer that is not a quote rejects.
fetchQuote(c) ==
    /\ call[c].pc = "price"
    /\ \/ /\ NoFault
          /\ IF c \in aborted THEN Fail(c)
             ELSE Proceed(c, [call[c] EXCEPT !.progress = "quoted"])
       \/ Fault /\ Fail(c)
    /\ UNCHANGED <<intents, fee, aborted, moves, resumes>>

QuotedEscrow(c) == IF call[c].priced THEN Escrow ELSE 0

-----------------------------------------------------------------------------
(* submit.                                                                 *)

\* The Solana backend derives the intent id from the nonce it reads here.
currentNonce(c) ==
    /\ call[c].pc = "nonce"
    /\ \/ /\ NoFault
          /\ Proceed(c, [call[c] EXCEPT !.nonce = Len(intents["solana"])])
       \/ Fault /\ Fail(c)
    /\ UNCHANGED <<intents, fee, aborted, moves, resumes>>

NewIntent(c, escrow) ==
    [call |-> c, fee |-> fee, escrow |-> escrow, stage |-> "submitted", past |-> FALSE,
     accepted |-> FALSE]

\* A transaction that succeeds, with the escrow it leaves on chain.
Land(c, escrow) ==
    /\ intents' = [intents EXCEPT ![call[c].chain] = Append(@, NewIntent(c, escrow))]
    /\ Proceed(c, call[c])
    /\ UNCHANGED <<fee, aborted, faults, moves, resumes>>

\* The value of the EVM transaction: the quoted escrow and forward fee.
submitPaid(c) == QuotedEscrow(c) + call[c].forward
EvmLands(c) == call[c].chain = "evm" /\ submitPaid(c) >= fee

\* Mutant: the whole value is escrowed and the fee asked on top.
FeeOnTop(c) ==
    /\ call[c].pc = "send"
    /\ EvmLands(c)
    /\ Land(c, submitPaid(c))

\* The EVM adapter forwards the fee it quotes now and escrows the rest of the value.
submit(c) ==
    /\ call[c].pc = "send"
    /\ EvmLands(c)
    /\ Land(c, submitPaid(c) - fee)

\* submitPaid() of the Solana client: the bound on the fee it passes.
nativeFee(c) == IF call[c].priced THEN Max2(call[c].forward, FeeCap) ELSE FeeCap
\* The program takes the intent account of the nonce it holds, and no other.
AccountMatches(c) == call[c].nonce = Len(intents["solana"])
SolanaLands(c) == call[c].chain = "solana" /\ AccountMatches(c) /\ nativeFee(c) >= fee

\* Mutant: the program does not tie the intent account to the nonce it holds.
AnyNonce(c) ==
    /\ call[c].pc = "send"
    /\ call[c].chain = "solana" /\ nativeFee(c) >= fee
    /\ Land(c, QuotedEscrow(c))

submitIntent(c) ==
    /\ call[c].pc = "send"
    /\ SolanaLands(c)
    /\ Land(c, QuotedEscrow(c))

\* The wallet declines, the transaction reverts or never lands: the call rejects.
SubmitFails(c) ==
    /\ call[c].pc = "send"
    /\ \/ ~EvmLands(c) /\ ~SolanaLands(c) /\ NoFault
       \/ (EvmLands(c) \/ SolanaLands(c)) /\ Fault
    /\ Fail(c)
    /\ UNCHANGED <<intents, fee, aborted, moves, resumes>>

\* The confirmation arrives and the id is reported, whatever the signal says.
Confirmed(c, id) ==
    /\ Proceed(c, [call[c] EXCEPT !.id = id, !.nonce = 0, !.progress = "submitted"])
    /\ UNCHANGED <<intents, fee, aborted, faults, moves, resumes>>

\* The id in the receipt's event.
extractIntentId(c) ==
    <<"evm", CHOOSE n \in DOMAIN intents["evm"] : intents["evm"][n].call = c>>

\* Mutant: the signal is looked at between the confirmation and the report.
ConfirmUnlessAborted(c) ==
    /\ call[c].pc = "confirm"
    /\ call[c].chain = "evm"
    /\ IF c \in aborted
       THEN Fail(c) /\ UNCHANGED <<intents, fee, aborted, faults, moves, resumes>>
       ELSE Confirmed(c, extractIntentId(c))

submitWithValue(c) ==
    /\ call[c].pc = "confirm"
    /\ call[c].chain = "evm"
    /\ Confirmed(c, extractIntentId(c))

\* The Solana backend returns the id it derived before it sent.  The event of the
\* landed transaction must agree with it, when the node serves the transaction.
signAndSend(c) ==
    /\ call[c].pc = "confirm"
    /\ call[c].chain = "solana"
    /\ Confirmed(c, <<"solana", call[c].nonce + 1>>)

\* The answer to a transaction that landed is lost, or has no event in it.
ConfirmLost(c) ==
    /\ call[c].pc = "confirm"
    /\ Fault
    /\ call' = [call EXCEPT ![c].pc = "failed", ![c].lostAnswer = TRUE]
    /\ UNCHANGED <<intents, fee, aborted, moves, resumes>>

-----------------------------------------------------------------------------
(* upload.                                                                 *)

\* The relayer's answers to POST /blob/:intentId, apart from a busy relayer's.
BlobAnswer(c) ==
    LET i == At(call[c].id)
    IN  CASE i.stage = "submitted"          -> 404
          [] IsStored(i)                   -> 409
          [] i.past                       -> 410
          [] call[c].data = "oversized"   -> 413
          [] OTHER                        -> 200

Accept(c, status) ==
    IF status = 200 THEN Set(call[c].id, [At(call[c].id) EXCEPT !.accepted = TRUE])
                    ELSE UNCHANGED intents

Uploaded(c) == Proceed(c, [call[c] EXCEPT !.progress = "uploaded"])

\* One attempt that is answered.  A 409 to a retry counts as success.
uploadBlob(c) ==
    /\ call[c].pc = "upload"
    /\ c \notin aborted
    /\ LET status == BlobAnswer(c)
       IN  /\ Accept(c, status)
           /\ IF status = 200 \/ (status = 409 /\ call[c].attempt >= 2)
              THEN Uploaded(c) ELSE Retry(c, RelayerUploadError(status), NoFee)
    /\ UNCHANGED <<fee, aborted, faults, moves, resumes>>

\* A busy relayer, or an answer that is lost: the bytes may have been accepted.
UploadFails(c) ==
    /\ call[c].pc = "upload"
    /\ Fault
    /\ \/ /\ \E status \in {429, 500, 503} : \E after \in readRetryAfterMs(status) :
                Retry(c, RelayerUploadError(status), after)
          /\ UNCHANGED intents
       \/ \E error \in RpcErrors, status \in {0, BlobAnswer(c)} :
             Retry(c, isTransientRpcError(error), NoFee) /\ Accept(c, status)
    /\ UNCHANGED <<fee, aborted, moves, resumes>>

-----------------------------------------------------------------------------
(* awaitProof.                                                             *)

Result(c) == Proceed(c, [call[c] EXCEPT !.progress = "proven",
                                        !.epoch = ProvenEpoch(At(call[c].id))])
\* Another poll, or a ProofTimeoutError past the deadline.
ProofTimeoutError(c) == call[c].polls = MaxPolls
PollAgain(c) == IF ProofTimeoutError(c) THEN Fail(c)
                ELSE call' = [call EXCEPT ![c].polls = @ + 1]

\* Mutant: the deadline is not looked at.
AwaitForever(c) ==
    /\ call[c].pc = "await"
    /\ call[c].chain = "evm"
    /\ c \notin aborted
    /\ IF IsExecuted(At(call[c].id)) THEN Proceed(c, call[c]) ELSE UNCHANGED call
    /\ UNCHANGED <<intents, fee, aborted, faults, moves, resumes>>

\* One poll of executed() on the EVM adapter.
awaitProof(c) ==
    /\ call[c].pc = "await"
    /\ call[c].chain = "evm"
    /\ c \notin aborted
    /\ IF IsExecuted(At(call[c].id)) THEN Proceed(c, call[c]) ELSE PollAgain(c)
    /\ UNCHANGED <<intents, fee, aborted, faults, moves, resumes>>

\* One poll of the Solana intent account, which holds the proof.
readIntent(c) ==
    /\ call[c].pc = "await"
    /\ call[c].chain = "solana"
    /\ c \notin aborted
    /\ IF IsExecuted(At(call[c].id)) THEN Result(c) ELSE PollAgain(c)
    /\ UNCHANGED <<intents, fee, aborted, faults, moves, resumes>>

\* A poll that fails: a transient error is one poll lost, any other rejects.
PollFails(c) ==
    /\ call[c].pc = "await"
    /\ Fault
    /\ \E error \in RpcErrors :
          IF isTransientRpcError(error) THEN PollAgain(c) ELSE Fail(c)
    /\ UNCHANGED <<intents, fee, aborted, moves, resumes>>

\* queryProof() of the EVM adapter finds the event only in the last blocks; the
\* reads behind a true executed() are not retried.
queryProof(c) == At(call[c].id).stage # "pruned"

readEndEpoch(c) ==
    /\ call[c].pc = "read"
    /\ \/ NoFault /\ IF queryProof(c) THEN Result(c) ELSE Fail(c)
       \/ Fault /\ Fail(c)
    /\ UNCHANGED <<intents, fee, aborted, moves, resumes>>

-----------------------------------------------------------------------------
(* The application cancels a call, or takes a rejected one up again.       *)

Active(c) == call[c].pc \notin {"idle", "done", "failed"}

abort(c) ==
    /\ Active(c)
    /\ c \notin aborted
    /\ Fault
    /\ aborted' = aborted \union {c}
    /\ UNCHANGED <<call, intents, fee, moves, resumes>>

\* sleep() and throwIfAborted(): a loop that waits ends with the signal.
throwIfAborted(c) ==
    /\ call[c].pc \in {"upload", "await"}
    /\ c \in aborted
    /\ Fail(c)
    /\ UNCHANGED <<intents, fee, aborted, faults, moves, resumes>>

\* No answer comes to the call's await: the wallet's prompt stays open, the
\* transaction stays pending or is dropped, a request or a read stays unanswered.
\* The SDK gives none of these awaits a timeout.
Hangs(c) ==
    /\ Active(c)
    /\ c \notin hung
    /\ hung' = hung \union {c}
    /\ UNCHANGED <<call, intents, fee, aborted, faults, moves, resumes>>

\* Mutant: the upload's requests are not given the signal.
UploadIgnoresSignal(pc) == pc \in {"encode", "price"}

\* Only the requests to the relayer are given the signal, and reject with it.  The
\* wallet, tx.wait() and the chains' views know nothing of it.
TakesSignal(pc) == pc \in {"encode", "price", "upload"}

Cancelled(c) ==
    /\ c \in hung \intersect aborted
    /\ TakesSignal(call[c].pc)
    /\ Fail(c)
    /\ hung' = hung \ {c}
    /\ UNCHANGED <<intents, fee, aborted, faults, moves, resumes>>

\* upload(intentId) or awaitProof(intentId), for a call that rejected after its
\* id was reported.
resume(c) ==
    /\ call[c].pc = "failed"
    /\ call[c].id # NoId
    /\ resumes < MaxResumes
    /\ resumes' = resumes + 1
    /\ aborted' = aborted \ {c}
    /\ call' = [call EXCEPT ![c].pc = IF call[c].progress = "submitted" THEN "upload"
                                      ELSE "await"]
    /\ UNCHANGED <<intents, fee, faults, moves>>

-----------------------------------------------------------------------------
(* The chains and the relayer.                                             *)

\* The fee moves; only a call that has yet to submit can tell.
FeeMoves ==
    /\ moves < MaxFeeMoves
    /\ \E c \in Calls : call[c].pc \in {"price", "nonce", "send"}
    /\ moves' = moves + 1
    /\ fee' \in Fees \ {fee}
    /\ UNCHANGED <<call, intents, aborted, faults, resumes>>

Changes(id, r) ==
    /\ Set(id, r)
    /\ UNCHANGED <<call, fee, aborted, faults, moves, resumes>>
Advance(id, from, to) ==
    /\ Exists(id)
    /\ At(id).stage = from
    /\ Changes(id, [At(id) EXCEPT !.stage = to])

\* The watcher records the commitment.
Watched(id) == Advance(id, "submitted", "known")

\* The blob is on Walrus, from the uploaded bytes or from another copy of it.
Stored(id) == Advance(id, "known", "stored") /\ ~At(id).past

\* The proof is back on the origin chain; later its event falls out of the blocks
\* the client looks back over.
Proven(id) == Advance(id, "stored", "executed")
LogPruned(id) == id[1] = "evm" /\ Advance(id, "executed", "pruned")

\* The deadline passes; once the blob is stored it no longer matters to the calls.
DeadlinePasses(id) ==
    /\ Exists(id)
    /\ ~At(id).past
    /\ ~IsStored(At(id))
    /\ Changes(id, [At(id) EXCEPT !.past = TRUE])

-----------------------------------------------------------------------------
\* What a call does when its await is answered.
Step(c) ==
    \/ encodeIntent(c) \/ quote(c) \/ priceQuote(c) \/ fetchQuote(c) \/ currentNonce(c)
    \/ submit(c) \/ submitIntent(c) \/ SubmitFails(c) \/ submitWithValue(c) \/ signAndSend(c)
    \/ uploadBlob(c) \/ awaitProof(c) \/ readIntent(c) \/ readEndEpoch(c)
    \/ throwIfAborted(c)
Answered(c) == c \notin hung /\ UNCHANGED hung
Own(c) == (Answered(c) /\ Step(c)) \/ Cancelled(c)

Next ==
    \/ \E c \in Calls, ch \in Chains, priced \in BOOLEAN, data \in Data :
          store(c, ch, priced, data) /\ UNCHANGED hung
    \/ \E c \in Calls :
          \/ Own(c) \/ Hangs(c)
          \/ Answered(c) /\ (\/ relayerComputeBlob(c) \/ ConfirmLost(c)
                             \/ UploadFails(c) \/ PollFails(c))
          \/ (abort(c) \/ resume(c)) /\ UNCHANGED hung
    \/ /\ \/ FeeMoves
          \/ \E id \in Ids : \/ Watched(id) \/ Stored(id) \/ Proven(id)
                             \/ DeadlinePasses(id) \/ LogPruned(id)
       /\ UNCHANGED hung

Spec == Init /\ [][Next]_vars

\* A call whose await is answered goes on, and its timers fire: JavaScript runs the
\* continuation of a settled promise.  That an await is answered is not assumed
\* (Hangs), nor anything of the relayer, of the chains or of the application.
Fairness == \A c \in Calls : WF_vars(Own(c))

FairSpec == Spec /\ Fairness

-----------------------------------------------------------------------------
(* Properties.                                                             *)

\* What a call reports and returns is true: the intent of a call that reports an id
\* is the one it submitted itself, even when two calls of a wallet derive their ids
\* from one nonce; "uploaded" means that the relayer took the bytes or has stored
\* the blob, also where a 409 to a retry is read as success; a result is the proof
\* on the origin chain.
ProgressIsTrue ==
    \A c \in Calls :
        /\ call[c].id # NoId => Exists(call[c].id) /\ At(call[c].id).call = c
        /\ call[c].progress \in {"uploaded", "proven"} =>
              At(call[c].id).accepted \/ IsStored(At(call[c].id))
        /\ call[c].progress = "proven" =>
              IsExecuted(At(call[c].id)) /\ call[c].epoch = ProvenEpoch(At(call[c].id))

\* A paid intent never gets lost on the application: the call that submitted it
\* reports its id, whenever the signal is aborted, and can be resumed.  The one
\* exception is a transaction whose own answer is lost.
PaidIsReported ==
    \A id \in Ids : Exists(id) =>
        LET c == At(id).call
        IN  call[c].id = id \/ call[c].pc = "confirm" \/ call[c].lostAnswer

\* A priced store costs what its quote says: on EVM exactly the total, a fee that
\* rises after the quote eating into the escrow; on Solana the quoted escrow, and
\* a fee within the quoted forward amount when the quote calls it an upper bound,
\* and within the client's cap in any case.
ChargedAsQuoted ==
    \A id \in Ids : Exists(id) /\ call[At(id).call].priced =>
        LET i == At(id)
            q == call[i.call]
        IN  IF id[1] = "evm" THEN i.escrow + i.fee = Escrow + q.forward
            ELSE /\ i.escrow = Escrow
                 /\ q.upper => i.fee <= q.forward
                 /\ i.fee <= Max2(q.forward, FeeCap)

\* A call waits for an answer that never comes, and the application has not ended a
\* request to the relayer with the signal.
RelayerRequests == {"encode", "price", "upload"}
Stuck(c) == c \in hung /\ (call[c].pc \in RelayerRequests => c \notin aborted)

\* A call settles, or is stuck at an await that nobody answers: its retries, delays
\* and polls are bounded whatever the answers say, and a signal ends any request to
\* the relayer.  A transaction that stays pending, or a wallet or a chain that never
\* answers, does keep a call for ever.
StoreSettles == \A c \in Calls : Active(c) ~> ~Active(c) \/ Stuck(c)
=============================================================================
