-------------------------------- MODULE Intake --------------------------------
(***************************************************************************)
(* How an intent submitted on an origin chain becomes a row of the durable *)
(* queue that is ready to store.  Four producers of one relayer process    *)
(* run side by side: the EVM and Solana lifecycle watchers record the      *)
(* commitment, the Sui checkpoint poll records the delivery, the ingest    *)
(* API and the byte-recovery sweep stage the bytes.  The store pipeline    *)
(* (StoreQueue) appears here by the hops it writes to the feed and by the  *)
(* bytes it frees.                                                         *)
(*                                                                         *)
(* Every await is a boundary between two steps.  Postgres runs one         *)
(* statement per step, except the admission statement of upsertBytes,      *)
(* whose sum is read in a snapshot of its own.  All blobs have one size,   *)
(* so the staged bytes are counted in blobs.                               *)
(***************************************************************************)
EXTENDS Integers, FiniteSets, Sequences, SequencesExt

CONSTANTS
    EvmIntents, SolanaIntents,  \* intents, by the chain they are submitted on
    Uploads,                    \* upload requests a client may have open
    MaxStagedBlobs,             \* MAX_STAGED_BYTES, in blobs
    MaxSubmitted,               \* bound on the intents submitted
    MaxEmpty,                   \* bound on the Sui checkpoints without an intent
    MaxFaults                   \* bound on restarts, failed writes and dead requests

Intents  == EvmIntents \union SolanaIntents
Chains   == {"evm", "solana"}
Empty    == "empty"                       \* a checkpoint without our event
Recovery == "recovery"                    \* the request of recoverMissingBytes
Requests == Uploads \union {Recovery}
\* What the uploaded bytes are, next to the commitment.
Bytes == {"committed", "oversized", "wrong-size", "wrong-blob-id"}

ASSUME ConstantsAssumption ==
    /\ EvmIntents \intersect SolanaIntents = {}
    /\ Intents \intersect Chains = {} /\ Empty \notin Intents /\ Recovery \notin Uploads
    /\ MaxStagedBlobs \in Nat \ {0}
    /\ {MaxSubmitted, MaxEmpty, MaxFaults} \subseteq Nat

IntentHop == <<"submitted", "received", "stored_walrus", "recorded_sui", "proof_sent",
               "confirmed">>

VARIABLES
    log,        \* each origin chain's lifecycle events, in order
    delivered,  \* the Sui checkpoints: the intent received in each, or Empty
    past,       \* intents whose deadline has passed
    feed,       \* the intent_lifecycle table
    rows,       \* the staged_intent table
    cursor,     \* how many events of a chain its watcher has left behind
    batch,      \* the places in the log of the polled events a watcher has yet to record
    newest,     \* where the cursor goes when the batch is through
    file,       \* the checkpoint cursor file
    pass,       \* the running backfill: next checkpoint, last one, events recorded
    request,    \* ingest() calls in flight or just answered
    store,      \* where each row's store attempt stands
    copy,       \* the record a recordHop() call has read and not yet written
    lost,       \* ghost: events a fault has kept from being recorded
    faults

chain   == <<log, delivered, past>>
tables  == <<feed, rows>>
watcher == <<cursor, batch, newest>>
poll    == <<file, pass>>
vars    == <<chain, tables, watcher, poll, request, store, copy, lost, faults>>

-----------------------------------------------------------------------------
(* State.                                                                  *)

IntentLifecycleRecord ==
    [status : {"none"} \union ToSet(IntentHop), committed : BOOLEAN]
NoRecord == [status |-> "none", committed |-> FALSE]

StagedRow == [state    : {"absent", "active", "done", "expired"},
              received : BOOLEAN, bytes : BOOLEAN, uploaded : BOOLEAN, stored : BOOLEAN]
NoRow == [state |-> "absent", received |-> FALSE, bytes |-> FALSE, uploaded |-> FALSE,
          stored |-> FALSE]

Event == [intent : Intents, hop : {"submitted", "confirmed"}]

IngestRejectReason == {"unknown", "already-executed", "expired", "oversized", "wrong-size",
                       "wrong-blob-id", "backpressure"}

Request == [pc : {"none", "cap", "encode", "write", "reread", "answered"},
            intent : Intents, bytes : Bytes, staged : Nat,
            answer : {"none", "accepted"} \union IngestRejectReason]
NoRequest == [pc |-> "none", intent |-> CHOOSE i \in Intents : TRUE, bytes |-> "committed",
              staged |-> 0, answer |-> "none"]

\* The trackHop calls of store(): each reports the effect just before it.
StorePc == <<"received", "stored_walrus", "recorded_sui", "proof_sent">>

Writers == Chains \union Intents   \* the watchers, and a store attempt per row

TypeOK ==
    /\ log \in [Chains -> Seq(Event)]
    /\ delivered \in Seq(Intents \union {Empty})
    /\ past \in SUBSET Intents
    /\ feed \in [Intents -> IntentLifecycleRecord]
    /\ rows \in [Intents -> StagedRow]
    /\ \A c \in Chains : /\ {cursor[c], newest[c]} \subseteq 0..Len(log[c])
                          /\ batch[c] \subseteq 1..newest[c]
    /\ file \in 0..Len(delivered)
    /\ pass \in [next : Nat, last : 0..Len(delivered), recorded : BOOLEAN]
    /\ request \in [Requests -> Request]
    /\ store \in [Intents -> {"idle"} \union ToSet(StorePc)]
    /\ copy \in [Writers -> {<<>>} \union {<<r>> : r \in IntentLifecycleRecord}]
    /\ lost \in [submitted : SUBSET Intents, received : SUBSET Intents]
    /\ faults \in 0..MaxFaults

NoPass == [next |-> 1, last |-> 0, recorded |-> FALSE]    \* no backfill is running

Init ==
    /\ log = [c \in Chains |-> <<>>]
    /\ delivered = <<>>
    /\ past = {}
    /\ feed = [i \in Intents |-> NoRecord]
    /\ rows = [i \in Intents |-> NoRow]
    /\ cursor = [c \in Chains |-> 0]
    /\ batch = [c \in Chains |-> {}]
    /\ newest = [c \in Chains |-> 0]
    /\ file = 0
    /\ pass = NoPass
    /\ request = [u \in Requests |-> NoRequest]
    /\ store = [i \in Intents |-> "idle"]
    /\ copy = [w \in Writers |-> <<>>]
    /\ lost = [submitted |-> {}, received |-> {}]
    /\ faults = 0

ChainOf(i) == IF i \in EvmIntents THEN "evm" ELSE "solana"
Submitted(i) == [intent |-> i, hop |-> "submitted"]
OnChain(i) == Submitted(i) \in ToSet(log[ChainOf(i)])

-----------------------------------------------------------------------------
(* The chains.                                                             *)

Submit(i) ==
    /\ ~OnChain(i)
    /\ Cardinality({j \in Intents : OnChain(j)}) < MaxSubmitted
    /\ log' = [log EXCEPT ![ChainOf(i)] = Append(@, Submitted(i))]
    /\ UNCHANGED <<delivered, past, tables, watcher, poll, request, store, copy,
                   lost, faults>>

\* The message reaches Sui and lz_receiver emits IntentReceived.
Deliver(i) ==
    /\ OnChain(i)
    /\ i \notin ToSet(delivered)
    /\ delivered' = Append(delivered, i)
    /\ UNCHANGED <<log, past, tables, watcher, poll, request, store, copy, lost,
                   faults>>

EmptyCheckpoint ==
    /\ Cardinality({n \in DOMAIN delivered : delivered[n] = Empty}) < MaxEmpty
    /\ delivered' = Append(delivered, Empty)
    /\ UNCHANGED <<log, past, tables, watcher, poll, request, store, copy, lost, faults>>

DeadlinePasses(i) ==
    /\ OnChain(i)
    /\ i \notin past
    /\ past' = past \union {i}
    /\ UNCHANGED <<log, delivered, tables, watcher, poll, request, store, copy,
                   lost, faults>>

-----------------------------------------------------------------------------
(* The lifecycle store.  recordHop() reads the record, folds the hop onto  *)
(* it and writes the whole row back, in two statements.                    *)

applyHop(existing, hop, committed) ==
    [status |-> hop, committed |-> existing.committed \/ committed]

findOne(w, i) == copy' = [copy EXCEPT ![w] = <<feed[i]>>]

\* The second statement of recordHop.
WriteHop(w, i, hop, committed) ==
    /\ feed' = [feed EXCEPT ![i] = applyHop(copy[w][1], hop, committed)]
    /\ copy' = [copy EXCEPT ![w] = <<>>]

\* getCommitment(): null until a watcher has recorded the commitment.
getCommitment(i) == feed[i].committed

-----------------------------------------------------------------------------
(* The lifecycle watchers.                                                 *)

\* The places in the log of the events past the cursor, up to the n-th.
Unseen(c, n) == cursor[c] + 1 .. n

\* The event of the batch that pollOnce() is at: the submitted ones come first.
Place(c) == LET submitted == {n \in batch[c] : log[c][n].hop = "submitted"}
            IN  Min(IF submitted # {} THEN submitted ELSE batch[c])
Polled(c) == log[c][Place(c)]

\* scheduledPoll() and pollOnce() up to its first hop.  The EVM query ends a few
\* blocks behind the head, so it may stop short of the newest events.
pollLifecycleEvents ==
    /\ batch["evm"] = {}
    /\ \E n \in cursor["evm"] + 1 .. Len(log["evm"]) :
          /\ batch' = [batch EXCEPT !["evm"] = Unseen("evm", n)]
          /\ newest' = [newest EXCEPT !["evm"] = n]
    /\ UNCHANGED <<chain, tables, cursor, poll, request, store, copy, lost, faults>>

\* The Solana query takes the newest page of signatures and the newest signature
\* as the next cursor.  A transaction older than the page, or one the answering
\* node does not serve yet, contributes no event.
pollIntentSubmitted ==
    /\ batch["solana"] = {}
    /\ Len(log["solana"]) > cursor["solana"]
    /\ \E absent \in SUBSET Unseen("solana", Len(log["solana"])) :
          LET got == Unseen("solana", Len(log["solana"])) \ absent
          IN  /\ faults' = faults + (IF absent = {} THEN 0 ELSE 1)
              /\ faults' <= MaxFaults
              /\ batch' = [batch EXCEPT !["solana"] = got]
              /\ lost' = [lost EXCEPT !.submitted =
                             @ \union {log["solana"][n].intent : n \in absent}]
              /\ newest' = [newest EXCEPT !["solana"] = Len(log["solana"])]
              /\ cursor' = [cursor EXCEPT !["solana"] = IF got = {} THEN newest'["solana"]
                                                                     ELSE @]
    /\ UNCHANGED <<chain, tables, poll, request, store, copy>>

\* pollOnce() goes on to the next event; the cursor moves once all are through.
pollOnce(c) ==
    LET left == batch[c] \ {Place(c)}
    IN  /\ batch' = [batch EXCEPT ![c] = left]
        /\ cursor' = [cursor EXCEPT ![c] = IF left = {} THEN newest[c] ELSE @]
        /\ UNCHANGED newest

\* trackHop() of that event: the read, then the write.
WatchRead(c) ==
    /\ batch[c] # {}
    /\ copy[c] = <<>>
    /\ findOne(c, Polled(c).intent)
    /\ UNCHANGED <<chain, tables, watcher, poll, request, store, lost, faults>>

WatchWrite(c) ==
    /\ copy[c] # <<>>
    /\ WriteHop(c, Polled(c).intent, Polled(c).hop, Polled(c).hop = "submitted")
    /\ pollOnce(c)
    /\ UNCHANGED <<chain, rows, poll, request, store, lost, faults>>

\* The statement failed: trackHop() logs it and the loop goes on.
WatchFails(c) ==
    /\ copy[c] # <<>>
    /\ faults < MaxFaults
    /\ faults' = faults + 1
    /\ copy' = [copy EXCEPT ![c] = <<>>]
    /\ lost' = IF Polled(c).hop = "submitted"
               THEN [lost EXCEPT !.submitted = @ \union {Polled(c).intent}] ELSE lost
    /\ pollOnce(c)
    /\ UNCHANGED <<chain, tables, poll, request, store>>

-----------------------------------------------------------------------------
(* The Sui checkpoint poll.                                                *)

\* markReceived(): creates the row or flags the active one, nothing on a settled row.
markReceived(i) ==
    rows' = [rows EXCEPT ![i] =
                IF @.state \in {"absent", "active"}
                THEN [@ EXCEPT !.state = "active", !.received = TRUE] ELSE @]

\* Mutant: a pass resumes at the head instead of after the cursor.
BackfillFromHead ==
    /\ pass = NoPass
    /\ file < Len(delivered)
    /\ pass' = [next |-> Len(delivered), last |-> Len(delivered), recorded |-> FALSE]
    /\ UNCHANGED <<chain, tables, watcher, file, request, store, copy, lost, faults>>

\* backfill() reads the head of the chain once, then visits the checkpoints in order.
backfill ==
    /\ pass = NoPass
    /\ file < Len(delivered)
    /\ pass' = [next |-> file + 1, last |-> Len(delivered), recorded |-> FALSE]
    /\ UNCHANGED <<chain, tables, watcher, file, request, store, copy, lost, faults>>

NextCheckpoint == pass' = IF pass.next = pass.last THEN NoPass
                          ELSE [pass EXCEPT !.next = @ + 1, !.recorded = FALSE]

\* The node answers without the checkpoint: the loop goes on to the next one.
SkipCheckpoint ==
    /\ pass # NoPass
    /\ ~pass.recorded
    /\ faults < MaxFaults
    /\ faults' = faults + 1
    /\ lost' = [lost EXCEPT !.received = @ \union ({delivered[pass.next]} \ {Empty})]
    /\ NextCheckpoint
    /\ UNCHANGED <<chain, tables, watcher, file, request, store, copy>>

\* processCheckpoint() calls onReceived() for the event ...
onReceived ==
    /\ pass # NoPass
    /\ ~pass.recorded
    /\ IF delivered[pass.next] = Empty THEN UNCHANGED rows ELSE markReceived(delivered[pass.next])
    /\ pass' = [pass EXCEPT !.recorded = TRUE]
    /\ UNCHANGED <<chain, feed, watcher, file, request, store, copy, lost, faults>>

\* ... which logs a failed markReceived() and returns ...
ReceivedFails ==
    /\ pass # NoPass
    /\ ~pass.recorded
    /\ delivered[pass.next] # Empty
    /\ faults < MaxFaults
    /\ faults' = faults + 1
    /\ lost' = [lost EXCEPT !.received = @ \union {delivered[pass.next]}]
    /\ pass' = [pass EXCEPT !.recorded = TRUE]
    /\ UNCHANGED <<chain, tables, watcher, file, request, store, copy>>

\* ... and then writes the cursor.
writeCursor ==
    /\ pass.recorded
    /\ file' = pass.next
    /\ NextCheckpoint
    /\ UNCHANGED <<chain, tables, watcher, request, store, copy, lost, faults>>

processCheckpoint == onReceived \/ ReceivedFails \/ writeCursor

-----------------------------------------------------------------------------
(* Ingest: the API's upload requests and the byte-recovery sweep.          *)

\* Mutant: a delivered intent counts as executed.
ReceivedIsExecuted(status) ==
    status \in {"received", "stored_walrus", "recorded_sui", "proof_sent", "confirmed"}

isExecuted(status) == status \in {"stored_walrus", "recorded_sui", "proof_sent", "confirmed"}

stagedBytesTotal == Cardinality({i \in Intents : rows[i].bytes})
stagedBytesTotalExcluding(i) == Cardinality({j \in Intents \ {i} : rows[j].bytes})

Answer(u, i, answer) ==
    request' = [request EXCEPT ![u] =
                   IF u = Recovery THEN NoRequest
                   ELSE [NoRequest EXCEPT !.pc = "answered", !.intent = i,
                                          !.answer = answer]]
Goto(u, pc) == request' = [request EXCEPT ![u].pc = pc]

\* The checks between the commitment read and the next await, in the code's order.
Verdict(i, bytes) ==
    CASE ~getCommitment(i)                        -> "unknown"
      [] isExecuted(feed[i].status)               -> "already-executed"
      [] i \in past                               -> "expired"
      [] bytes \in {"oversized", "wrong-size"}    -> bytes
      [] OTHER                                    -> "ok"

ingest(u, i, bytes) ==
    LET v == Verdict(i, bytes)
    IN  IF v = "ok"
        THEN request' = [request EXCEPT ![u] = [NoRequest EXCEPT !.pc = "cap", !.intent = i,
                                                                !.bytes = bytes]]
        ELSE Answer(u, i, v)

\* POST /blob/:intentId.
ingestBlob(u, i, bytes) ==
    /\ request[u].pc \in {"none", "answered"}
    /\ ingest(u, i, bytes)
    /\ UNCHANGED <<chain, tables, watcher, poll, store, copy, lost, faults>>

\* recoverMissingBytes() for one candidate of claimForByteRecovery(): its next
\* attempt is put off, the blob fetched from the aggregator and fed to ingest().
claimForByteRecovery(i) ==
    /\ rows[i].state = "active"
    /\ rows[i].received
    /\ ~rows[i].bytes /\ ~rows[i].uploaded /\ ~rows[i].stored
    /\ i \notin past

recoverMissingBytes(i) ==
    /\ request[Recovery].pc \in {"none", "answered"}
    /\ claimForByteRecovery(i)
    /\ ingest(Recovery, i, "committed")
    /\ UNCHANGED <<chain, tables, watcher, poll, store, copy, lost, faults>>

\* The fast rejection before the blob id is recomputed.
FastPath(u) ==
    /\ request[u].pc = "cap"
    /\ IF stagedBytesTotal + 1 > MaxStagedBlobs THEN Answer(u, request[u].intent, "backpressure")
                                                ELSE Goto(u, "encode")
    /\ UNCHANGED <<chain, tables, watcher, poll, store, copy, lost, faults>>

\* encodeBlob() and blobIdMatches(); then upsertBytes() is sent, and its statement
\* sums the staged bytes of the other intents in the snapshot it runs in.
EncodeBlob(u) ==
    /\ request[u].pc = "encode"
    /\ IF request[u].bytes = "wrong-blob-id" THEN Answer(u, request[u].intent, "wrong-blob-id")
       ELSE request' = [request EXCEPT ![u].pc = "write",
                           ![u].staged = stagedBytesTotalExcluding(request[u].intent)]
    /\ UNCHANGED <<chain, tables, watcher, poll, store, copy, lost, faults>>

\* The statement's write: gated on that sum, and on the row as it is now.
upsertBytes(u) ==
    /\ request[u].pc = "write"
    /\ LET i == request[u].intent
       IN  IF request[u].staged + 1 <= MaxStagedBlobs /\ rows[i].state \in {"absent", "active"}
           THEN /\ rows' = [rows EXCEPT ![i].state = "active", ![i].bytes = TRUE]
                /\ Answer(u, i, "accepted")
           ELSE Goto(u, "reread") /\ UNCHANGED rows
    /\ UNCHANGED <<chain, feed, watcher, poll, store, copy, lost, faults>>

\* Nothing was written: a second query tells the cap from a settled row, and a
\* settled row is answered as expired.
Reread(u) ==
    /\ request[u].pc = "reread"
    /\ LET i == request[u].intent
       IN  Answer(u, i, IF stagedBytesTotalExcluding(i) + 1 > MaxStagedBlobs
                        THEN "backpressure" ELSE "expired")
    /\ UNCHANGED <<chain, tables, watcher, poll, store, copy, lost, faults>>

\* The client disconnects or a query throws: no answer reaches it.
RequestDies(u) ==
    /\ request[u].pc \notin {"none", "answered"}
    /\ faults < MaxFaults
    /\ faults' = faults + 1
    /\ request' = [request EXCEPT ![u] = NoRequest]
    /\ UNCHANGED <<chain, tables, watcher, poll, store, copy, lost>>

-----------------------------------------------------------------------------
(* The store pipeline, by its hops and by what it leaves in the row.       *)

After(pc) == LET n == CHOOSE k \in DOMAIN StorePc : StorePc[k] = pc
             IN  IF n = Len(StorePc) THEN "idle" ELSE StorePc[n + 1]

\* Mutant: a row is claimed before its commitment is known.
TickUncommitted(i) ==
    /\ store[i] = "idle"
    /\ rows[i].state = "active"
    /\ rows[i].received
    /\ i \notin past
    /\ store' = [store EXCEPT ![i] = StorePc[1]]
    /\ UNCHANGED <<chain, tables, watcher, poll, request, copy, lost, faults>>

tick(i) ==
    /\ store[i] = "idle"
    /\ rows[i].state = "active"
    /\ rows[i].received
    /\ rows[i].bytes \/ rows[i].uploaded
    /\ i \notin past
    /\ getCommitment(i)
    /\ store' = [store EXCEPT ![i] = StorePc[1]]
    /\ UNCHANGED <<chain, tables, watcher, poll, request, copy, lost, faults>>

\* store() up to the read of its next recordHop: the upload, execute_store, and
\* then the freed bytes and the return leg, whose proof makes the EVM adapter
\* emit IntentExecuted.
storeEffect(i) ==
    CASE store[i] = "received"      -> rows[i]
      [] store[i] = "stored_walrus" -> [rows[i] EXCEPT !.uploaded = TRUE]
      [] store[i] = "recorded_sui"  -> [rows[i] EXCEPT !.stored = TRUE]
      [] store[i] = "proof_sent"    -> [rows[i] EXCEPT !.bytes = FALSE]

Confirmed(i) == [intent |-> i, hop |-> "confirmed"]

StoreStep(i) ==
    /\ store[i] # "idle"
    /\ copy[i] = <<>>
    /\ rows' = [rows EXCEPT ![i] = storeEffect(i)]
    /\ log' = IF /\ store[i] = "proof_sent" /\ i \in EvmIntents
                 /\ Confirmed(i) \notin ToSet(log["evm"])
              THEN [log EXCEPT !["evm"] = Append(@, Confirmed(i))] ELSE log
    /\ findOne(i, i)
    /\ UNCHANGED <<delivered, past, feed, watcher, poll, request, store, lost,
                   faults>>

\* The write of recordHop; markDone() follows the last one.
trackHop(i) ==
    /\ store[i] # "idle"
    /\ copy[i] # <<>>
    /\ WriteHop(i, i, store[i], FALSE)
    /\ store' = [store EXCEPT ![i] = After(@)]
    /\ rows' = IF After(store[i]) = "idle"
               THEN [rows EXCEPT ![i].state = "done", ![i].bytes = FALSE] ELSE rows
    /\ UNCHANGED <<chain, watcher, poll, request, lost, faults>>

\* An attempt fails and the row is claimed again later, from the first hop on.
StoreFails(i) ==
    /\ store[i] # "idle"
    /\ copy[i] = <<>>
    /\ faults < MaxFaults
    /\ faults' = faults + 1
    /\ store' = [store EXCEPT ![i] = "idle"]
    /\ UNCHANGED <<chain, tables, watcher, poll, request, copy, lost>>

\* Mutant: an expired row keeps its bytes, and its share of the cap.
ExpireKeepsBytes(i) ==
    /\ rows[i].state = "active"
    /\ i \in past
    /\ rows' = [rows EXCEPT ![i].state = "expired"]
    /\ UNCHANGED <<chain, feed, watcher, poll, request, store, copy, lost, faults>>

\* The reaper expires an active row once its deadline has passed, a stored one too.
expire(i) ==
    /\ rows[i].state = "active"
    /\ i \in past
    /\ rows' = [rows EXCEPT ![i].state = "expired", ![i].bytes = FALSE]
    /\ UNCHANGED <<chain, feed, watcher, poll, request, store, copy, lost, faults>>

-----------------------------------------------------------------------------
(* The process dies and boots again.  The watchers start from the head of  *)
(* their chain, the checkpoint poll from the cursor file.                  *)

\* The head may be the block of the last event, or a later one.
bootstrapBlockNumber == {Len(log["evm"])} \union ({Len(log["evm"]) - 1} \ {-1})
\* A failed query leaves the Solana cursor unset: the first poll pages history.
getLatestSignature == {Len(log["solana"]), 0}

Restart ==
    /\ faults < MaxFaults
    /\ faults' = faults + 1
    /\ \E e \in bootstrapBlockNumber, s \in getLatestSignature :
          /\ cursor' = [evm |-> e, solana |-> s]
          /\ newest' = cursor'
    /\ batch' = [c \in Chains |-> {}]
    /\ lost' = [lost EXCEPT !.submitted = @ \union
                  {i \in Intents : ~feed[i].committed /\ OnChain(i) /\
                      \A n \in DOMAIN log[ChainOf(i)] :
                         n > cursor'[ChainOf(i)] => log[ChainOf(i)][n] # Submitted(i)}]
    /\ pass' = NoPass
    /\ request' = [u \in Requests |-> NoRequest]
    /\ store' = [i \in Intents |-> "idle"]
    /\ copy' = [w \in Writers |-> <<>>]
    /\ UNCHANGED <<chain, tables, file>>

-----------------------------------------------------------------------------
Watch(c) == WatchRead(c) \/ WatchWrite(c)
Step(u) == FastPath(u) \/ EncodeBlob(u) \/ upsertBytes(u) \/ Reread(u)

Next ==
    \/ \E i \in Intents : Submit(i) \/ Deliver(i) \/ DeadlinePasses(i)
    \/ EmptyCheckpoint
    \/ pollLifecycleEvents
    \/ pollIntentSubmitted
    \/ \E c \in Chains : Watch(c) \/ WatchFails(c)
    \/ backfill
    \/ SkipCheckpoint
    \/ processCheckpoint
    \/ \E u \in Uploads, i \in Intents, bytes \in Bytes : ingestBlob(u, i, bytes)
    \/ \E i \in Intents : recoverMissingBytes(i)
    \/ \E u \in Requests : Step(u) \/ RequestDies(u)
    \/ \E i \in Intents : \/ tick(i) \/ StoreStep(i) \/ trackHop(i)
                          \/ StoreFails(i) \/ expire(i)
    \/ Restart

Spec == Init /\ [][Next]_vars

\* The pollers, the sweeps, the reaper and the claim loop run on timers for as long
\* as the process is up, and a running request or attempt goes on by itself.
\* Nothing is assumed of clients, of deliveries or of faults.  It is assumed that a
\* node, the aggregator and the database answer or fail in the end: the code gives
\* the awaits of these loops no timeout, and each loop waits for its last pass.
Fairness ==
    /\ WF_vars(pollLifecycleEvents \/ Watch("evm"))
    /\ WF_vars(pollIntentSubmitted \/ Watch("solana"))
    /\ WF_vars(backfill \/ processCheckpoint)
    /\ WF_vars(Step(Recovery))
    /\ \A i \in Intents : /\ WF_vars(recoverMissingBytes(i)) /\ WF_vars(expire(i))
                          /\ WF_vars(tick(i) \/ StoreStep(i) \/ trackHop(i))

FairSpec == Spec /\ Fairness

-----------------------------------------------------------------------------
(* Properties.                                                             *)

Settled(i) == rows[i].state \in {"done", "expired"}

\* Nothing slips past a cursor: an event a watcher has left behind is in the
\* lifecycle table, and a checkpoint at or below the cursor file has its intent in
\* the queue, whatever crashes fall between recording and moving the cursor.  Only
\* the losses named in `lost` get through: a swallowed write, a checkpoint or
\* transaction the node did not serve, and a watcher that booted past the event.
NothingSlipsBy ==
    /\ \A n \in 1..file : \/ delivered[n] \in {Empty} \union lost.received
                          \/ rows[delivered[n]].received
                          \/ Settled(delivered[n])
    /\ \A c \in Chains : \A n \in 1..cursor[c] :
          LET e == log[c][n]
          IN  e.hop = "submitted" => feed[e.intent].committed \/ e.intent \in lost.submitted

\* recordHop() writes back a row it read earlier, yet no writer ever erases a
\* commitment: whoever writes without one has read the record with it.
CommitmentSticks ==
    [][\A i \in Intents : feed[i].committed => feed'[i].committed]_vars

\* A client told that its upload is accepted can go away: the bytes stay until the
\* blob is on Walrus or the row is settled.  One told that the intent is already
\* executed is told so only once the blob is on Walrus.
AnswersAreTrue ==
    \A u \in Uploads :
        LET i == request[u].intent
        IN  /\ request[u].answer = "accepted" =>
                  rows[i].bytes \/ rows[i].uploaded \/ Settled(i)
            /\ request[u].answer = "already-executed" => rows[i].uploaded

\* The blobs of intents that the queue does not know to be delivered take up all of
\* MAX_STAGED_BYTES.
CapIsHeld ==
    Cardinality({j \in Intents : rows[j].bytes /\ ~rows[j].received /\ j \notin past})
        >= MaxStagedBlobs

\* An intent delivered to Sui is stored with no client in sight: byte recovery
\* fetches the blob, and gets in past the uploads and the other deliveries that it
\* competes with for MAX_STAGED_BYTES.  The exceptions are a deadline that passes, a
\* lost event, and a cap that is held again and again, until their own deadlines, by
\* blobs whose intents are not delivered: recovery is then answered "backpressure".
\* Fairness names what is assumed of the calls on the way.
DeliveredGetsStored ==
    \A i \in Intents :
        i \in ToSet(delivered) ~> \/ Settled(i) \/ CapIsHeld
                                  \/ i \in past \union lost.submitted \union lost.received

\* The staged bytes never exceed MAX_STAGED_BYTES.
CapIsNeverExceeded == stagedBytesTotal <= MaxStagedBlobs

\* An upload is answered 410 only when the intent's deadline has passed or its row
\* is settled; a full queue is answered 503, to be retried.
GoneMeansSettled ==
    \A u \in Uploads : request[u].answer = "expired" =>
        request[u].intent \in past \/ Settled(request[u].intent)

=============================================================================
