------------------------------ MODULE SolanaReturn ------------------------------
(***************************************************************************)
(* The return leg to Solana: the proofs the relayer sent from Sui, the     *)
(* pathway they arrive on (LzInbound), the adapter they settle             *)
(* (SolanaAdapter), and the self-operated worker between them, which reads *)
(* the Sui events, attests, commits and executes each packet, and heals    *)
(* the gaps that stop the endpoint.                                        *)
(*                                                                         *)
(* The worker is one process.  A tick is a sequence of RPC calls, and each *)
(* one may fail; a transaction may also land although its answer is lost.  *)
(* What it remembers (the packets it has seen, the frontier at which it    *)
(* gave up healing) is lost when it restarts.                              *)
(***************************************************************************)
EXTENDS Integers, Sequences, FiniteSets, FiniteSetsExt

CONSTANTS
    \* SolanaAdapter and LzInbound
    Payers, Admins, PeerAddresses, Blobs, Deadlines, Amounts, EndEpochs, MaxNonce, MaxTime,
    NoAccount, MaxPackets,
    SuiOApp,        \* the sender of the return packets: the Sui package
    MaxEvents,      \* bound on the relayer's packets, those for other chains included
    Window,         \* the limit of querySuiPacketSent
    HistoryDepth,   \* the events the pages of findReturnPacketsInRange reach
    PageErrors,     \* whether a page of the history may fail to load
    PairsPerTx,     \* PAIRS_PER_TX of skip-return-nonce
    MinNonce,       \* RETURN_MIN_NONCE
    MaxFaults       \* bound on failed calls, restarts, dry runs and single deliveries

VARIABLES
    now, admin, peer, nonces, intents, escrows, closedTo, forwarded,
    confirmations, payloadHash, inboundNonce,
    events,     \* PacketSentEvents of the relayer on Sui, oldest first
    stored,     \* ids whose blob is stored and recorded on Sui
    skipped,    \* nonces an operator skipped by hand
    worker,     \* the process
    faults      \* what MaxFaults bounds, so far

Sol == INSTANCE SolanaAdapter
Lz  == INSTANCE LzInbound

sol  == <<now, admin, peer, nonces, intents, escrows, closedTo, forwarded>>
lz   == <<confirmations, payloadHash, inboundNonce>>
sui  == <<events, stored>>
vars == <<sol, lz, sui, skipped, worker, faults>>

Ids == Sol!Ids

ASSUME ReturnAssumption ==
    /\ Deadlines \subseteq Nat /\ Amounts \subseteq Nat /\ EndEpochs \subseteq Nat
    /\ MaxNonce \in Nat /\ MaxTime \in Nat
    /\ NoAccount \notin Payers \union Admins \union PeerAddresses
    /\ NoAccount \notin Sol!IntentState \union Sol!EscrowVault
    /\ SuiOApp \in PeerAddresses
    /\ {MaxPackets, MaxEvents, Window, HistoryDepth, MinNonce, MaxFaults} \subseteq Nat
    /\ PairsPerTx \in Nat \ {0}
    /\ PageErrors \in BOOLEAN

-----------------------------------------------------------------------------
(* Packets and what the worker reads.                                      *)

\* A packet carries the nonce of its pathway; the ones to other chains have nonce 0 here.
Packets == [dst : {"solana", "evm"}, nonce : 0 .. MaxPackets, id : Ids, endEpoch : EndEpochs]

Foreign == [dst |-> "evm", nonce |-> 0]

isOurReturn(packet) == packet.dst = "solana"

ReturnNonces(seq) == {seq[i].nonce : i \in {j \in DOMAIN seq : isOurReturn(seq[j])}}

PacketOf(nonce) == events[CHOOSE i \in DOMAIN events : events[i].nonce = nonce]

\* The newest events, as a page of the event query returns them (oldest first here).
queryEventsBySender(limit) ==
    IF Len(events) <= limit THEN events ELSE SubSeq(events, Len(events) - limit + 1, Len(events))

\* The newest return packets: the limit counts packets to every chain.
querySuiPacketSent == ReturnNonces(queryEventsBySender(Window))

\* Mutant: the first page of the history is the only one read.
FirstPageOnly(from, to, depth) ==
    ReturnNonces(queryEventsBySender(Window)) \intersect (from .. to)

\* The return packets of a range that the pages hold; an error stops the paging early.
findReturnPacketsInRange(from, to, depth) ==
    ReturnNonces(queryEventsBySender(depth)) \intersect (from .. to)

Queryable == ReturnNonces(queryEventsBySender(HistoryDepth))

\* Frontier and payload hash account come from one read, at one slot.
readNonceState(n) == [inboundNonce |-> inboundNonce, exists |-> payloadHash[n] # "none"]

\* Mutant: a packet without a payload hash account is taken to be delivered.
AbsentIsDelivered(n, state) == IF ~state.exists THEN "delivered" ELSE "pending"

returnDeliveryState(n, state) ==
    IF ~state.exists /\ n <= state.inboundNonce THEN "delivered" ELSE "pending"

-----------------------------------------------------------------------------
(* The worker's state.                                                     *)

Unblocked == -1     \* healBlockedAt is null

Stopped ==
    [pc |-> "down", run |-> FALSE, phase |-> "loop", todo |-> {}, window |-> {},
     seen |-> {}, frontier |-> 0, missing |-> 0, blockedAt |-> Unblocked, logged |-> 0]

Worker ==
    [pc        : {"down", "query", "heal", "scan", "deliver", "verify", "commit", "receive",
                  "endTick"},
     run       : BOOLEAN,               \* RUN=1, otherwise a dry run
     phase     : {"heal", "loop", "one"},
     todo      : SUBSET (1 .. MaxPackets),  \* nonces the phase still has to deliver
     window    : SUBSET (1 .. MaxPackets),  \* what the tick's query returned
     seen      : SUBSET (1 .. MaxPackets),
     frontier  : 0 .. MaxPackets,       \* as healReturnGap read it
     missing   : 0 .. MaxPackets,       \* the first packet the heal did not find, or 0
     blockedAt : {Unblocked} \union (0 .. MaxPackets),
     logged    : 0 .. MaxPackets]       \* the nonce the log says to skip by hand, or 0

\* A process that starts or ends; its log remains.
Fresh == [Stopped EXCEPT !.logged = worker.logged]

TypeOK ==
    /\ Sol!TypeOK
    /\ Lz!TypeOK
    /\ events \in Seq(Packets \union {Foreign}) /\ Len(events) <= MaxEvents
    /\ stored \subseteq Ids
    /\ skipped \subseteq 1 .. MaxPackets
    /\ worker \in Worker
    /\ faults \in 0 .. MaxFaults

Init ==
    /\ Sol!Init
    /\ Lz!Init
    /\ events = <<>>
    /\ stored = {}
    /\ skipped = {}
    /\ worker = Stopped
    /\ faults = 0

-----------------------------------------------------------------------------
(* Sui, the program's other callers, and the operator.                     *)

Fault == faults < MaxFaults /\ faults' = faults + 1

\* The relayer stores the blob of an intent that reached the receiver on Sui.
Store(id) ==
    /\ [id |-> id, receiver |-> SuiOApp] \in forwarded
    /\ stored' = stored \union {id}
    /\ UNCHANGED <<sol, lz, events, skipped, worker, faults>>

\* The relayer sends a proof of a stored intent, possibly again, or one to another chain.
SendProof(id, endEpoch) ==
    LET nonce == Cardinality(ReturnNonces(events)) + 1 IN
    /\ id \in stored
    /\ Len(events) < MaxEvents /\ nonce <= MaxPackets
    /\ events' = Append(events, [dst |-> "solana", nonce |-> nonce, id |-> id,
                                 endEpoch |-> endEpoch])
    /\ UNCHANGED <<sol, lz, stored, skipped, worker, faults>>

SendElsewhere ==
    /\ Len(events) < MaxEvents
    /\ events' = Append(events, Foreign)
    /\ UNCHANGED <<sol, lz, stored, skipped, worker, faults>>

\* The relayer's fallback, signed by the store's admin.  When the answer is lost it reads
\* the intent back, which changes nothing.
confirmExecution(account, id, endEpoch) ==
    Sol!confirm_execution(account, id, id.blob, endEpoch)

ProgramStep ==
    /\ \/ \E account \in Admins : Sol!init_store(account)
       \/ \E account \in Admins, address \in PeerAddresses : Sol!set_peer(account, address)
       \/ \E payer \in Payers, blob \in Blobs, deadline \in Deadlines, amount \in Amounts :
              Sol!submit_intent(payer, blob, deadline, amount)
       \/ \E account \in Admins, id \in Ids, endEpoch \in EndEpochs :
              confirmExecution(account, id, endEpoch)
       \/ \E payer \in Payers, id \in Ids : Sol!refund_escrow(payer, id)
       \/ Sol!Clock
    /\ UNCHANGED <<lz, sui, skipped, worker, faults>>

\* One transaction of skip-return-nonce, run up to the nonce the worker's log names.
SkipReturnNonce(k) ==
    /\ k \in 1 .. PairsPerTx
    /\ inboundNonce + k <= worker.logged
    /\ Lz!Skip(k)
    /\ skipped' = skipped \union ((inboundNonce + 1) .. (inboundNonce + k))
    /\ UNCHANGED <<sol, sui, worker, faults>>

-----------------------------------------------------------------------------
(* The worker: starting and stopping.                                      *)

runLoop(run) ==
    /\ worker.pc = "down"
    /\ worker' = [Fresh EXCEPT !.pc = "query", !.run = run]
    /\ IF run THEN UNCHANGED faults ELSE Fault
    /\ UNCHANGED <<sol, lz, sui, skipped>>

\* One packet, by the digest of its Sui transaction; the process then exits.
runOne(run, n) ==
    /\ worker.pc = "down"
    /\ n \in ReturnNonces(events)
    /\ Fault
    /\ worker' = [Fresh EXCEPT !.pc = "deliver", !.phase = "one", !.run = run,
                                 !.todo = {n}]
    /\ UNCHANGED <<sol, lz, sui, skipped>>

\* A crash, or the operator stops the process.
Crash ==
    /\ worker.pc # "down"
    /\ Fault
    /\ worker' = Fresh
    /\ UNCHANGED <<sol, lz, sui, skipped>>

-----------------------------------------------------------------------------
(* The worker: a tick.                                                     *)

Step(w) == worker' = w /\ UNCHANGED <<sol, lz, sui, skipped>>

\* The deliveries of a tick: what it read, less what it has seen or must not touch.
LoopPhase(w) ==
    LET due == {n \in w.window \ w.seen : n >= MinNonce}
    IN  [w EXCEPT !.phase = "loop", !.todo = due,
                  !.pc = IF due = {} THEN "endTick" ELSE "deliver"]

Query ==
    /\ worker.pc = "query"
    /\ \/ /\ Step([worker EXCEPT !.window = querySuiPacketSent,
                                 !.pc = IF querySuiPacketSent = {} THEN "endTick" ELSE "heal"])
          /\ UNCHANGED faults
       \/ Fault /\ Step([worker EXCEPT !.pc = "endTick"])

\* Mutant: a gap of one packet is not seen as one.
HealIgnoresOne ==
    /\ worker.pc = "heal"
    /\ UNCHANGED faults
    /\ IF ~worker.run \/ Max(worker.window) <= inboundNonce + 2
       THEN Step(LoopPhase(worker))
       ELSE Step([worker EXCEPT !.pc = "scan", !.frontier = inboundNonce])

\* No gap below the tip, one known to be lost, an unreadable frontier: the heal does nothing.
healReturnGap ==
    /\ worker.pc = "heal"
    /\ \/ /\ IF \/ ~worker.run
                \/ Max(worker.window) <= inboundNonce + 1
                \/ worker.blockedAt = inboundNonce
             THEN Step(LoopPhase(worker))
             ELSE Step([worker EXCEPT !.pc = "scan", !.frontier = inboundNonce])
          /\ UNCHANGED faults
       \/ Fault /\ Step(LoopPhase(worker))

\* The heal has come to the packet it did not find.
GiveUp(w) == [w EXCEPT !.blockedAt = w.frontier, !.logged = w.missing]

\* The packets above the frontier, in order, as far as the history has them.
HealPhase(w, found) ==
    LET range   == (w.frontier + 1) .. Max(w.window)
        absent  == range \ found
        missing == IF absent = {} THEN 0 ELSE Min(absent)
        ordered  == IF absent = {} THEN range ELSE (w.frontier + 1) .. (missing - 1)
    IN  IF ordered = {} THEN LoopPhase(GiveUp([w EXCEPT !.missing = missing]))
        ELSE [w EXCEPT !.phase = "heal", !.todo = ordered, !.missing = missing, !.pc = "deliver"]

Scan ==
    /\ worker.pc = "scan"
    /\ \E depth \in 0 .. HistoryDepth :
          /\ IF depth = HistoryDepth THEN UNCHANGED faults ELSE PageErrors /\ Fault
          /\ Step(HealPhase(worker, findReturnPacketsInRange(worker.frontier + 1,
                                                             Max(worker.window), depth)))

-----------------------------------------------------------------------------
(* The worker: one delivery.                                               *)

\* The answer of deliver(), and what its caller does with it.
Finish(w, answer) ==
    LET rest == [w EXCEPT !.todo = @ \ {Min(@)}, !.pc = "deliver"] IN
    CASE w.phase = "one"  -> Fresh
      [] w.phase = "loop" ->
           LET noted == IF answer = "skipped" THEN rest
                        ELSE [rest EXCEPT !.seen = @ \union {Min(w.todo)}]
           IN  IF noted.todo = {} THEN [noted EXCEPT !.pc = "endTick"] ELSE noted
      [] w.phase = "heal" /\ answer = "skipped" -> LoopPhase(w)
      [] w.phase = "heal" /\ answer # "skipped" ->
           LET healed == [rest EXCEPT !.blockedAt = Unblocked]
           IN  CASE rest.todo # {} -> healed
                 [] rest.todo = {} /\ w.missing = 0 -> LoopPhase(healed)
                 [] rest.todo = {} /\ w.missing # 0 -> LoopPhase(GiveUp(rest))

\* Packets are delivered oldest first, in the order of their nonces.
Due == Min(worker.todo)

\* Nothing is sent for a delivered packet, nor in a dry run.
Deliver ==
    /\ worker.pc = "deliver"
    /\ \/ /\ LET state == returnDeliveryState(Due, readNonceState(Due)) IN
             CASE state = "delivered"              -> Step(Finish(worker, "already"))
               [] state = "pending" /\ ~worker.run -> Step(Finish(worker, "dry"))
               [] state = "pending" /\ worker.run  -> Step([worker EXCEPT !.pc = "verify"])
          /\ UNCHANGED faults
       \/ Fault /\ Step(Finish(worker, "skipped"))

\* What may become of a transaction: preflight rejects an invalid one; a valid one lands,
\* or is rejected by the RPC, or lands although the wait for it timed out.
sendPolled(valid) ==
    IF ~valid THEN {"invalid"}
    ELSE {"landed"} \union (IF faults < MaxFaults THEN {"lost", "rejected"} ELSE {})

Lands(outcome) == outcome \in {"landed", "lost"}

Charge(outcome) == faults' = IF outcome \in {"lost", "rejected"} THEN faults + 1 ELSE faults

\* init_verify and verify; a failure, or a lost answer, is only logged.
Verify ==
    /\ worker.pc = "verify"
    /\ worker' = [worker EXCEPT !.pc = "commit"]
    /\ \E outcome \in sendPolled(TRUE) :
          /\ IF Lands(outcome) THEN Lz!Verify(Due) ELSE UNCHANGED lz
          /\ Charge(outcome)
    /\ UNCHANGED <<sol, sui, skipped>>

Commit ==
    /\ worker.pc = "commit"
    /\ worker' = [worker EXCEPT !.pc = "receive"]
    /\ \E outcome \in sendPolled(Lz!Committable(Due)) :
          /\ IF Lands(outcome) THEN Lz!Commit(Due) ELSE UNCHANGED lz
          /\ Charge(outcome)
    /\ UNCHANGED <<sol, sui, skipped>>

\* The instruction's parameters, from the packet.
serializeLzReceiveParams(n) ==
    LET packet == PacketOf(n) IN
    [sender  |-> SuiOApp, nonce |-> n,
     message |-> [type |-> 1, intentId |-> packet.id, blobId |-> packet.id.blob,
                  endEpoch |-> packet.endEpoch]]

\* The accounts of lz_receive, as the program's view instruction names them, would do.
resolveLzReceiveAccounts(n) ==
    /\ n \in ReturnNonces(events)
    /\ Sol!LzReceive(SuiOApp, Sol!lz_receive_types(PacketOf(n).id))

\* The program would accept the proof, were it executable at the endpoint.
Settleable(n) == resolveLzReceiveAccounts(n) /\ ~intents[PacketOf(n).id].executed

\* lz_receive: its answer alone decides the delivery.
Receive ==
    /\ worker.pc = "receive"
    /\ \E outcome \in sendPolled(Lz!Clearable(Due) /\ Settleable(Due)) :
          /\ IF Lands(outcome)
             THEN Sol!lz_receive(serializeLzReceiveParams(Due)) /\ Lz!Clear(Due)
             ELSE UNCHANGED <<sol, lz>>
          /\ worker' = Finish(worker, IF outcome = "landed" THEN "sent" ELSE "skipped")
          /\ Charge(outcome)
    /\ UNCHANGED <<sui, skipped>>

EndTick ==
    /\ worker.pc = "endTick"
    /\ Step([worker EXCEPT !.pc = "query", !.window = {}, !.frontier = 0, !.missing = 0])
    /\ UNCHANGED faults

WorkerStep ==
    \/ Query \/ healReturnGap \/ Scan
    \/ Deliver \/ Verify \/ Commit \/ Receive
    \/ EndTick

Next ==
    \/ ProgramStep
    \/ \E id \in Ids : Store(id) \/ \E endEpoch \in EndEpochs : SendProof(id, endEpoch)
    \/ SendElsewhere
    \/ \E k \in 1 .. PairsPerTx : SkipReturnNonce(k)
    \/ \E run \in BOOLEAN : runLoop(run) \/ \E n \in 1 .. MaxPackets : runOne(run, n)
    \/ Crash
    \/ WorkerStep

\* The service manager keeps a real worker running, and it keeps taking steps.  Nothing
\* is assumed of payers, the admin, the relayer on Sui or the operator.
Fairness == WF_vars(runLoop(TRUE)) /\ WF_vars(WorkerStep)

Spec == Init /\ [][Next]_vars /\ Fairness

-----------------------------------------------------------------------------
(* Properties.                                                             *)

\* The memory of the worker is safe to trust: what a worker that sends has put in `seen`,
\* and so never looks at again, is no longer waiting at the endpoint (solana-return.ts:669,
\* whatever was lost, retried, crashed or healed in between).
SeenMeansCleared ==
    worker.run => \A n \in worker.seen : Lz!Cleared(n)

\* A packet is skipped by hand, and its escrow given up, only if no history still has it:
\* the worker names a nonce to skip when its search of the history did not find it
\* (solana-return.ts:607-610).
SkippedWasLost == [][\A n \in skipped' \ skipped : n \notin Queryable]_vars

\* The payment of an intent made on Solana goes to the relayer only for a blob that is
\* stored, to the payer otherwise, and to one of them once, whichever of lz_receive,
\* confirm_execution and refund_escrow come in what order.
PaymentOf(id) ==
    CASE escrows[id] # NoAccount -> "held"
      [] closedTo[id] \in Admins -> "relayer"
      [] closedTo[id] \in Payers -> "payer"
      [] OTHER                   -> "none"

Bargain == INSTANCE StorageBargain WITH payment <- [id \in Ids |-> PaymentOf(id)]

KeepsTheBargain == Bargain!Spec

\* A proof the program would accept, still among the newest packets, with no lost packet
\* below it, does not wait for ever while a worker that sends is running: the heal and the
\* loop get it cleared.
Waiting(n) ==
    /\ worker.run
    /\ n \in querySuiPacketSent /\ n >= MinNonce
    /\ Settleable(n)
    /\ ~Lz!Cleared(n)
    /\ (inboundNonce + 1) .. n \subseteq Queryable

ProofsGetCleared == \A n \in 1 .. MaxPackets : []<>~Waiting(n)
=============================================================================
