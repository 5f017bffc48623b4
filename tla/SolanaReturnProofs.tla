-------------------------- MODULE SolanaReturnProofs --------------------------
(***************************************************************************)
(* Theorems about SolanaReturn, for any number of intents, packets and     *)
(* faults: the return leg keeps the storage bargain, what the worker       *)
(* remembers as delivered is cleared at the endpoint, and a nonce skipped  *)
(* by hand is one that no history has.                                     *)
(***************************************************************************)
EXTENDS SolanaReturn, FiniteSetTheorems, WellFoundedInduction, TLAPS

-----------------------------------------------------------------------------
(* The inductive invariant, part by part.                                  *)

\* The states in which deliver() runs, for the oldest packet of todo.
Sending == {"deliver", "verify", "commit", "receive"}

Shape ==
    /\ TypeOK
    /\ worker.pc \in Sending => worker.todo # {}
    /\ worker.pc \in {"heal", "scan"} => worker.window # {}

\* A vault that was closed is gone, and its intent stays, so that the id is never used again.
EscrowOk ==
    \A id \in Ids :
        /\ closedTo[id] # NoAccount => escrows[id] = NoAccount
        /\ intents[id] = NoAccount => escrows[id] = NoAccount /\ closedTo[id] = NoAccount

Sent == Cardinality(ReturnNonces(events))

\* The proofs on the pathway are numbered in the order of their events, and each is of a stored blob.
EventsOk ==
    /\ Sent \in Nat /\ ReturnNonces(events) = 1 .. Sent
    /\ \A i \in DOMAIN events :
          \/ events[i] = Foreign
          \/ isOurReturn(events[i]) /\ events[i].id \in stored /\ events[i].nonce # 0
    /\ \A i, j \in DOMAIN events :
          isOurReturn(events[i]) /\ isOurReturn(events[j]) /\ i < j => events[i].nonce < events[j].nonce

\* A packet that was sent and has scrolled out of the history.
Gone(n) == n \in 1 .. Sent /\ n \notin Queryable

\* What the heal did not find, or the log says to skip, is gone.
GoneOk ==
    /\ worker.window \subseteq 1 .. Sent
    /\ worker.missing # 0 => Gone(worker.missing)
    /\ worker.logged # 0 => Gone(worker.logged)

-----------------------------------------------------------------------------
(* Least and greatest elements.                                            *)

\* The order of the natural numbers is well founded.
Below == {p \in Nat \X Nat : p[1] < p[2]}

LEMMA Order == IsWellFoundedOn(Below, Nat)
<1>1. OpToRel(<, Nat) = Below
  BY Zenon DEF OpToRel, Below
<1> QED BY <1>1, NatLessThanWellFounded, Zenon

\* A set of natural numbers has a least element ...
LEMMA HasLeast ==
    ASSUME NEW S, S \subseteq Nat, S # {}
    PROVE  \E x \in S : \A y \in S : x <= y
<1>1. PICK x \in S : \A y \in S : ~(<<y, x>> \in Below)
  BY Order, WFMin
<1>2. ASSUME NEW y \in S PROVE x <= y
  <2>1. x \in Nat /\ y \in Nat /\ <<y, x>> \notin Below
    BY <1>1
  <2>2. y < x => <<y, x>> \in Below
    BY <2>1 DEF Below
  <2> QED BY <2>1, <2>2
<1> QED BY <1>2

LEMMA Least ==
    ASSUME NEW S, S \subseteq Nat, S # {}
    PROVE  Min(S) \in S /\ \A y \in S : Min(S) <= y
  BY HasLeast DEF Min

\* ... and a bounded one a greatest.
LEMMA Greatest ==
    ASSUME NEW S, NEW top \in Nat, S \subseteq 0 .. top, S # {}
    PROVE  Max(S) \in S /\ \A y \in S : Max(S) >= y
<1> DEFINE T == {k \in Nat : \A y \in S : y <= k}
<1>1. top \in T
  OBVIOUS
<1>2. PICK k \in T : \A l \in T : k <= l
  BY <1>1, HasLeast
<1>3. k \in S
  <2>1. SUFFICES ASSUME k \notin S PROVE FALSE
    OBVIOUS
  <2>2. PICK y \in S : TRUE
    OBVIOUS
  <2>3. k \in Nat /\ y \in Nat /\ y < k
    BY <1>2, <2>1
  <2>4. k - 1 \in Nat /\ \A z \in S : z <= k - 1
    BY <1>2, <2>1, <2>3
  <2> QED BY <1>2, <2>3, <2>4
<1>4. \A y \in S : k >= y
  BY <1>2
<1> QED BY <1>3, <1>4 DEF Max

\* The frontier of the endpoint is at or above where it is looked for.
LEMMA FrontierRises ==
    ASSUME NEW from \in 0 .. MaxPackets, NEW hashes, MaxPackets \in Nat
    PROVE  Lz!Frontier(from, hashes) \in from .. MaxPackets
<1> DEFINE ends == {m \in from .. MaxPackets : m = MaxPackets \/ hashes[m + 1] # "hash"}
<1>1. MaxPackets \in ends /\ ends \subseteq Nat
  OBVIOUS
<1>2. PICK m \in ends : \A l \in ends : m <= l
  BY <1>1, HasLeast
<1>3. \A n \in (from + 1) .. m : hashes[n] = "hash"
  <2> SUFFICES ASSUME NEW n \in (from + 1) .. m, hashes[n] # "hash" PROVE FALSE
    OBVIOUS
  <2>1. n - 1 \in from .. MaxPackets /\ (n - 1) + 1 = n /\ n - 1 < m
    BY <1>2
  <2>2. n - 1 \in ends
    BY <2>1
  <2> QED BY <1>2, <2>1, <2>2
<1>4. m < MaxPackets => hashes[m + 1] # "hash"
  BY <1>2
<1> QED BY <1>2, <1>3, <1>4 DEF Lz!Frontier

-----------------------------------------------------------------------------
(* The worker's own steps.                                                 *)

Nonces == 1 .. MaxPackets

\* A process v that goes on from w: it may have added `news` to what it has seen, and to the log
\* the packet it did not find.
GoesOn(v, w, news) ==
    /\ v \in Worker
    /\ v.run = w.run /\ v.window = w.window /\ v.missing = w.missing
    /\ v.pc \in Sending \union {"endTick"} /\ (v.pc \in Sending => v.todo # {})
    /\ v.seen \subseteq w.seen \union news
    /\ v.logged \in {w.logged, w.missing}

\* The bounds are natural numbers.
LEMMA Bounds ==
    /\ MaxPackets \in Nat /\ MaxEvents \in Nat /\ Window \in Nat /\ HistoryDepth \in Nat
    /\ MaxFaults \in Nat /\ MinNonce \in Nat /\ MaxNonce \in Nat /\ MaxTime \in Nat
  BY ReturnAssumption

LEMMA StoppedOk == Stopped \in Worker /\ \A w \in Worker : [Stopped EXCEPT !.logged = w.logged] \in Worker
<1>1. Stopped \in Worker
  BY Bounds DEF Stopped, Worker, Unblocked
<1> QED BY <1>1 DEF Worker

LEMMA LoopPhaseOk ==
    ASSUME NEW w \in Worker
    PROVE  GoesOn(LoopPhase(w), w, {}) /\ LoopPhase(w).logged = w.logged
<1> DEFINE due == {n \in w.window \ w.seen : n >= MinNonce}
           pc == IF due = {} THEN "endTick" ELSE "deliver"
<1>1. due \in SUBSET (1 .. MaxPackets) /\ pc \in {"endTick", "deliver"} /\ (pc = "deliver" => due # {})
  BY DEF Worker
<1>2. LoopPhase(w) = [w EXCEPT !.phase = "loop", !.todo = due, !.pc = pc]
  BY DEF LoopPhase
<1> HIDE DEF due, pc
<1>3. LoopPhase(w) \in Worker
  BY <1>1, <1>2 DEF Worker
<1> QED BY <1>1, <1>2, <1>3 DEF GoesOn, Worker, Sending

LEMMA GiveUpOk ==
    ASSUME NEW w \in Worker
    PROVE  /\ GiveUp(w) \in Worker
           /\ GiveUp(w).run = w.run /\ GiveUp(w).window = w.window /\ GiveUp(w).seen = w.seen
           /\ GiveUp(w).missing = w.missing /\ GiveUp(w).logged = w.missing
  BY DEF GiveUp, Worker

\* deliver() has answered.
LEMMA FinishOk ==
    ASSUME NEW w \in Worker, w.todo # {}, NEW answer
    PROVE  \/ Finish(w, answer) = Fresh
           \/ GoesOn(Finish(w, answer), w, IF answer = "skipped" THEN {} ELSE {Min(w.todo)})
<1> DEFINE due == Min(w.todo)
           rest == [w EXCEPT !.todo = @ \ {due}, !.pc = "deliver"]
           noted == IF answer = "skipped" THEN rest
                    ELSE [rest EXCEPT !.seen = @ \union {due}]
           news == IF answer = "skipped" THEN {} ELSE {due}
<1>1. due \in 1 .. MaxPackets
  <2>1. w.todo \subseteq 1 .. MaxPackets
    BY DEF Worker
  <2>2. w.todo \subseteq Nat
    BY <2>1, Bounds
  <2> QED BY <2>1, <2>2, Least
<1> HIDE DEF due
<1>2. /\ rest \in Worker /\ rest.run = w.run /\ rest.window = w.window /\ rest.missing = w.missing
      /\ rest.seen = w.seen /\ rest.logged = w.logged /\ rest.pc = "deliver"
  BY DEF Worker
<1> HIDE DEF rest
<1>3. CASE w.phase = "one"
  BY <1>3 DEF Finish
<1>4. CASE w.phase = "loop"
  <2>1. Finish(w, answer) = IF noted.todo = {} THEN [noted EXCEPT !.pc = "endTick"] ELSE noted
    BY <1>4 DEF Finish, rest, due
  <2>2. /\ noted \in Worker /\ noted.run = w.run /\ noted.window = w.window
        /\ noted.missing = w.missing /\ noted.seen \subseteq w.seen \union news
        /\ noted.logged = w.logged /\ noted.pc = "deliver"
    BY <1>1, <1>2 DEF Worker
  <2> HIDE DEF noted
  <2>3. CASE noted.todo = {}
    <3>1. Finish(w, answer) = [noted EXCEPT !.pc = "endTick"]
      BY <2>1, <2>3
    <3>2. Finish(w, answer) \in Worker
      BY <2>2, <3>1 DEF Worker
    <3> QED BY <2>2, <3>1, <3>2 DEF GoesOn, Worker, Sending, due
  <2>4. CASE noted.todo # {}
    BY <2>1, <2>2, <2>4 DEF GoesOn, due, Sending
  <2> QED BY <2>3, <2>4
<1>5. CASE w.phase = "heal" /\ answer = "skipped"
  <2>1. Finish(w, answer) = LoopPhase(w)
    BY <1>5 DEF Finish
  <2> QED BY <1>5, <2>1, LoopPhaseOk
<1>6. CASE w.phase = "heal" /\ answer # "skipped"
  <2> DEFINE healed == [rest EXCEPT !.blockedAt = Unblocked]
  <2>1. Finish(w, answer) = CASE rest.todo # {} -> healed
                              [] rest.todo = {} /\ w.missing = 0 -> LoopPhase(healed)
                              [] rest.todo = {} /\ w.missing # 0 -> LoopPhase(GiveUp(rest))
    BY <1>6 DEF Finish, rest, due
  <2>2. /\ healed \in Worker /\ healed.run = w.run /\ healed.window = w.window
        /\ healed.missing = w.missing /\ healed.seen = w.seen /\ healed.logged = w.logged
        /\ healed.todo = rest.todo /\ healed.pc = "deliver"
    BY <1>2 DEF Worker
  <2> HIDE DEF healed
  <2>3. CASE rest.todo # {}
    BY <2>1, <2>2, <2>3 DEF GoesOn, Sending
  <2>4. CASE rest.todo = {} /\ w.missing = 0
    <3>1. Finish(w, answer) = LoopPhase(healed)
      BY <2>1, <2>4
    <3> QED BY <2>2, <3>1, LoopPhaseOk DEF GoesOn
  <2>5. CASE rest.todo = {} /\ w.missing # 0
    <3>1. Finish(w, answer) = LoopPhase(GiveUp(rest))
      BY <2>1, <2>5
    <3>2. GoesOn(LoopPhase(GiveUp(rest)), GiveUp(rest), {})
      BY <1>2, GiveUpOk, LoopPhaseOk
    <3> QED BY <1>2, <3>1, <3>2, GiveUpOk DEF GoesOn
  <2> QED BY <2>3, <2>4, <2>5
<1>7. w.phase \in {"heal", "loop", "one"}
  BY DEF Worker
<1> QED BY <1>3, <1>4, <1>5, <1>6, <1>7

\* healReturnGap() has searched the history.
LEMMA HealPhaseOk ==
    ASSUME NEW w \in Worker, NEW found, w.window # {}
    PROVE  \E m \in 0 .. MaxPackets :
              /\ m # 0 => m \in (w.frontier + 1) .. Max(w.window) /\ m \notin found
              /\ GoesOn(HealPhase(w, found), [w EXCEPT !.missing = m], {})
<1> DEFINE range == (w.frontier + 1) .. Max(w.window)
           absent == range \ found
           missing == IF absent = {} THEN 0 ELSE Min(absent)
           ordered == IF absent = {} THEN range ELSE (w.frontier + 1) .. (missing - 1)
           v == [w EXCEPT !.missing = missing]
<1>1. w.window \subseteq 0 .. MaxPackets /\ w.frontier \in 0 .. MaxPackets /\ w.window \subseteq 1 .. MaxPackets
  BY Bounds DEF Worker
<1>2. Max(w.window) \in 1 .. MaxPackets
  BY <1>1, Bounds, Greatest
<1>3. range \subseteq 1 .. MaxPackets /\ absent \subseteq Nat
  BY <1>1, <1>2, Bounds
<1>4. absent # {} => Min(absent) \in absent
  BY <1>3, Least
<1>5. missing \in 0 .. MaxPackets /\ (missing # 0 => missing \in range /\ missing \notin found)
  BY <1>3, <1>4, Bounds
<1>6. ordered \subseteq 1 .. MaxPackets
  BY <1>1, <1>3, <1>5, Bounds
<1>7. HealPhase(w, found) =
         IF ordered = {} THEN LoopPhase(GiveUp(v))
         ELSE [w EXCEPT !.phase = "heal", !.todo = ordered, !.missing = missing, !.pc = "deliver"]
  BY DEF HealPhase
<1> HIDE DEF missing, ordered
<1>8. v \in Worker /\ v.missing = missing
  BY <1>5 DEF Worker
<1>9. GoesOn(HealPhase(w, found), v, {})
  <2>1. CASE ordered = {}
    <3>1. GoesOn(LoopPhase(GiveUp(v)), GiveUp(v), {})
      BY <1>8, GiveUpOk, LoopPhaseOk
    <3> QED BY <1>7, <1>8, <2>1, <3>1, GiveUpOk DEF GoesOn
  <2>2. CASE ordered # {}
    <3> DEFINE u == [w EXCEPT !.phase = "heal", !.todo = ordered, !.missing = missing, !.pc = "deliver"]
    <3>1. /\ u \in Worker /\ u.run = v.run /\ u.window = v.window /\ u.missing = v.missing
          /\ u.seen = v.seen /\ u.logged = v.logged /\ u.todo = ordered
      BY <1>5, <1>6 DEF Worker
    <3>2. u.pc = "deliver"
      BY DEF Worker
    <3> QED BY <1>7, <2>2, <3>1, <3>2 DEF GoesOn, Sending
  <2> QED BY <2>1, <2>2
<1> QED BY <1>5, <1>9

-----------------------------------------------------------------------------
(* The adapter.                                                            *)

LEMMA NotNone ==
    /\ \A a \in Payers \union Admins \union PeerAddresses : a # NoAccount
    /\ \A a \in Sol!IntentState \union Sol!EscrowVault : a # NoAccount
  BY ReturnAssumption

\* An intent is marked as executed.
LEMMA Marked ==
    ASSUME Sol!TypeOK, NEW id \in Ids, NEW endEpoch \in EndEpochs, intents[id] # NoAccount,
           Sol!MarkExecuted(id, endEpoch)
    PROVE  /\ intents' \in [Ids -> Sol!IntentState \union {NoAccount}]
           /\ \A i \in Ids : intents[i] # NoAccount => intents'[i] # NoAccount
<1> DEFINE new == [intents[id] EXCEPT !.executed = TRUE, !.endEpoch = endEpoch]
<1>1. intents \in [Ids -> Sol!IntentState \union {NoAccount}] /\ intents[id] \in Sol!IntentState
  BY DEF Sol!TypeOK, Ids
<1>2. new \in Sol!IntentState
  BY <1>1 DEF Sol!IntentState
<1>3. intents' = [intents EXCEPT ![id] = new]
  BY <1>1 DEF Sol!MarkExecuted
<1> HIDE DEF new
<1>4. intents' \in [Ids -> Sol!IntentState \union {NoAccount}]
  BY <1>1, <1>2, <1>3
<1>5. \A i \in Ids : intents[i] # NoAccount => intents'[i] # NoAccount
  BY <1>1, <1>2, <1>3, NotNone
<1> QED BY <1>4, <1>5

\* A vault is closed.
LEMMA Closed ==
    ASSUME Sol!TypeOK, NEW id \in Ids, NEW account \in Payers \union Admins, Sol!Close(id, account)
    PROVE  /\ escrows' \in [Ids -> Sol!EscrowVault \union {NoAccount}]
           /\ closedTo' \in [Ids -> Payers \union Admins \union {NoAccount}]
           /\ escrows'[id] = NoAccount /\ closedTo'[id] = account
           /\ \A i \in Ids \ {id} : escrows'[i] = escrows[i] /\ closedTo'[i] = closedTo[i]
<1>1. /\ escrows \in [Ids -> Sol!EscrowVault \union {NoAccount}]
      /\ closedTo \in [Ids -> Payers \union Admins \union {NoAccount}]
  BY DEF Sol!TypeOK, Ids
<1> QED BY <1>1 DEF Sol!Close

\* submit_intent().
LEMMA Submitted ==
    ASSUME Sol!TypeOK, EscrowOk, NEW p \in Payers, NEW b \in Blobs, NEW d \in Deadlines, NEW a \in Amounts,
           Sol!submit_intent(p, b, d, a)
    PROVE  /\ (Sol!TypeOK)' /\ EscrowOk'
           /\ \E id \in Ids : /\ escrows[id] = NoAccount /\ closedTo[id] = NoAccount
                              /\ escrows'[id] # NoAccount
                              /\ \A i \in Ids \ {id} : escrows'[i] = escrows[i]
<1> DEFINE id == Sol!compute_intent_id(b, d, p, nonces[p])
           vault == [payer |-> p, beneficiary |-> admin, amount |-> a, deadline |-> d,
                     status |-> "pending"]
           new == [blob |-> b, executed |-> FALSE, endEpoch |-> 0]
<1>1. /\ nonces \in [Payers -> 0 .. MaxNonce] /\ admin \in Admins \union {NoAccount}
      /\ escrows \in [Ids -> Sol!EscrowVault \union {NoAccount}]
      /\ intents \in [Ids -> Sol!IntentState \union {NoAccount}]
      /\ forwarded \subseteq [id : Ids, receiver : PeerAddresses]
      /\ peer \in PeerAddresses \union {NoAccount}
  BY DEF Sol!TypeOK, Ids
<1>2. /\ nonces[p] < MaxNonce /\ admin # NoAccount /\ peer # NoAccount
      /\ intents[id] = NoAccount /\ escrows[id] = NoAccount
  BY DEF Sol!submit_intent, Sol!SubmitIntent, Sol!Exists
<1>3. nonces[p] \in 0 .. (MaxNonce - 1) /\ nonces[p] + 1 \in 0 .. MaxNonce
  BY <1>1, <1>2, Bounds
<1>4. id \in Ids
  BY <1>3 DEF Sol!compute_intent_id, Ids, Sol!Ids
<1>5. vault \in Sol!EscrowVault /\ new \in Sol!IntentState
  BY <1>1, <1>2 DEF Sol!EscrowVault, Sol!IntentState
<1>6. Sol!encode_forward(id) \in [id : Ids, receiver : PeerAddresses]
  BY <1>1, <1>2, <1>4 DEF Sol!encode_forward
<1>7. /\ intents' = [intents EXCEPT ![id] = new] /\ escrows' = [escrows EXCEPT ![id] = vault]
      /\ nonces' = [nonces EXCEPT ![p] = @ + 1]
      /\ forwarded' = forwarded \union {Sol!encode_forward(id)}
      /\ UNCHANGED <<now, admin, peer, closedTo>>
  BY DEF Sol!submit_intent
<1> HIDE DEF id, vault, new
<1>8. /\ intents' \in [Ids -> Sol!IntentState \union {NoAccount}]
      /\ escrows' \in [Ids -> Sol!EscrowVault \union {NoAccount}]
      /\ escrows'[id] = vault /\ intents'[id] = new
      /\ \A i \in Ids \ {id} : escrows'[i] = escrows[i] /\ intents'[i] = intents[i]
  BY <1>1, <1>4, <1>5, <1>7
<1>9. nonces' \in [Payers -> 0 .. MaxNonce]
  BY <1>1, <1>3, <1>7
<1>10. (Sol!TypeOK)'
  BY <1>6, <1>7, <1>8, <1>9 DEF Sol!TypeOK, Ids
<1>11. closedTo[id] = NoAccount
  BY <1>2, <1>4 DEF EscrowOk
<1>12. EscrowOk'
  BY <1>5, <1>7, <1>8, <1>11, NotNone DEF EscrowOk, Ids, Sol!Ids
<1> QED BY <1>2, <1>4, <1>5, <1>8, <1>10, <1>11, <1>12, NotNone

\* lz_receive() of a stored intent's proof, and what is paid by it.
LEMMA Received ==
    ASSUME Sol!TypeOK, EscrowOk, NEW n, PacketOf(n).id \in Ids, PacketOf(n).endEpoch \in EndEpochs,
           Sol!lz_receive(serializeLzReceiveParams(n))
    PROVE  /\ (Sol!TypeOK)' /\ EscrowOk'
           /\ LET id == PacketOf(n).id
              IN  /\ escrows[id] # NoAccount
                  /\ escrows'[id] = NoAccount /\ closedTo'[id] \in Admins
                  /\ \A i \in Ids \ {id} : escrows'[i] = escrows[i] /\ closedTo'[i] = closedTo[i]
<1>1. PICK id \in Ids, e \in EndEpochs : id = PacketOf(n).id /\ e = PacketOf(n).endEpoch
  OBVIOUS
<1>2. /\ serializeLzReceiveParams(n).message.type = 1 /\ serializeLzReceiveParams(n).sender = SuiOApp
      /\ Sol!decode_proof(serializeLzReceiveParams(n).message).id = id
      /\ Sol!decode_proof(serializeLzReceiveParams(n).message).endEpoch = e
  BY <1>1 DEF serializeLzReceiveParams, Sol!decode_proof
<1>3. /\ Sol!LzReceive(SuiOApp, Sol!lz_receive_types(id))
      /\ Sol!MarkExecuted(id, e)
      /\ Sol!Close(id, escrows[id].beneficiary)
      /\ UNCHANGED <<now, admin, peer, nonces, forwarded>>
  BY <1>2 DEF Sol!lz_receive
<1>4. intents[id] # NoAccount /\ escrows[id] # NoAccount
  BY <1>3 DEF Sol!LzReceive, Sol!lz_receive_types, Sol!Exists
<1>5. escrows[id] \in Sol!EscrowVault
  BY <1>1, <1>4 DEF Sol!TypeOK, Ids
<1>6. escrows[id].beneficiary \in Admins
  BY <1>5 DEF Sol!EscrowVault
<1>7. /\ intents' \in [Ids -> Sol!IntentState \union {NoAccount}]
      /\ \A i \in Ids : intents[i] # NoAccount => intents'[i] # NoAccount
  BY <1>1, <1>3, <1>4, Marked
<1>8. /\ escrows' \in [Ids -> Sol!EscrowVault \union {NoAccount}]
      /\ closedTo' \in [Ids -> Payers \union Admins \union {NoAccount}]
      /\ escrows'[id] = NoAccount /\ closedTo'[id] = escrows[id].beneficiary
      /\ \A i \in Ids \ {id} : escrows'[i] = escrows[i] /\ closedTo'[i] = closedTo[i]
  BY <1>1, <1>3, <1>6, Closed
<1>9. (Sol!TypeOK)'
  BY <1>3, <1>7, <1>8 DEF Sol!TypeOK, Ids
<1>10. EscrowOk'
  BY <1>4, <1>7, <1>8 DEF EscrowOk, Ids, Sol!Ids
<1> QED BY <1>1, <1>4, <1>6, <1>8, <1>9, <1>10

\* refund_escrow().
LEMMA Refunded ==
    ASSUME Sol!TypeOK, EscrowOk, NEW p \in Payers, NEW id \in Ids, Sol!refund_escrow(p, id)
    PROVE  /\ (Sol!TypeOK)' /\ EscrowOk'
           /\ escrows[id] # NoAccount /\ escrows'[id] = NoAccount /\ closedTo'[id] = p
           /\ \A i \in Ids \ {id} : escrows'[i] = escrows[i] /\ closedTo'[i] = closedTo[i]
<1>1. /\ escrows[id] # NoAccount /\ Sol!Close(id, p)
      /\ UNCHANGED <<now, admin, peer, nonces, intents, forwarded>>
  BY DEF Sol!refund_escrow, Sol!RefundEscrow, Sol!Exists
<1>2. /\ escrows' \in [Ids -> Sol!EscrowVault \union {NoAccount}]
      /\ closedTo' \in [Ids -> Payers \union Admins \union {NoAccount}]
      /\ escrows'[id] = NoAccount /\ closedTo'[id] = p
      /\ \A i \in Ids \ {id} : escrows'[i] = escrows[i] /\ closedTo'[i] = closedTo[i]
  BY <1>1, Closed
<1>3. (Sol!TypeOK)'
  BY <1>1, <1>2 DEF Sol!TypeOK, Ids
<1>4. ASSUME NEW i \in Ids
      PROVE  /\ closedTo'[i] # NoAccount => escrows'[i] = NoAccount
             /\ intents'[i] = NoAccount => escrows'[i] = NoAccount /\ closedTo'[i] = NoAccount
  <2>1. CASE i = id
    BY <1>1, <1>2, <2>1 DEF EscrowOk
  <2>2. CASE i # id
    BY <1>1, <1>2, <2>2 DEF EscrowOk
  <2> QED BY <2>1, <2>2
<1>5. EscrowOk'
  BY <1>4 DEF EscrowOk, Ids, Sol!Ids
<1> QED BY <1>1, <1>2, <1>3, <1>5

\* The payments, as the bargain sees them.
Payment == [id \in Ids |-> PaymentOf(id)]

\* What the program does to the escrows in one step, other than by a proof.
LEMMA ProgramKeeps ==
    ASSUME Sol!TypeOK, EscrowOk, ProgramStep
    PROVE  /\ (Sol!TypeOK)' /\ EscrowOk'
           /\ \/ UNCHANGED <<escrows, closedTo>>
              \/ UNCHANGED closedTo /\ \E id \in Ids :
                    /\ escrows[id] = NoAccount /\ closedTo[id] = NoAccount
                    /\ escrows'[id] # NoAccount
                    /\ \A i \in Ids \ {id} : escrows'[i] = escrows[i]
              \/ \E p \in Payers, id \in Ids :
                    /\ escrows[id] # NoAccount /\ escrows'[id] = NoAccount /\ closedTo'[id] = p
                    /\ \A i \in Ids \ {id} : escrows'[i] = escrows[i] /\ closedTo'[i] = closedTo[i]
<1>1. ASSUME NEW a \in Admins, Sol!init_store(a)
      PROVE  (Sol!TypeOK)' /\ EscrowOk' /\ UNCHANGED <<escrows, closedTo>>
  BY <1>1 DEF Sol!init_store, Sol!TypeOK, EscrowOk, Ids, Sol!Ids
<1>2. ASSUME NEW a \in Admins, NEW address \in PeerAddresses, Sol!set_peer(a, address)
      PROVE  (Sol!TypeOK)' /\ EscrowOk' /\ UNCHANGED <<escrows, closedTo>>
  BY <1>2 DEF Sol!set_peer, Sol!TypeOK, EscrowOk, Ids, Sol!Ids
<1>3. ASSUME NEW p \in Payers, NEW b \in Blobs, NEW d \in Deadlines, NEW a \in Amounts,
             Sol!submit_intent(p, b, d, a)
      PROVE  UNCHANGED closedTo
  BY <1>3 DEF Sol!submit_intent
<1>4. ASSUME NEW a \in Admins, NEW id \in Ids, NEW e \in EndEpochs, confirmExecution(a, id, e)
      PROVE  (Sol!TypeOK)' /\ EscrowOk' /\ UNCHANGED <<escrows, closedTo>>
  <2>1. /\ intents[id] # NoAccount /\ Sol!MarkExecuted(id, e)
        /\ UNCHANGED <<now, admin, peer, nonces, escrows, closedTo, forwarded>>
    BY <1>4 DEF confirmExecution, Sol!confirm_execution, Sol!ConfirmExecution, Sol!Exists
  <2>2. /\ intents' \in [Ids -> Sol!IntentState \union {NoAccount}]
        /\ \A i \in Ids : intents[i] # NoAccount => intents'[i] # NoAccount
    BY <2>1, Marked
  <2>3. (Sol!TypeOK)'
    BY <2>1, <2>2 DEF Sol!TypeOK, Ids
  <2>4. EscrowOk'
    BY <2>1, <2>2 DEF EscrowOk, Ids, Sol!Ids
  <2> QED BY <2>1, <2>3, <2>4
<1>5. CASE Sol!Clock
  <2>1. now' \in 0 .. MaxTime /\ UNCHANGED <<admin, peer, nonces, intents, escrows, closedTo, forwarded>>
    BY <1>5, Bounds DEF Sol!Clock, Sol!TypeOK
  <2> QED BY <2>1 DEF Sol!TypeOK, EscrowOk, Ids, Sol!Ids
<1>6. \/ \E a \in Admins : Sol!init_store(a)
      \/ \E a \in Admins, address \in PeerAddresses : Sol!set_peer(a, address)
      \/ \E p \in Payers, b \in Blobs, d \in Deadlines, a \in Amounts : Sol!submit_intent(p, b, d, a)
      \/ \E a \in Admins, id \in Ids, e \in EndEpochs : confirmExecution(a, id, e)
      \/ \E p \in Payers, id \in Ids : Sol!refund_escrow(p, id)
      \/ Sol!Clock
  BY DEF ProgramStep
<1>7. CASE \E p \in Payers, b \in Blobs, d \in Deadlines, a \in Amounts : Sol!submit_intent(p, b, d, a)
  BY <1>3, <1>7, Submitted
<1>8. CASE \E p \in Payers, id \in Ids : Sol!refund_escrow(p, id)
  BY <1>8, Refunded
<1> QED BY <1>1, <1>2, <1>4, <1>5, <1>6, <1>7, <1>8

-----------------------------------------------------------------------------
(* The endpoint.                                                           *)

\* What is cleared stays cleared.
ClearedStays ==
    \A n \in Nonces : Lz!Cleared(n) => n <= inboundNonce' /\ payloadHash'[n] = "none"

LEMMA VerifyKeeps ==
    ASSUME Lz!TypeOK, NEW n \in Nonces, Lz!Verify(n)
    PROVE  (Lz!TypeOK)' /\ ClearedStays
<1>1. /\ confirmations \subseteq Nonces /\ inboundNonce \in 0 .. MaxPackets
      /\ payloadHash \in [Nonces -> {"none", "empty", "hash"}]
  BY DEF Lz!TypeOK, Lz!Nonces, Nonces
<1> DEFINE new == IF payloadHash[n] = "none" /\ n > inboundNonce THEN "empty" ELSE payloadHash[n]
<1>2. /\ payloadHash' = [payloadHash EXCEPT ![n] = new]
      /\ confirmations' = confirmations \union {n} /\ UNCHANGED inboundNonce
  BY DEF Lz!Verify
<1>3. payloadHash' \in [Nonces -> {"none", "empty", "hash"}]
  BY <1>1, <1>2
<1>4. ClearedStays
  BY <1>1, <1>2, Bounds DEF ClearedStays, Lz!Cleared, Nonces
<1> QED BY <1>1, <1>2, <1>3, <1>4 DEF Lz!TypeOK, Lz!Nonces, Nonces

LEMMA CommitKeeps ==
    ASSUME Lz!TypeOK, NEW n \in Nonces, Lz!Commit(n)
    PROVE  (Lz!TypeOK)' /\ ClearedStays
<1>1. /\ confirmations \subseteq Nonces /\ inboundNonce \in 0 .. MaxPackets
      /\ payloadHash \in [Nonces -> {"none", "empty", "hash"}]
  BY DEF Lz!TypeOK, Lz!Nonces, Nonces
<1>2. /\ payloadHash' = [payloadHash EXCEPT ![n] = "hash"] /\ payloadHash[n] # "none"
      /\ inboundNonce' = Lz!Frontier(inboundNonce, payloadHash') /\ UNCHANGED confirmations
  BY DEF Lz!Commit, Lz!Committable
<1>3. inboundNonce' \in inboundNonce .. MaxPackets
  BY <1>1, <1>2, Bounds, FrontierRises
<1>4. payloadHash' \in [Nonces -> {"none", "empty", "hash"}]
  BY <1>1, <1>2
<1>5. ClearedStays
  BY <1>1, <1>2, <1>3, Bounds DEF ClearedStays, Lz!Cleared, Nonces
<1> QED BY <1>1, <1>2, <1>3, <1>4, <1>5, Bounds DEF Lz!TypeOK, Lz!Nonces, Nonces

LEMMA ClearKeeps ==
    ASSUME Lz!TypeOK, NEW n \in Nonces, Lz!Clear(n)
    PROVE  (Lz!TypeOK)' /\ ClearedStays /\ n <= inboundNonce' /\ payloadHash'[n] = "none"
<1>1. /\ confirmations \subseteq Nonces /\ inboundNonce \in 0 .. MaxPackets
      /\ payloadHash \in [Nonces -> {"none", "empty", "hash"}]
  BY DEF Lz!TypeOK, Lz!Nonces, Nonces
<1>2. /\ payloadHash' = [payloadHash EXCEPT ![n] = "none"] /\ n <= inboundNonce
      /\ UNCHANGED <<inboundNonce, confirmations>>
  BY DEF Lz!Clear, Lz!Clearable
<1>3. payloadHash' \in [Nonces -> {"none", "empty", "hash"}] /\ payloadHash'[n] = "none"
  BY <1>1, <1>2
<1>4. ClearedStays
  BY <1>1, <1>2 DEF ClearedStays, Lz!Cleared
<1> QED BY <1>1, <1>2, <1>3, <1>4 DEF Lz!TypeOK, Lz!Nonces, Nonces

LEMMA SkipKeeps ==
    ASSUME Lz!TypeOK, NEW k \in Nat, Lz!Skip(k)
    PROVE  (Lz!TypeOK)' /\ ClearedStays
<1>1. /\ confirmations \subseteq Nonces /\ inboundNonce \in 0 .. MaxPackets
      /\ payloadHash \in [Nonces -> {"none", "empty", "hash"}]
  BY DEF Lz!TypeOK, Lz!Nonces, Nonces
<1>2. /\ payloadHash' = [n \in Nonces |-> IF n \in (inboundNonce + 1) .. (inboundNonce + k)
                                          THEN "none" ELSE payloadHash[n]]
      /\ inboundNonce + k <= MaxPackets
      /\ inboundNonce' = Lz!Frontier(inboundNonce + k, payloadHash') /\ UNCHANGED confirmations
  BY DEF Lz!Skip, Lz!Nonces, Nonces
<1>3. inboundNonce + k \in 0 .. MaxPackets
  BY <1>1, <1>2, Bounds
<1>4. inboundNonce' \in (inboundNonce + k) .. MaxPackets
  BY <1>2, <1>3, Bounds, FrontierRises
<1>5. payloadHash' \in [Nonces -> {"none", "empty", "hash"}]
  BY <1>1, <1>2
<1>6. inboundNonce' \in 0 .. MaxPackets /\ inboundNonce <= inboundNonce'
  BY <1>1, <1>3, <1>4, Bounds
<1>7. ClearedStays
  BY <1>1, <1>2, <1>6, Bounds DEF ClearedStays, Lz!Cleared, Nonces
<1> QED BY <1>1, <1>2, <1>5, <1>6, <1>7 DEF Lz!TypeOK, Lz!Nonces, Nonces

-----------------------------------------------------------------------------
(* The events on Sui.                                                      *)

\* The newest `limit` elements of s, and where they are.
Newest(s, limit) == IF Len(s) <= limit THEN s ELSE SubSeq(s, Len(s) - limit + 1, Len(s))

LEMMA NewestNonces ==
    ASSUME NEW S, NEW s \in Seq(S), NEW limit \in Nat, NEW n
    PROVE  n \in ReturnNonces(Newest(s, limit)) <=>
              \E i \in DOMAIN s : i > Len(s) - limit /\ isOurReturn(s[i]) /\ s[i].nonce = n
<1> DEFINE t == Newest(s, limit)
           drop == IF Len(s) <= limit THEN 0 ELSE Len(s) - limit
<1>1. DOMAIN s = 1 .. Len(s) /\ Len(s) \in Nat /\ drop \in Nat
  OBVIOUS
<1>2. DOMAIN t = 1 .. (Len(s) - drop) /\ \A i \in 1 .. (Len(s) - drop) : t[i] = s[i + drop]
  <2>1. CASE Len(s) <= limit
    BY <1>1, <2>1 DEF Newest
  <2>2. CASE Len(s) > limit
    <3>1. ~(Len(s) <= limit)
      BY <1>1, <2>2
    <3>2. t = SubSeq(s, Len(s) - limit + 1, Len(s)) /\ drop = Len(s) - limit
      BY <3>1, Zenon DEF Newest
    <3> DEFINE k == Len(s) - limit
               l == Len(s)
    <3>3. k \in Nat /\ l \in Nat /\ k <= l
      BY <1>1, <2>2
    <3>4. t = SubSeq(s, k + 1, l) /\ drop = k
      BY <3>2
    <3>5. \A i \in 1 .. l : s[i] \in S
      OBVIOUS
    <3> HIDE DEF t, drop, k, l
    <3>6. /\ Len(SubSeq(s, k + 1, l)) = l - k /\ DOMAIN SubSeq(s, k + 1, l) = 1 .. (l - k)
      BY <3>3, <3>5
    <3>7. \A i \in 1 .. (l - k) : SubSeq(s, k + 1, l)[i] = s[i + k]
      BY <3>3, <3>5
    <3>8. Len(s) - drop = l - k
      BY <3>4 DEF l
    <3>9. DOMAIN t = 1 .. (l - k) /\ \A i \in 1 .. (l - k) : t[i] = s[i + k]
      BY <3>4, <3>6, <3>7, Zenon
    <3> QED BY <3>4, <3>8, <3>9, Zenon
  <2> QED BY <1>1, <2>1, <2>2
<1> HIDE DEF t
<1>3. n \in ReturnNonces(t) <=> \E i \in DOMAIN t : isOurReturn(t[i]) /\ t[i].nonce = n
  BY DEF ReturnNonces
<1>4. ASSUME NEW i \in DOMAIN t, isOurReturn(t[i]), t[i].nonce = n
      PROVE  \E j \in DOMAIN s : j > Len(s) - limit /\ isOurReturn(s[j]) /\ s[j].nonce = n
  <2>1. i + drop \in DOMAIN s /\ i + drop > Len(s) - limit /\ s[i + drop] = t[i]
    BY <1>1, <1>2, <1>4
  <2> QED BY <1>4, <2>1
<1>5. ASSUME NEW j \in DOMAIN s, j > Len(s) - limit, isOurReturn(s[j]), s[j].nonce = n
      PROVE  \E i \in DOMAIN t : isOurReturn(t[i]) /\ t[i].nonce = n
  <2>1. j - drop \in DOMAIN t /\ (j - drop) + drop = j
    BY <1>1, <1>2, <1>5
  <2>2. t[j - drop] = s[j]
    BY <1>2, <2>1
  <2> QED BY <1>5, <2>1, <2>2
<1> QED BY <1>3, <1>4, <1>5 DEF t

\* The history that can be queried.
LEMMA InQueryable ==
    ASSUME TypeOK, NEW n
    PROVE  n \in Queryable <=>
              \E i \in DOMAIN events :
                 i > Len(events) - HistoryDepth /\ isOurReturn(events[i]) /\ events[i].nonce = n
<1>1. Queryable = ReturnNonces(Newest(events, HistoryDepth))
  BY DEF Queryable, queryEventsBySender, Newest
<1>2. events \in Seq(Packets \union {Foreign})
  BY DEF TypeOK
<1> QED BY <1>1, <1>2, Bounds, NewestNonces

\* A packet below one that is gone is gone.
LEMMA GoneBelow ==
    ASSUME TypeOK, EventsOk, NEW m, Gone(m), NEW n \in 1 .. m
    PROVE  Gone(n)
<1>1. m \in 1 .. Sent /\ n \in 1 .. Sent /\ Sent \in Nat
  BY DEF EventsOk, Gone
<1>2. SUFFICES ASSUME n \in Queryable PROVE FALSE
  BY <1>1 DEF Gone
<1>3. PICK j \in DOMAIN events :
         j > Len(events) - HistoryDepth /\ isOurReturn(events[j]) /\ events[j].nonce = n
  BY <1>2, InQueryable
<1>4. PICK i \in DOMAIN events : isOurReturn(events[i]) /\ events[i].nonce = m
  BY <1>1 DEF EventsOk, ReturnNonces
<1>5. DOMAIN events = 1 .. Len(events) /\ Len(events) \in Nat
  BY DEF TypeOK
<1>6. ~(i < j)
  BY <1>1, <1>3, <1>4 DEF EventsOk
<1>7. i > Len(events) - HistoryDepth
  BY <1>3, <1>4, <1>5, <1>6, Bounds
<1> QED BY <1>4, <1>7, InQueryable DEF Gone

\* What is gone stays so.
GoneStays ==
    /\ Sent \in Nat /\ Sent' \in Nat /\ Sent <= Sent'
    /\ \A n : Gone(n) => n \in 1 .. Sent' /\ n \notin Queryable'

LEMMA EventAppended ==
    ASSUME TypeOK, EventsOk, NEW e \in Packets \union {Foreign}, events' = Append(events, e),
           Len(events) < MaxEvents, stored \subseteq stored',
           e = Foreign \/ (isOurReturn(e) /\ e.nonce = Sent + 1 /\ e.id \in stored')
    PROVE  /\ events' \in Seq(Packets \union {Foreign}) /\ Len(events') <= MaxEvents
           /\ EventsOk' /\ GoneStays
<1> DEFINE T == Packets \union {Foreign}
           L == Len(events)
<1>1. events \in Seq(T) /\ L \in Nat /\ DOMAIN events = 1 .. L /\ Sent \in Nat
      /\ ReturnNonces(events) = 1 .. Sent
  BY DEF TypeOK, EventsOk
<1>2. /\ events' \in Seq(T) /\ Len(events') = L + 1 /\ DOMAIN events' = 1 .. (L + 1)
      /\ events'[L + 1] = e /\ \A i \in 1 .. L : events'[i] = events[i]
  BY <1>1
<1>3. Len(events') <= MaxEvents
  BY <1>1, <1>2, Bounds
<1>4. ~isOurReturn(Foreign)
  BY DEF isOurReturn, Foreign
<1>5. \A i \in DOMAIN events : isOurReturn(events[i]) => events[i].nonce \in 1 .. Sent
  BY <1>1 DEF ReturnNonces
<1>6. ReturnNonces(events') = IF isOurReturn(e) THEN 1 .. (Sent + 1) ELSE 1 .. Sent
  <2>1. ASSUME NEW n
        PROVE  n \in ReturnNonces(events') <=>
                  n \in ReturnNonces(events) \/ (isOurReturn(e) /\ n = e.nonce)
    BY <1>1, <1>2 DEF ReturnNonces
  <2>2. CASE isOurReturn(e)
    <3>1. e.nonce = Sent + 1
      BY <1>4, <2>2
    <3>2. \A n : n \in 1 .. (Sent + 1) <=> n \in 1 .. Sent \/ n = Sent + 1
      BY <1>1
    <3>3. \A n : n \in ReturnNonces(events') <=> n \in 1 .. (Sent + 1)
      BY <1>1, <2>1, <2>2, <3>1, <3>2
    <3> QED BY <2>2, <3>3, Zenon
  <2>3. CASE ~isOurReturn(e)
    BY <1>1, <2>1, <2>3
  <2> QED BY <2>2, <2>3
<1>7. Sent' = IF isOurReturn(e) THEN Sent + 1 ELSE Sent
  <2>1. \A k \in Nat : Cardinality(1 .. k) = k
    BY FS_Interval
  <2>2. Sent' = Cardinality(ReturnNonces(events'))
    BY DEF Sent, ReturnNonces, isOurReturn
  <2> QED BY <1>1, <1>6, <2>1, <2>2
<1>8. ReturnNonces(events)' = ReturnNonces(events')
  BY DEF ReturnNonces, isOurReturn
<1>9. \A i \in DOMAIN events' :
         \/ events'[i] = Foreign
         \/ isOurReturn(events'[i]) /\ events'[i].id \in stored' /\ events'[i].nonce # 0
  BY <1>1, <1>2 DEF EventsOk
<1>10. ASSUME NEW i \in DOMAIN events', NEW j \in DOMAIN events',
              isOurReturn(events'[i]), isOurReturn(events'[j]), i < j
       PROVE  events'[i].nonce < events'[j].nonce
  <2>1. i \in DOMAIN events /\ events'[i] = events[i]
    BY <1>1, <1>2, <1>10
  <2>2. CASE j \in 1 .. L
    BY <1>1, <1>2, <1>10, <2>1, <2>2 DEF EventsOk
  <2>3. CASE j = L + 1
    <3>1. events'[j].nonce = Sent + 1 /\ events[i].nonce \in 1 .. Sent
      BY <1>2, <1>4, <1>5, <1>10, <2>1, <2>3
    <3> QED BY <1>1, <2>1, <3>1
  <2> QED BY <1>2, <2>2, <2>3
<1>11. EventsOk'
  BY <1>1, <1>6, <1>7, <1>8, <1>9, <1>10 DEF EventsOk, isOurReturn, Foreign
<1>12. ASSUME NEW n, Gone(n) PROVE n \in 1 .. Sent' /\ n \notin Queryable'
  <2>1. n \in 1 .. Sent /\ n \in 1 .. Sent'
    BY <1>1, <1>7, <1>12 DEF Gone
  <2>2. SUFFICES ASSUME n \in Queryable' PROVE FALSE
    BY <2>1
  <2>3. Queryable' = ReturnNonces(Newest(events', HistoryDepth))
    BY DEF Queryable, queryEventsBySender, Newest, ReturnNonces, isOurReturn
  <2>4. PICK j \in DOMAIN events' :
           j > Len(events') - HistoryDepth /\ isOurReturn(events'[j]) /\ events'[j].nonce = n
    <3>1. n \in ReturnNonces(Newest(events', HistoryDepth)) <=>
             \E j \in DOMAIN events' :
                j > Len(events') - HistoryDepth /\ isOurReturn(events'[j]) /\ events'[j].nonce = n
      <4>1. events' \in Seq(T) /\ HistoryDepth \in Nat
        BY <1>2, Bounds
      <4> HIDE DEF T
      <4> QED BY <4>1, NewestNonces
    <3> QED BY <2>2, <2>3, <3>1
  <2>5. j # L + 1
    BY <1>1, <1>2, <1>4, <2>1, <2>4
  <2>6. j \in DOMAIN events /\ j > L - HistoryDepth /\ events'[j] = events[j]
    BY <1>1, <1>2, <2>4, <2>5, Bounds
  <2> QED BY <1>12, <2>4, <2>6, InQueryable DEF Gone
<1> QED BY <1>1, <1>2, <1>3, <1>7, <1>11, <1>12 DEF GoneStays

-----------------------------------------------------------------------------
(* The process, step by step.                                              *)

\* A process as Shape has it.
Good(v) ==
    /\ v \in Worker
    /\ v.pc \in Sending => v.todo # {}
    /\ v.pc \in {"heal", "scan"} => v.window # {}

\* A process that has just started, or is down.
LEMMA FreshOk ==
    ASSUME worker \in Worker
    PROVE  /\ Fresh \in Worker /\ Good(Fresh)
           /\ Fresh.seen = {} /\ Fresh.window = {} /\ Fresh.missing = 0 /\ Fresh.logged = worker.logged
<1>1. Fresh \in Worker
  BY StoppedOk DEF Fresh
<1>2. worker.logged \in 0 .. MaxPackets
  BY DEF Worker
<1>3. /\ Fresh.pc = "down" /\ Fresh.seen = {} /\ Fresh.window = {} /\ Fresh.missing = 0
      /\ Fresh.logged = worker.logged
  BY DEF Fresh, Stopped
<1> QED BY <1>1, <1>3 DEF Good, Sending

\* A step of the process: a start, a stop, or a step that may add one packet to what it has seen.
Starts == worker'.seen = {} /\ worker'.window = {} /\ worker'.missing = 0 /\ worker'.logged = worker.logged

Continues ==
    /\ worker'.run = worker.run
    /\ worker'.window \in {worker.window, {}, querySuiPacketSent}
    /\ worker'.logged \in {worker.logged, worker.missing, worker'.missing}
    /\ \/ worker'.missing \in {worker.missing, 0}
       \/ /\ worker'.missing \in 1 .. Max(worker.window)
          /\ worker.window # {} /\ (PageErrors \/ worker'.missing \notin Queryable)
    /\ \/ worker'.seen \subseteq worker.seen
       \/ \E n \in Nonces : /\ worker'.seen \subseteq worker.seen \union {n}
                            /\ worker.run => n <= inboundNonce' /\ payloadHash'[n] = "none"

LEMMA StartSteps ==
    ASSUME Shape, Crash \/ \E run \in BOOLEAN : runLoop(run) \/ \E n \in 1 .. MaxPackets : runOne(run, n)
    PROVE  Good(worker') /\ Starts
<1>1. worker \in Worker
  BY DEF Shape, TypeOK
<1>2. CASE Crash
  BY <1>1, <1>2, FreshOk DEF Crash, Starts
<1>3. ASSUME NEW run \in BOOLEAN, runLoop(run) PROVE Good(worker') /\ Starts
  <2>1. worker' = [Fresh EXCEPT !.pc = "query", !.run = run]
    BY <1>3 DEF runLoop
  <2>2. worker' \in Worker /\ worker'.pc = "query"
    BY <1>1, <2>1, FreshOk DEF Worker
  <2>3. Starts
    BY <1>1, <2>1, FreshOk DEF Starts, Worker
  <2> QED BY <2>2, <2>3 DEF Good, Sending
<1>4. ASSUME NEW run \in BOOLEAN, NEW n \in 1 .. MaxPackets, runOne(run, n) PROVE Good(worker') /\ Starts
  <2>1. worker' = [Fresh EXCEPT !.pc = "deliver", !.phase = "one", !.run = run, !.todo = {n}]
    BY <1>4 DEF runOne
  <2>2. worker' \in Worker /\ worker'.pc = "deliver" /\ worker'.todo = {n}
    BY <1>1, <2>1, FreshOk DEF Worker
  <2>3. Starts
    BY <1>1, <2>1, FreshOk DEF Starts, Worker
  <2> QED BY <2>2, <2>3 DEF Good, Sending
<1> QED BY <1>2, <1>3, <1>4

\* A step that takes the process to one that goes on from it.
LEMMA GoneOn ==
    ASSUME worker \in Worker, NEW news, GoesOn(worker', worker, news),
           \/ news = {}
           \/ \E n \in Nonces : /\ news = {n}
                                /\ worker.run => n <= inboundNonce' /\ payloadHash'[n] = "none"
    PROVE  Good(worker') /\ Continues
  BY DEF GoesOn, Good, Continues, Sending

\* The query, the heal and the end of a tick.
LEMMA TickSteps ==
    ASSUME Shape, EventsOk, Query \/ healReturnGap \/ EndTick
    PROVE  Good(worker') /\ Continues
<1>1. worker \in Worker /\ Good(worker)
  BY DEF Shape, TypeOK, Good
<1>2. CASE Query
  <2>1. querySuiPacketSent \subseteq 1 .. MaxPackets
    <3>1. querySuiPacketSent = ReturnNonces(Newest(events, Window))
      BY DEF querySuiPacketSent, queryEventsBySender, Newest
    <3>2. events \in Seq(Packets \union {Foreign})
      BY DEF Shape, TypeOK
    <3>3. ASSUME NEW n \in querySuiPacketSent PROVE n \in 1 .. MaxPackets
      <4>1. PICK i \in DOMAIN events : isOurReturn(events[i]) /\ events[i].nonce = n
        BY <3>1, <3>2, <3>3, Bounds, NewestNonces
      <4>2. events[i] \in Packets \union {Foreign} /\ events[i].nonce # 0
        BY <3>2, <4>1 DEF EventsOk, isOurReturn, Foreign
      <4> QED BY <4>1, <4>2, Bounds DEF Packets, isOurReturn, Foreign
    <3> QED BY <3>3
  <2>2. CASE worker' = [worker EXCEPT !.window = querySuiPacketSent,
                          !.pc = IF querySuiPacketSent = {} THEN "endTick" ELSE "heal"]
    <3>1. PICK pc \in {"endTick", "heal"} : pc = IF querySuiPacketSent = {} THEN "endTick" ELSE "heal"
      OBVIOUS
    <3>2. worker' = [worker EXCEPT !.window = querySuiPacketSent, !.pc = pc]
      BY <2>2, <3>1
    <3>3. worker' \in Worker /\ worker'.pc = pc /\ worker'.window = querySuiPacketSent
      BY <1>1, <2>1, <3>2 DEF Worker
    <3>4. /\ worker'.run = worker.run /\ worker'.seen = worker.seen /\ worker'.logged = worker.logged
          /\ worker'.missing = worker.missing
      BY <1>1, <3>2 DEF Worker
    <3> QED BY <3>1, <3>3, <3>4 DEF Good, Continues, Sending
  <2>3. CASE worker' = [worker EXCEPT !.pc = "endTick"]
    <3>1. worker' \in Worker /\ worker'.pc = "endTick" /\ worker'.window = worker.window
      BY <1>1, <2>3 DEF Worker
    <3>2. /\ worker'.run = worker.run /\ worker'.seen = worker.seen /\ worker'.logged = worker.logged
          /\ worker'.missing = worker.missing
      BY <1>1, <2>3 DEF Worker
    <3> QED BY <3>1, <3>2 DEF Good, Continues, Sending
  <2> QED BY <1>2, <2>2, <2>3 DEF Query, Step
<1>3. CASE healReturnGap
  <2>1. CASE worker' = LoopPhase(worker)
    <3>1. GoesOn(worker', worker, {})
      BY <1>1, <2>1, LoopPhaseOk
    <3> QED BY <1>1, <3>1, GoneOn
  <2>2. CASE worker' = [worker EXCEPT !.pc = "scan", !.frontier = inboundNonce]
    <3>1. inboundNonce \in 0 .. MaxPackets /\ worker.window # {}
      BY <1>3 DEF Shape, TypeOK, Lz!TypeOK, healReturnGap
    <3>2. worker' \in Worker /\ worker'.pc = "scan" /\ worker'.window = worker.window
      BY <1>1, <2>2, <3>1 DEF Worker
    <3>3. /\ worker'.run = worker.run /\ worker'.seen = worker.seen /\ worker'.logged = worker.logged
          /\ worker'.missing = worker.missing
      BY <1>1, <2>2 DEF Worker
    <3> QED BY <3>1, <3>2, <3>3 DEF Good, Continues, Sending
  <2> QED BY <1>3, <2>1, <2>2 DEF healReturnGap, Step
<1>4. CASE EndTick
  <2>1. worker' = [worker EXCEPT !.pc = "query", !.window = {}, !.frontier = 0, !.missing = 0]
    BY <1>4 DEF EndTick, Step
  <2>2. worker' \in Worker /\ worker'.pc = "query" /\ worker'.window = {} /\ worker'.missing = 0
    <3>1. 0 \in 0 .. MaxPackets /\ {} \in SUBSET (1 .. MaxPackets)
      BY Bounds
    <3> QED BY <1>1, <2>1, <3>1 DEF Worker
  <2>3. worker'.run = worker.run /\ worker'.seen = worker.seen /\ worker'.logged = worker.logged
    BY <1>1, <2>1 DEF Worker
  <2> QED BY <2>2, <2>3 DEF Good, Continues, Sending
<1> QED BY <1>2, <1>3, <1>4

\* The search of the history.
LEMMA ScanStep ==
    ASSUME Shape, Scan
    PROVE  Good(worker') /\ Continues
<1>1. worker \in Worker /\ worker.window # {}
  BY DEF Shape, TypeOK, Scan
<1>2. PICK depth \in 0 .. HistoryDepth :
         /\ depth = HistoryDepth \/ PageErrors
         /\ worker' = HealPhase(worker, findReturnPacketsInRange(worker.frontier + 1,
                                                                 Max(worker.window), depth))
  BY DEF Scan, Step
<1> DEFINE found == findReturnPacketsInRange(worker.frontier + 1, Max(worker.window), depth)
<1>3. PICK m \in 0 .. MaxPackets :
         /\ m # 0 => m \in (worker.frontier + 1) .. Max(worker.window) /\ m \notin found
         /\ GoesOn(worker', [worker EXCEPT !.missing = m], {})
  BY <1>1, <1>2, HealPhaseOk
<1>4. worker.frontier \in Nat /\ m \in Nat
  BY <1>1, Bounds DEF Worker
<1>5. m # 0 /\ ~PageErrors => m \notin Queryable
  BY <1>2, <1>3 DEF findReturnPacketsInRange, Queryable
<1>6. Max(worker.window) \in Nat
  <2>1. worker.window \subseteq 0 .. MaxPackets /\ worker.window \subseteq Nat
    BY <1>1, Bounds DEF Worker
  <2> QED BY <1>1, <2>1, Bounds, Greatest
<1>7. m # 0 => m \in 1 .. Max(worker.window)
  BY <1>3, <1>4, <1>6
<1> DEFINE w == [worker EXCEPT !.missing = m]
<1>8. /\ w.run = worker.run /\ w.window = worker.window /\ w.missing = m /\ w.seen = worker.seen
      /\ w.logged = worker.logged
  BY <1>1 DEF Worker
<1>9. GoesOn(worker', w, {})
  BY <1>3
<1> HIDE DEF w, found
<1>10. /\ worker' \in Worker /\ worker'.run = worker.run /\ worker'.window = worker.window
       /\ worker'.missing = m /\ worker'.seen \subseteq worker.seen
       /\ worker'.logged \in {worker.logged, m}
       /\ worker'.pc \in Sending \union {"endTick"} /\ (worker'.pc \in Sending => worker'.todo # {})
  BY <1>8, <1>9 DEF GoesOn
<1> QED BY <1>1, <1>5, <1>7, <1>10 DEF Good, Continues, Sending

\* The packet a delivery is about.
LEMMA DueOk ==
    ASSUME Shape, worker.pc \in Sending
    PROVE  worker \in Worker /\ worker.todo # {} /\ Due \in Nonces
<1>1. worker \in Worker /\ worker.todo # {}
  BY DEF Shape, TypeOK
<1>2. worker.todo \subseteq Nonces /\ worker.todo \subseteq Nat
  BY <1>1, Bounds DEF Worker, Nonces
<1> QED BY <1>1, <1>2, Least DEF Due

\* deliver() answers: the packet is added to what was seen, or not.
LEMMA Finished ==
    ASSUME Shape, worker.pc \in Sending, NEW answer, worker' = Finish(worker, answer),
           answer # "skipped" /\ worker.run => Due <= inboundNonce' /\ payloadHash'[Due] = "none"
    PROVE  Good(worker') /\ (Starts \/ Continues)
<1>1. worker \in Worker /\ worker.todo # {} /\ Due \in Nonces
  BY DueOk
<1>2. CASE worker' = Fresh
  BY <1>1, <1>2, FreshOk DEF Starts
<1>3. CASE GoesOn(worker', worker, IF answer = "skipped" THEN {} ELSE {Min(worker.todo)})
  <2>1. CASE answer = "skipped"
    <3>1. GoesOn(worker', worker, {})
      BY <1>3, <2>1
    <3> QED BY <1>1, <3>1, GoneOn
  <2>2. CASE answer # "skipped"
    <3>1. PICK n \in Nonces : n = Due
      BY <1>1
    <3>2. GoesOn(worker', worker, {n})
      BY <1>3, <2>2, <3>1 DEF Due
    <3>3. worker.run => n <= inboundNonce' /\ payloadHash'[n] = "none"
      BY <2>2, <3>1
    <3> QED BY <1>1, <3>2, <3>3, GoneOn
  <2> QED BY <2>1, <2>2
<1> QED BY <1>1, <1>2, <1>3, FinishOk

\* The steps of deliver().
LEMMA DeliverSteps ==
    ASSUME Shape, Deliver \/ Verify \/ Commit \/ Receive
    PROVE  Good(worker') /\ (Starts \/ Continues) /\ (Lz!TypeOK)' /\ ClearedStays
<1>1. worker \in Worker /\ Due \in Nonces /\ worker.pc \in Sending /\ worker.todo # {} /\ Lz!TypeOK
  BY DueOk DEF Deliver, Verify, Commit, Receive, Sending, Shape, TypeOK
<1>2. UNCHANGED lz => (Lz!TypeOK)' /\ ClearedStays
  BY <1>1 DEF lz, Lz!TypeOK, ClearedStays, Lz!Cleared, Lz!Nonces
<1>3. ASSUME NEW pc \in {"verify", "commit", "receive"}, worker' = [worker EXCEPT !.pc = pc]
      PROVE  Good(worker') /\ Continues
  <2>1. worker' \in Worker /\ worker'.pc = pc /\ worker'.todo = worker.todo
    BY <1>1, <1>3 DEF Worker
  <2>2. /\ worker'.run = worker.run /\ worker'.seen = worker.seen /\ worker'.logged = worker.logged
        /\ worker'.missing = worker.missing /\ worker'.window = worker.window
    BY <1>1, <1>3 DEF Worker
  <2> QED BY <1>1, <2>1, <2>2 DEF Good, Continues, Sending
<1>4. CASE Deliver
  <2>0. returnDeliveryState(Due, readNonceState(Due)) \in {"delivered", "pending"} /\ worker.run \in BOOLEAN
    BY <1>1 DEF returnDeliveryState, Worker
  <2>1. UNCHANGED lz
    BY <1>4, <2>0 DEF Deliver, Step
  <2>2. CASE worker' = Finish(worker, "skipped")
    BY <1>1, <1>2, <2>1, <2>2, Finished
  <2>3. CASE worker' = [worker EXCEPT !.pc = "verify"]
    BY <1>2, <1>3, <2>1, <2>3
  <2>4. CASE worker' = Finish(worker, "already") /\ returnDeliveryState(Due, readNonceState(Due)) = "delivered"
    <3>1. Due <= inboundNonce /\ payloadHash[Due] = "none"
      BY <2>4 DEF returnDeliveryState, readNonceState
    <3>2. Due <= inboundNonce' /\ payloadHash'[Due] = "none"
      BY <2>1, <3>1 DEF lz
    <3> QED BY <1>1, <1>2, <2>1, <2>4, <3>2, Finished
  <2>5. CASE worker' = Finish(worker, "dry") /\ ~worker.run
    BY <1>1, <1>2, <2>1, <2>5, Finished
  <2> QED BY <1>4, <2>0, <2>2, <2>3, <2>4, <2>5 DEF Deliver, Step
<1>5. CASE Verify
  <2>1. Lz!Verify(Due) \/ UNCHANGED lz
    BY <1>5 DEF Verify
  <2>2. worker' = [worker EXCEPT !.pc = "commit"]
    BY <1>5 DEF Verify
  <2> QED BY <1>1, <1>2, <1>3, <2>1, <2>2, VerifyKeeps
<1>6. CASE Commit
  <2>1. Lz!Commit(Due) \/ UNCHANGED lz
    BY <1>6 DEF Commit
  <2>2. worker' = [worker EXCEPT !.pc = "receive"]
    BY <1>6 DEF Commit
  <2> QED BY <1>1, <1>2, <1>3, <2>1, <2>2, CommitKeeps
<1>7. CASE Receive
  <2>1. PICK outcome \in sendPolled(Lz!Clearable(Due) /\ Settleable(Due)) :
           /\ IF Lands(outcome)
              THEN Sol!lz_receive(serializeLzReceiveParams(Due)) /\ Lz!Clear(Due)
              ELSE UNCHANGED <<sol, lz>>
           /\ worker' = Finish(worker, IF outcome = "landed" THEN "sent" ELSE "skipped")
    BY <1>7, Zenon DEF Receive
  <2>2. CASE Lands(outcome)
    <3>1. (Lz!TypeOK)' /\ ClearedStays /\ Due <= inboundNonce' /\ payloadHash'[Due] = "none"
      BY <1>1, <2>1, <2>2, ClearKeeps
    <3> QED BY <1>1, <2>1, <3>1, Finished
  <2>3. CASE ~Lands(outcome)
    <3>1. UNCHANGED lz /\ outcome # "landed"
      BY <2>1, <2>3 DEF Lands
    <3>2. worker' = Finish(worker, "skipped")
      BY <2>1, <3>1
    <3> QED BY <1>1, <1>2, <3>1, <3>2, Finished
  <2> QED BY <2>2, <2>3
<1> QED BY <1>4, <1>5, <1>6, <1>7

-----------------------------------------------------------------------------
(* The whole system, step by step.                                         *)

\* The packet of a nonce that was sent is a proof of a stored intent.
LEMMA PacketStored ==
    ASSUME TypeOK, EventsOk, NEW n \in ReturnNonces(events)
    PROVE  PacketOf(n).id \in stored /\ PacketOf(n).id \in Ids /\ PacketOf(n).endEpoch \in EndEpochs
<1>1. PICK i \in DOMAIN events : isOurReturn(events[i]) /\ events[i].nonce = n
  BY DEF ReturnNonces
<1>2. n # 0
  BY <1>1 DEF EventsOk, isOurReturn, Foreign
<1>3. PICK k \in DOMAIN events : events[k].nonce = n /\ PacketOf(n) = events[k]
  BY <1>1 DEF PacketOf
<1>4. isOurReturn(events[k]) /\ events[k].id \in stored
  BY <1>2, <1>3 DEF EventsOk, Foreign
<1>5. events[k] \in Packets \union {Foreign}
  BY <1>3 DEF TypeOK
<1>6. events[k] \in Packets
  BY <1>4, <1>5 DEF isOurReturn, Foreign
<1> QED BY <1>3, <1>4, <1>6 DEF Packets

\* What a step does to the payments and to what is stored.
Paid(id) ==
    /\ escrows[id] = NoAccount /\ closedTo[id] = NoAccount /\ escrows'[id] # NoAccount
    /\ \A i \in Ids \ {id} : escrows'[i] = escrows[i]
    /\ UNCHANGED <<closedTo, stored>>

ClosedFor(id, accounts) ==
    /\ escrows[id] # NoAccount /\ escrows'[id] = NoAccount /\ closedTo'[id] \in accounts
    /\ \A i \in Ids \ {id} : escrows'[i] = escrows[i] /\ closedTo'[i] = closedTo[i]
    /\ UNCHANGED stored

Moves ==
    \/ UNCHANGED <<escrows, closedTo, stored>>
    \/ UNCHANGED <<escrows, closedTo>> /\ \E id \in Ids : stored' = stored \union {id}
    \/ \E id \in Ids : Paid(id) \/ ClosedFor(id, Payers) \/ (id \in stored /\ ClosedFor(id, Admins))

\* lz_receive landed, or the program is as it was.
LEMMA ReceiveMoves ==
    ASSUME Shape, EscrowOk, EventsOk, Receive
    PROVE  (Sol!TypeOK)' /\ EscrowOk' /\ Moves
<1>1. Sol!TypeOK /\ TypeOK /\ UNCHANGED <<events, stored>>
  BY DEF Shape, TypeOK, Receive, sui
<1>2. PICK outcome \in sendPolled(Lz!Clearable(Due) /\ Settleable(Due)) :
         IF Lands(outcome)
         THEN Sol!lz_receive(serializeLzReceiveParams(Due)) /\ Lz!Clear(Due)
         ELSE UNCHANGED <<sol, lz>>
  BY Zenon DEF Receive
<1>3. CASE Lands(outcome)
  <2>1. Settleable(Due)
    BY <1>2, <1>3 DEF sendPolled, Lands
  <2>2. Due \in ReturnNonces(events)
    BY <2>1 DEF Settleable, resolveLzReceiveAccounts
  <2>3. /\ PacketOf(Due).id \in stored /\ PacketOf(Due).id \in Ids
        /\ PacketOf(Due).endEpoch \in EndEpochs
    BY <1>1, <2>2, PacketStored
  <2>4. Sol!lz_receive(serializeLzReceiveParams(Due))
    BY <1>2, <1>3
  <2>5. PICK n : n = Due
    OBVIOUS
  <2>6. PICK id \in Ids : id = PacketOf(n).id
    BY <2>3, <2>5
  <2>7. /\ (Sol!TypeOK)' /\ EscrowOk' /\ escrows[id] # NoAccount
        /\ escrows'[id] = NoAccount /\ closedTo'[id] \in Admins
        /\ \A i \in Ids \ {id} : escrows'[i] = escrows[i] /\ closedTo'[i] = closedTo[i]
    BY <1>1, <2>3, <2>4, <2>5, <2>6, Received
  <2>8. id \in stored /\ ClosedFor(id, Admins)
    BY <1>1, <2>3, <2>5, <2>6, <2>7 DEF ClosedFor
  <2> QED BY <2>7, <2>8 DEF Moves
<1>4. CASE ~Lands(outcome)
  <2>1. UNCHANGED sol
    BY <1>2, <1>4
  <2> QED BY <1>1, <2>1 DEF sol, Sol!TypeOK, EscrowOk, Ids, Sol!Ids, Moves
<1> QED BY <1>3, <1>4

\* Steps that leave the program alone.
LEMMA ProgramUntouched ==
    ASSUME Shape, EscrowOk, UNCHANGED sol,
           stored' = stored \/ \E id \in Ids : stored' = stored \union {id}
    PROVE  (Sol!TypeOK)' /\ EscrowOk' /\ Moves
<1>1. Sol!TypeOK
  BY DEF Shape, TypeOK
<1> QED BY <1>1 DEF sol, Sol!TypeOK, EscrowOk, Ids, Sol!Ids, Moves

LEMMA SolSteps ==
    ASSUME Shape, EscrowOk, EventsOk, Next
    PROVE  (Sol!TypeOK)' /\ EscrowOk' /\ Moves
<1>1. CASE ProgramStep
  <2>1. Sol!TypeOK /\ UNCHANGED stored
    BY <1>1 DEF Shape, TypeOK, ProgramStep, sui
  <2>2. ASSUME NEW p \in Payers, NEW id \in Ids, escrows[id] # NoAccount, escrows'[id] = NoAccount,
               closedTo'[id] = p,
               \A i \in Ids \ {id} : escrows'[i] = escrows[i] /\ closedTo'[i] = closedTo[i]
        PROVE  Moves
    BY <2>1, <2>2 DEF Moves, ClosedFor
  <2>3. ASSUME UNCHANGED closedTo, NEW id \in Ids, escrows[id] = NoAccount, closedTo[id] = NoAccount,
               escrows'[id] # NoAccount, \A i \in Ids \ {id} : escrows'[i] = escrows[i]
        PROVE  Moves
    BY <2>1, <2>3 DEF Moves, Paid
  <2>4. UNCHANGED <<escrows, closedTo>> => Moves
    BY <2>1 DEF Moves
  <2> QED BY <1>1, <2>1, <2>2, <2>3, <2>4, ProgramKeeps
<1>2. CASE Receive
  BY <1>2, ReceiveMoves
<1>3. ASSUME NEW id \in Ids, Store(id) \/ \E endEpoch \in EndEpochs : SendProof(id, endEpoch)
      PROVE  UNCHANGED sol /\ (stored' = stored \/ \E i \in Ids : stored' = stored \union {i})
  BY <1>3 DEF Store, SendProof
<1>4. ASSUME SendElsewhere \/ Crash \/ \E k \in 1 .. PairsPerTx : SkipReturnNonce(k)
      PROVE  UNCHANGED sol /\ stored' = stored
  BY <1>4 DEF SendElsewhere, Crash, SkipReturnNonce, sui
<1>5. ASSUME NEW run \in BOOLEAN, runLoop(run) \/ \E n \in 1 .. MaxPackets : runOne(run, n)
      PROVE  UNCHANGED sol /\ stored' = stored
  BY <1>5 DEF runLoop, runOne, sui
<1>6. ASSUME Query \/ healReturnGap \/ Scan \/ Verify \/ Commit \/ EndTick
      PROVE  UNCHANGED sol /\ stored' = stored
  BY <1>6 DEF Query, healReturnGap, Scan, Verify, Commit, EndTick, Step, sui
<1>7. ASSUME Deliver PROVE UNCHANGED sol /\ stored' = stored
  <2>1. returnDeliveryState(Due, readNonceState(Due)) \in {"delivered", "pending"} /\ worker.run \in BOOLEAN
    BY DEF returnDeliveryState, Worker, Shape, TypeOK
  <2> QED BY <1>7, <2>1 DEF Deliver, Step, sui
<1> QED BY <1>1, <1>2, <1>3, <1>4, <1>5, <1>6, <1>7, ProgramUntouched DEF Next, WorkerStep

LEMMA LzSteps ==
    ASSUME Shape, Next
    PROVE  (Lz!TypeOK)' /\ ClearedStays /\ skipped' \subseteq 1 .. MaxPackets
<1>1. Lz!TypeOK /\ skipped \subseteq 1 .. MaxPackets
  BY DEF Shape, TypeOK
<1>2. UNCHANGED lz => (Lz!TypeOK)' /\ ClearedStays
  BY <1>1 DEF lz, Lz!TypeOK, ClearedStays, Lz!Cleared, Lz!Nonces
<1>3. CASE ProgramStep
  BY <1>1, <1>2, <1>3 DEF ProgramStep
<1>4. ASSUME NEW id \in Ids, Store(id) \/ \E endEpoch \in EndEpochs : SendProof(id, endEpoch)
      PROVE  UNCHANGED <<lz, skipped>>
  BY <1>4 DEF Store, SendProof
<1>5. ASSUME NEW run \in BOOLEAN, runLoop(run) \/ \E n \in 1 .. MaxPackets : runOne(run, n)
      PROVE  UNCHANGED <<lz, skipped>>
  BY <1>5 DEF runLoop, runOne
<1>6. ASSUME SendElsewhere \/ Crash \/ Query \/ healReturnGap \/ Scan \/ EndTick
      PROVE  UNCHANGED <<lz, skipped>>
  BY <1>6 DEF SendElsewhere, Crash, Query, healReturnGap, Scan, EndTick, Step
<1>7. ASSUME NEW k \in 1 .. PairsPerTx, SkipReturnNonce(k)
      PROVE  (Lz!TypeOK)' /\ ClearedStays /\ skipped' \subseteq 1 .. MaxPackets
  <2>1. k \in Nat /\ Lz!Skip(k)
    BY <1>7 DEF SkipReturnNonce
  <2>2. /\ skipped' = skipped \union ((inboundNonce + 1) .. (inboundNonce + k))
        /\ inboundNonce + k <= MaxPackets /\ inboundNonce \in 0 .. MaxPackets
    BY <1>1, <1>7 DEF SkipReturnNonce, Lz!Skip, Lz!TypeOK
  <2>3. skipped' \subseteq 1 .. MaxPackets
    BY <1>1, <2>1, <2>2, Bounds
  <2> QED BY <1>1, <2>1, <2>3, SkipKeeps
<1>8. ASSUME Deliver \/ Verify \/ Commit \/ Receive
      PROVE  (Lz!TypeOK)' /\ ClearedStays /\ UNCHANGED skipped
  <2>1. returnDeliveryState(Due, readNonceState(Due)) \in {"delivered", "pending"} /\ worker.run \in BOOLEAN
    BY DEF returnDeliveryState, Worker, Shape, TypeOK
  <2>2. UNCHANGED skipped
    BY <1>8, <2>1 DEF Deliver, Verify, Commit, Receive, Step
  <2> QED BY <1>8, <2>2, DeliverSteps
<1> QED BY <1>1, <1>2, <1>3, <1>4, <1>5, <1>6, <1>7, <1>8 DEF Next, WorkerStep

\* The events change only when a proof is sent.
EventsKept == events' \in Seq(Packets \union {Foreign}) /\ Len(events') <= MaxEvents /\ EventsOk' /\ GoneStays

LEMMA EventsUntouched ==
    ASSUME TypeOK, EventsOk, UNCHANGED events, stored \subseteq stored'
    PROVE  EventsKept
<1>1. events' \in Seq(Packets \union {Foreign}) /\ Len(events') <= MaxEvents
  BY DEF TypeOK
<1>2. Sent' = Sent /\ Queryable' = Queryable /\ ReturnNonces(events)' = ReturnNonces(events)
  BY DEF Sent, Queryable, queryEventsBySender, ReturnNonces, isOurReturn
<1>3. EventsOk'
  BY <1>2 DEF EventsOk, isOurReturn, Foreign
<1>4. GoneStays
  BY <1>2 DEF GoneStays, Gone, EventsOk
<1> QED BY <1>1, <1>3, <1>4 DEF EventsKept

LEMMA EventSteps ==
    ASSUME Shape, EventsOk, Next
    PROVE  EventsKept
<1>1. TypeOK
  BY DEF Shape
<1>2. ASSUME NEW id \in Ids, NEW endEpoch \in EndEpochs, SendProof(id, endEpoch)
      PROVE  EventsKept
  <2>1. PICK e : e = [dst |-> "solana", nonce |-> Sent + 1, id |-> id, endEpoch |-> endEpoch]
    OBVIOUS
  <2>2. /\ events' = Append(events, e) /\ Len(events) < MaxEvents /\ Sent + 1 <= MaxPackets
        /\ id \in stored /\ stored' = stored
    BY <1>2, <2>1 DEF SendProof, Sent
  <2>3. Sent \in Nat /\ Sent + 1 \in 0 .. MaxPackets
    BY <2>2, Bounds DEF EventsOk
  <2>4. e \in Packets /\ isOurReturn(e) /\ e.nonce = Sent + 1 /\ e.id = id
    BY <2>1, <2>3 DEF Packets, isOurReturn
  <2> QED BY <1>1, <2>2, <2>4, EventAppended DEF EventsKept
<1>3. CASE SendElsewhere
  BY <1>1, <1>3, EventAppended DEF SendElsewhere, EventsKept
<1>4. ASSUME NEW id \in Ids, Store(id) PROVE UNCHANGED events /\ stored \subseteq stored'
  BY <1>4 DEF Store
<1>5. ASSUME NEW run \in BOOLEAN, runLoop(run) \/ \E n \in 1 .. MaxPackets : runOne(run, n)
      PROVE  UNCHANGED <<events, stored>>
  BY <1>5 DEF runLoop, runOne, sui
<1>6. ASSUME ProgramStep \/ Crash \/ (\E k \in 1 .. PairsPerTx : SkipReturnNonce(k))
      PROVE  UNCHANGED <<events, stored>>
  BY <1>6 DEF ProgramStep, Crash, SkipReturnNonce, sui
<1>7. ASSUME WorkerStep PROVE UNCHANGED <<events, stored>>
  <2>1. returnDeliveryState(Due, readNonceState(Due)) \in {"delivered", "pending"} /\ worker.run \in BOOLEAN
    BY DEF returnDeliveryState, Worker, Shape, TypeOK
  <2> QED BY <1>7, <2>1 DEF WorkerStep, Query, healReturnGap, Scan, Deliver, Verify, Commit, Receive,
                            EndTick, Step, sui
<1> QED BY <1>1, <1>2, <1>3, <1>4, <1>5, <1>6, <1>7, EventsUntouched DEF Next

LEMMA WorkerSteps ==
    ASSUME Shape, EventsOk, Next
    PROVE  Good(worker') /\ (Starts \/ Continues) /\ faults' \in 0 .. MaxFaults
<1>0. faults \in 0 .. MaxFaults /\ Good(worker)
  BY DEF Shape, TypeOK, Good
<1>1. Fault \/ UNCHANGED faults => faults' \in 0 .. MaxFaults
  BY <1>0, Bounds DEF Fault
<1>2. worker' = worker => Good(worker') /\ Continues
  BY <1>0 DEF Continues
<1>3. CASE ProgramStep \/ SendElsewhere \/ (\E k \in 1 .. PairsPerTx : SkipReturnNonce(k))
  BY <1>1, <1>2, <1>3 DEF ProgramStep, SendElsewhere, SkipReturnNonce
<1>4. CASE \E id \in Ids : Store(id) \/ \E endEpoch \in EndEpochs : SendProof(id, endEpoch)
  BY <1>1, <1>2, <1>4 DEF Store, SendProof
<1>5. CASE Crash \/ \E run \in BOOLEAN : runLoop(run) \/ \E n \in 1 .. MaxPackets : runOne(run, n)
  <2>1. Fault \/ UNCHANGED faults
    BY <1>5 DEF Crash, runLoop, runOne
  <2> QED BY <1>1, <1>5, <2>1, StartSteps
<1>6. CASE Query \/ healReturnGap \/ EndTick
  <2>1. Fault \/ UNCHANGED faults
    BY <1>6 DEF Query, healReturnGap, EndTick
  <2> QED BY <1>1, <1>6, <2>1, TickSteps
<1>7. CASE Scan
  <2>1. Fault \/ UNCHANGED faults
    BY <1>7 DEF Scan
  <2> QED BY <1>1, <1>7, <2>1, ScanStep
<1>8. CASE Deliver \/ Verify \/ Commit \/ Receive
  <2>1. Deliver => Fault \/ UNCHANGED faults
    BY DEF Deliver
  <2>2. ASSUME NEW valid, NEW outcome \in sendPolled(valid), Charge(outcome) PROVE faults' \in 0 .. MaxFaults
    BY <1>0, <2>2, Bounds DEF sendPolled, Charge
  <2>3. Verify \/ Commit \/ Receive => \E valid : \E outcome \in sendPolled(valid) : Charge(outcome)
    BY Zenon DEF Verify, Commit, Receive
  <2> QED BY <1>1, <1>8, <2>1, <2>2, <2>3, DeliverSteps
<1> QED BY <1>3, <1>4, <1>5, <1>6, <1>7, <1>8 DEF Next, WorkerStep

-----------------------------------------------------------------------------
(* The theorems.                                                           *)

\* TypeOK is not inductive: the shape of the process keeps Min and Max defined, the numbering
\* of the proofs on Sui makes the packet of a nonce the one that was sent, and a closed vault
\* whose intent remains is never opened again.  SeenMeansCleared is inductive with them.
ReturnInv == Shape /\ EscrowOk /\ EventsOk /\ SeenMeansCleared

LEMMA InitHolds == Init => ReturnInv /\ GoneOk
<1> SUFFICES ASSUME Init PROVE ReturnInv /\ GoneOk
  OBVIOUS
<1>1. Sol!TypeOK /\ EscrowOk
  BY Bounds DEF Init, Sol!Init, Sol!TypeOK, EscrowOk, Ids
<1>2. Lz!TypeOK
  BY Bounds DEF Init, Lz!Init, Lz!TypeOK
<1>3. worker = Stopped /\ worker \in Worker
  BY StoppedOk DEF Init
<1>4. events \in Seq(Packets \union {Foreign}) /\ Len(events) = 0 /\ DOMAIN events = {}
  BY DEF Init
<1>5. TypeOK
  BY <1>1, <1>2, <1>3, <1>4, Bounds DEF TypeOK, Init
<1>6. Shape
  BY <1>3, <1>5 DEF Shape, Stopped, Sending
<1>7. ReturnNonces(events) = {} /\ Sent = 0
  <2>1. ReturnNonces(events) = {}
    BY <1>4 DEF ReturnNonces
  <2> QED BY <2>1, FS_EmptySet DEF Sent
<1>8. EventsOk
  BY <1>4, <1>7 DEF EventsOk
<1>9. SeenMeansCleared /\ GoneOk
  BY <1>3 DEF SeenMeansCleared, GoneOk, Stopped
<1> QED BY <1>1, <1>6, <1>8, <1>9 DEF ReturnInv

LEMMA InvStep == ReturnInv /\ [Next]_vars => ReturnInv'
<1> SUFFICES ASSUME ReturnInv, [Next]_vars PROVE ReturnInv'
  OBVIOUS
<1>1. Shape /\ EscrowOk /\ EventsOk /\ SeenMeansCleared
  BY DEF ReturnInv
<1>2. CASE Next
  <2>1. /\ (Sol!TypeOK)' /\ EscrowOk' /\ Moves /\ (Lz!TypeOK)' /\ ClearedStays
        /\ skipped' \subseteq 1 .. MaxPackets /\ EventsKept
        /\ Good(worker') /\ (Starts \/ Continues) /\ faults' \in 0 .. MaxFaults
    BY <1>1, <1>2, SolSteps, LzSteps, EventSteps, WorkerSteps
  <2>2. stored' \subseteq Ids
    BY <1>1, <2>1 DEF Moves, Paid, ClosedFor, Shape, TypeOK
  <2>3. TypeOK'
    BY <2>1, <2>2 DEF TypeOK, EventsKept, Good, Ids, Sol!Ids, Packets, Foreign, Worker
  <2>4. Shape'
    BY <2>1, <2>3 DEF Shape, Good, Sending
  <2>5. worker \in Worker /\ worker.seen \subseteq Nonces
    BY <1>1 DEF Shape, TypeOK, Worker, Nonces
  <2>6. SeenMeansCleared'
    BY <1>1, <2>1, <2>5 DEF SeenMeansCleared, Starts, Continues, ClearedStays, Lz!Cleared
  <2> QED BY <2>1, <2>4, <2>6 DEF ReturnInv, EventsKept
<1>3. CASE UNCHANGED vars
  <2>1. Shape' /\ EscrowOk'
    BY <1>1, <1>3 DEF vars, sol, lz, sui, Shape, TypeOK, EscrowOk, Sol!TypeOK, Lz!TypeOK, Ids, Sol!Ids,
                      Packets, Foreign, Worker
  <2>2. EventsOk'
    BY <1>1, <1>3, EventsUntouched DEF vars, sui, Shape, EventsKept
  <2>3. SeenMeansCleared'
    BY <1>1, <1>3 DEF vars, lz, SeenMeansCleared, Lz!Cleared
  <2> QED BY <2>1, <2>2, <2>3 DEF ReturnInv
<1> QED BY <1>2, <1>3

\* The inductive invariant of the return leg holds in every state: of packets, events, the
\* endpoint's frontier and payload hashes, the worker's memory (scripts/solana/
\* solana-return.ts), and the program's intents and vaults.
THEOREM ReturnInvariant == Spec => []ReturnInv
<1>1. Init => ReturnInv
  BY InitHolds
<1>2. ReturnInv /\ [Next]_vars => ReturnInv'
  BY InvStep
<1> QED BY <1>1, <1>2, PTL DEF Spec

\* Every state the return leg reaches has its type.
THEOREM ReturnTypes == Spec => []TypeOK
<1>1. ReturnInv => TypeOK
  BY DEF ReturnInv, Shape
<1> QED BY <1>1, ReturnInvariant, PTL

\* What a sending worker remembers as done is cleared at the endpoint, for any number of
\* packets, failed calls, restarts and skips: nothing that `seen` keeps it from looking at
\* again is still waiting.
THEOREM SeenIsCleared == Spec => []SeenMeansCleared
<1>1. ReturnInv => SeenMeansCleared
  BY DEF ReturnInv
<1> QED BY <1>1, ReturnInvariant, PTL

-----------------------------------------------------------------------------
(* What is skipped by hand.                                                *)

\* When every page of the history loads, what the heal did not find has scrolled out of it.
LEMMA GoneStep ==
    ASSUME PageErrors = FALSE
    PROVE  ReturnInv /\ GoneOk /\ [Next]_vars => GoneOk'
<1> SUFFICES ASSUME ReturnInv, GoneOk, [Next]_vars PROVE GoneOk'
  OBVIOUS
<1>1. Shape /\ TypeOK /\ EventsOk /\ worker \in Worker
  BY DEF ReturnInv, Shape, TypeOK
<1>2. GoneStays
  <2>1. CASE Next
    BY <1>1, <2>1, EventSteps DEF EventsKept
  <2>2. CASE UNCHANGED vars
    BY <1>1, <2>2, EventsUntouched DEF EventsKept, vars, sui
  <2> QED BY <2>1, <2>2
<1>3. Starts \/ Continues
  <2>1. CASE Next
    BY <1>1, <2>1, WorkerSteps
  <2>2. CASE UNCHANGED vars
    BY <2>2 DEF vars, Continues
  <2> QED BY <2>1, <2>2
<1>4. ASSUME NEW n, Gone(n) PROVE (n \in 1 .. Sent /\ n \notin Queryable)'
  BY <1>2, <1>4 DEF GoneStays
<1>5. 1 .. Sent \subseteq 1 .. Sent'
  BY <1>2 DEF GoneStays
<1>6. CASE Starts
  BY <1>4, <1>5, <1>6 DEF Starts, GoneOk, Gone
<1>7. CASE Continues
  <2>1. querySuiPacketSent \subseteq 1 .. Sent
    <3>1. querySuiPacketSent = ReturnNonces(Newest(events, Window))
      BY DEF querySuiPacketSent, queryEventsBySender, Newest
    <3>2. events \in Seq(Packets \union {Foreign}) /\ Window \in Nat
      BY <1>1, Bounds DEF TypeOK
    <3>3. ASSUME NEW n \in querySuiPacketSent PROVE n \in ReturnNonces(events)
      <4>1. PICK i \in DOMAIN events : isOurReturn(events[i]) /\ events[i].nonce = n
        BY <3>1, <3>2, <3>3, NewestNonces
      <4> QED BY <4>1 DEF ReturnNonces
    <3> QED BY <1>1, <3>3 DEF EventsOk
  <2>2. worker'.window \subseteq 1 .. Sent'
    BY <1>5, <1>7, <2>1 DEF Continues, GoneOk
  <2>3. worker'.missing # 0 => Gone(worker'.missing)
    <3>1. CASE worker'.missing \in {worker.missing, 0}
      BY <3>1 DEF GoneOk
    <3>2. CASE /\ worker'.missing \in 1 .. Max(worker.window)
               /\ worker.window # {} /\ worker'.missing \notin Queryable
      <4>1. worker.window \subseteq 1 .. Sent /\ Sent \in Nat /\ worker.window \subseteq 0 .. Sent
        BY <1>1 DEF GoneOk, EventsOk
      <4>2. Max(worker.window) \in 1 .. Sent
        BY <3>2, <4>1, Greatest
      <4> QED BY <3>2, <4>1, <4>2 DEF Gone
    <3> QED BY <1>7, <3>1, <3>2 DEF Continues
  <2>4. worker'.logged # 0 => Gone(worker'.logged)
    BY <1>7, <2>3 DEF Continues, GoneOk
  <2>5. ASSUME NEW n, Gone(n) PROVE n \in 1 .. Sent' /\ n \notin Queryable'
    BY <1>2, <2>5 DEF GoneStays
  <2> QED BY <2>2, <2>3, <2>4, <2>5 DEF GoneOk, Gone
<1> QED BY <1>3, <1>6, <1>7

\* A nonce is skipped by hand, and its escrow given up, only when no history still has its
\* packet, provided every page of the history loads (healReturnGap() cannot tell a page that
\* failed from one without the packet).  The packet the log names is gone, and so is every
\* one below it: the tool skips up to it.
THEOREM SkippedIsLost ==
    ASSUME PageErrors = FALSE
    PROVE  Spec => SkippedWasLost
<1>1. Init => GoneOk
  BY InitHolds
<1>2. ReturnInv /\ GoneOk /\ [Next]_vars => GoneOk'
  BY GoneStep
<1>3. ReturnInv /\ GoneOk /\ [Next]_vars => [\A n \in skipped' \ skipped : n \notin Queryable]_vars
  <2> SUFFICES ASSUME ReturnInv, GoneOk, Next, NEW n \in skipped' \ skipped
               PROVE  n \notin Queryable
    OBVIOUS
  <2>1. Shape /\ TypeOK /\ EventsOk /\ worker \in Worker
    BY DEF ReturnInv, Shape, TypeOK
  <2>2. ASSUME NEW k \in 1 .. PairsPerTx, SkipReturnNonce(k) PROVE n \notin Queryable
    <3>1. n \in (inboundNonce + 1) .. (inboundNonce + k) /\ inboundNonce + k <= worker.logged
      BY <2>2 DEF SkipReturnNonce
    <3>2. inboundNonce \in Nat /\ k \in Nat /\ worker.logged \in Nat
      BY <2>1, Bounds DEF TypeOK, Lz!TypeOK, Worker
    <3>3. n \in 1 .. worker.logged /\ worker.logged # 0
      BY <3>1, <3>2
    <3>4. Gone(worker.logged)
      BY <3>3 DEF GoneOk
    <3>5. Gone(n)
      BY <2>1, <3>3, <3>4, GoneBelow
    <3> QED BY <3>5 DEF Gone
  <2>3. returnDeliveryState(Due, readNonceState(Due)) \in {"delivered", "pending"} /\ worker.run \in BOOLEAN
    BY <2>1 DEF returnDeliveryState, Worker
  <2>4. ASSUME ~ \E k \in 1 .. PairsPerTx : SkipReturnNonce(k) PROVE FALSE
    <3>1. UNCHANGED skipped
      BY <2>3, <2>4 DEF Next, ProgramStep, Store, SendProof, SendElsewhere, runLoop, runOne, Crash, WorkerStep,
                        Query, healReturnGap, Scan, Deliver, Verify, Commit, Receive, EndTick, Step
    <3> QED BY <3>1
  <2> QED BY <2>2, <2>4
<1> QED BY <1>1, <1>2, <1>3, ReturnInvariant, PTL DEF Spec, SkippedWasLost

-----------------------------------------------------------------------------
(* The return leg keeps the bargain.                                       *)

\* Where a payment is after a step.
PaymentAfter(id) ==
    CASE escrows'[id] # NoAccount -> "held"
      [] closedTo'[id] \in Admins -> "relayer"
      [] closedTo'[id] \in Payers -> "payer"
      [] OTHER                    -> "none"

LEMMA PaymentMoves ==
    ASSUME NEW id \in Ids, \A i \in Ids \ {id} : escrows'[i] = escrows[i] /\ closedTo'[i] = closedTo[i]
    PROVE  Payment' = [Payment EXCEPT ![id] = PaymentAfter(id)]
<1>1. Payment' = [i \in Ids |-> PaymentAfter(i)]
  BY DEF Payment, PaymentOf, PaymentAfter, Ids, Sol!Ids
<1>2. \A i \in Ids \ {id} : PaymentAfter(i) = PaymentOf(i)
  BY DEF PaymentAfter, PaymentOf
<1> QED BY <1>1, <1>2 DEF Payment

LEMMA BargainStep ==
    ASSUME Payers \intersect Admins = {}
    PROVE  ReturnInv /\ [Next]_vars => [Bargain!Next]_<<stored, Payment>>
<1> SUFFICES ASSUME ReturnInv, [Next]_vars
             PROVE  Bargain!Next \/ UNCHANGED <<stored, Payment>>
  OBVIOUS
<1>1. Shape /\ EscrowOk /\ EventsOk /\ Sol!TypeOK
  BY DEF ReturnInv, Shape, TypeOK
<1>2. Moves
  <2>1. CASE Next
    BY <1>1, <2>1, SolSteps
  <2>2. CASE UNCHANGED vars
    BY <2>2 DEF vars, sol, sui, Moves
  <2> QED BY <2>1, <2>2
<1>3. UNCHANGED <<escrows, closedTo>> => UNCHANGED Payment
  BY DEF Payment, PaymentOf, Ids, Sol!Ids
<1>4. ASSUME NEW id \in Ids, UNCHANGED <<escrows, closedTo>>, stored' = stored \union {id}
      PROVE  Bargain!Next
  BY <1>3, <1>4 DEF Bargain!Next, Bargain!Store, Payment
<1>5. ASSUME NEW id \in Ids, Paid(id) PROVE Bargain!Next
  <2>1. /\ escrows[id] = NoAccount /\ closedTo[id] = NoAccount /\ escrows'[id] # NoAccount
        /\ closedTo'[id] = NoAccount /\ UNCHANGED stored
    BY <1>5 DEF Paid
  <2>2. Payment' = [Payment EXCEPT ![id] = PaymentAfter(id)]
    BY <1>5, PaymentMoves DEF Paid
  <2>3. PaymentAfter(id) = "held"
    BY <2>1, NotNone DEF PaymentAfter
  <2>4. Payment[id] = "none"
    BY <2>1, NotNone DEF Payment, PaymentOf
  <2>5. Bargain!Pay(id)
    BY <2>1, <2>2, <2>3, <2>4 DEF Bargain!Pay, Payment
  <2> QED BY <2>5 DEF Bargain!Next
<1>6. ASSUME NEW id \in Ids, ClosedFor(id, Payers) PROVE Bargain!Next
  <2>1. escrows[id] # NoAccount /\ escrows'[id] = NoAccount /\ closedTo'[id] \in Payers /\ UNCHANGED stored
    BY <1>6 DEF ClosedFor
  <2>2. Payment' = [Payment EXCEPT ![id] = PaymentAfter(id)]
    BY <1>6, PaymentMoves DEF ClosedFor
  <2>3. PaymentAfter(id) = "payer"
    BY <2>1 DEF PaymentAfter
  <2>4. Payment[id] = "held"
    <3>1. closedTo[id] = NoAccount
      BY <1>1, <2>1 DEF EscrowOk
    <3>2. PaymentOf(id) = "held"
      BY <2>1, <3>1, NotNone DEF PaymentOf
    <3> QED BY <3>2 DEF Payment
  <2>5. Bargain!GiveBack(id)
    BY <2>1, <2>2, <2>3, <2>4 DEF Bargain!GiveBack, Payment
  <2> QED BY <2>5 DEF Bargain!Next
<1>7. ASSUME NEW id \in Ids, id \in stored, ClosedFor(id, Admins) PROVE Bargain!Next
  <2>1. escrows[id] # NoAccount /\ escrows'[id] = NoAccount /\ closedTo'[id] \in Admins /\ UNCHANGED stored
    BY <1>7 DEF ClosedFor
  <2>2. Payment' = [Payment EXCEPT ![id] = PaymentAfter(id)]
    BY <1>7, PaymentMoves DEF ClosedFor
  <2>3. PaymentAfter(id) = "relayer"
    BY <2>1 DEF PaymentAfter
  <2>4. Payment[id] = "held"
    <3>1. closedTo[id] = NoAccount
      BY <1>1, <2>1 DEF EscrowOk
    <3>2. PaymentOf(id) = "held"
      BY <2>1, <3>1, NotNone DEF PaymentOf
    <3> QED BY <3>2 DEF Payment
  <2>5. Bargain!Earn(id)
    BY <1>7, <2>1, <2>2, <2>3, <2>4 DEF Bargain!Earn, Payment
  <2> QED BY <2>5 DEF Bargain!Next
<1> QED BY <1>2, <1>3, <1>4, <1>5, <1>6, <1>7 DEF Moves

\* The return leg to Solana implements StorageBargain: the relayer is paid only for an intent
\* whose blob is stored, and a vault is closed once, whichever of lz_receive,
\* confirm_execution and refund_escrow come in what order.  An account that is both a payer
\* and the admin pays itself either way, so that where its payments went says nothing: the
\* theorem is about the others.
THEOREM ReturnKeepsTheBargain ==
    ASSUME Payers \intersect Admins = {}
    PROVE  Spec => KeepsTheBargain
<1>1. Init => Bargain!Init
  BY NotNone DEF Init, Sol!Init, Bargain!Init, PaymentOf, Ids
<1>2. ReturnInv /\ [Next]_vars => [Bargain!Next]_<<stored, Payment>>
  BY BargainStep
<1> QED BY <1>1, <1>2, ReturnInvariant, PTL
        DEF Spec, KeepsTheBargain, Bargain!Spec, Payment
=============================================================================
