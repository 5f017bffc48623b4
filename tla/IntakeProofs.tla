----------------------------- MODULE IntakeProofs -----------------------------
(***************************************************************************)
(* Theorems about Intake: for any number of intents, uploads and faults,   *)
(* no event slips past a cursor, no writer of the lifecycle table erases a *)
(* commitment, and what an upload is answered is so.                       *)
(***************************************************************************)
EXTENDS Intake, WellFoundedInduction, TLAPS

-----------------------------------------------------------------------------
(* The inductive invariant, part by part.                                  *)

\* A lifecycle record.
Hops     == {"received", "stored_walrus", "recorded_sui", "proof_sent"}
Statuses == {"none", "submitted", "confirmed"} \union Hops
Recorded == [status : Statuses, committed : BOOLEAN]

Shape ==
    /\ log \in [Chains -> Seq(Event)]
    /\ delivered \in Seq(Intents \union {Empty})
    /\ feed \in [Intents -> Recorded]
    /\ rows \in [Intents -> StagedRow]
    /\ cursor \in [Chains -> Nat] /\ newest \in [Chains -> Nat]
    /\ batch \in [Chains -> SUBSET Nat]
    /\ file \in Nat
    /\ pass \in [next : Nat, last : Nat, recorded : BOOLEAN]
    /\ store \in [Intents -> {"idle"} \union Hops]
    /\ copy \in [Writers -> {<<>>} \union {<<r>> : r \in Recorded}]
    /\ lost \in [submitted : SUBSET Intents, received : SUBSET Intents]

\* An intent is submitted once, on its own chain; its proof is back only when its commitment
\* was known and its blob on Walrus.
LogOk ==
    \A c \in Chains : \A n \in DOMAIN log[c] :
        /\ log[c][n].hop = "submitted" =>
              /\ ChainOf(log[c][n].intent) = c
              /\ \A m \in DOMAIN log[c] : log[c][m] = log[c][n] => m = n
        /\ log[c][n].hop = "confirmed" =>
              feed[log[c][n].intent].committed /\ rows[log[c][n].intent].uploaded

\* A running store has read the commitment, and reports a hop only after its effect.
StoreOk ==
    \A i \in Intents :
        /\ store[i] # "idle" => feed[i].committed
        /\ copy[i] # <<>> => store[i] # "idle" /\ copy[i][1].committed
        /\ store[i] \in {"recorded_sui", "proof_sent"} => rows[i].uploaded
        /\ store[i] = "stored_walrus" /\ copy[i] # <<>> => rows[i].uploaded

\* The n-th event of a chain, when it is a submission, is recorded or known to be lost.
Caught(c, n) ==
    log[c][n].hop = "submitted" =>
        feed[log[c][n].intent].committed \/ log[c][n].intent \in lost.submitted

\* Every event up to the cursor is caught; while a batch runs, every event up to the new cursor
\* is caught or still in the batch.  A watcher that holds a copy writes it for that event.
WatchOk ==
    \A c \in Chains :
        /\ cursor[c] <= Len(log[c]) /\ newest[c] <= Len(log[c])
        /\ batch[c] \subseteq 1..newest[c]
        /\ \A n \in 1..cursor[c] : Caught(c, n)
        /\ batch[c] # {} => \A n \in 1..newest[c] : Caught(c, n) \/ n \in batch[c]
        /\ copy[c] # <<>> =>
              batch[c] # {} /\ (Polled(c).hop = "confirmed" => copy[c][1].committed)

\* The intent of the n-th checkpoint is in the queue, settled, or known to be lost.
Queued(n) ==
    \/ delivered[n] \in {Empty} \union lost.received
    \/ rows[delivered[n]].received
    \/ Settled(delivered[n])

\* A pass leaves no checkpoint behind, and the cursor file none that the pass has not left.
PassOk ==
    /\ file <= Len(delivered)
    /\ \A n \in 1..file : Queued(n)
    /\ pass # NoPass =>
          /\ pass.next \in 1..pass.last /\ pass.last <= Len(delivered)
          /\ \A n \in 1..(pass.next - 1) : Queued(n)
          /\ pass.recorded => Queued(pass.next)

\* A record says that the blob is stored only when it is on Walrus.
FeedOk == \A i \in Intents : isExecuted(feed[i].status) => rows[i].uploaded

\* What a request was answered is so.
TrueAnswer(r) ==
    /\ r.answer = "accepted" => \/ rows[r.intent].bytes \/ rows[r.intent].uploaded
                                \/ Settled(r.intent)
    /\ r.answer = "already-executed" => rows[r.intent].uploaded

\* A request is about an intent once it has started.
IsRequest(r) ==
    /\ r = [pc |-> r.pc, intent |-> r.intent, bytes |-> r.bytes, staged |-> r.staged,
            answer |-> r.answer]
    /\ r.pc # "none" => r.intent \in Intents
    /\ r.answer # "none" => r.pc # "none"

RequestOk ==
    /\ request = [u \in Requests |-> request[u]]
    /\ \A u \in Requests : IsRequest(request[u]) /\ TrueAnswer(request[u])

IntakeInv == Shape /\ LogOk /\ StoreOk /\ WatchOk /\ PassOk /\ FeedOk /\ RequestOk

-----------------------------------------------------------------------------
(* The helpers.                                                            *)

\* The order of the natural numbers is well founded, so a set of them has a least element.
Below == {p \in Nat \X Nat : p[1] < p[2]}

LEMMA Order == IsWellFoundedOn(Below, Nat)
<1>1. OpToRel(<, Nat) = Below
  BY Zenon DEF OpToRel, Below
<1> QED BY <1>1, NatLessThanWellFounded, Zenon

LEMMA Least ==
    ASSUME NEW S, S \subseteq Nat, S # {}
    PROVE  Min(S) \in S
<1>1. PICK x \in S : \A y \in S : ~(<<y, x>> \in Below)
  BY Order, WFMin
<1>2. ASSUME NEW y \in S PROVE x <= y
  <2>1. x \in Nat /\ y \in Nat /\ <<y, x>> \notin Below
    BY <1>1
  <2>2. y < x => <<y, x>> \in Below
    BY <2>1 DEF Below
  <2> QED BY <2>1, <2>2
<1> QED BY <1>2 DEF Min

\* The event a watcher is at is one of its batch.
LEMMA PlaceInBatch ==
    ASSUME Shape, NEW c \in Chains, batch[c] # {}
    PROVE  Place(c) \in batch[c]
<1> DEFINE submitted == {n \in batch[c] : log[c][n].hop = "submitted"}
           S == IF submitted # {} THEN submitted ELSE batch[c]
<1>1. S # {} /\ S \subseteq batch[c] /\ S \subseteq Nat
  BY DEF Shape
<1>2. Min(S) \in S
  BY <1>1, Least
<1> QED BY <1>1, <1>2 DEF Place

LEMMA Distinct ==
    /\ Chains \subseteq Writers /\ Intents \subseteq Writers
    /\ \A i \in Intents : i \notin Chains /\ i # Empty /\ ChainOf(i) \in Chains
  BY ConstantsAssumption DEF ConstantsAssumption, Writers, ChainOf, Chains

\* What a step may do to the tables, the chains and the record of losses.
LogGrows ==
    \A c \in Chains : /\ Len(log[c]) <= Len(log'[c])
                      /\ DOMAIN log[c] \subseteq DOMAIN log'[c]
                      /\ \A n \in DOMAIN log[c] : log'[c][n] = log[c][n]
RowsGrow ==
    \A i \in Intents : /\ rows[i].received => rows'[i].received
                       /\ rows[i].uploaded => rows'[i].uploaded
                       /\ rows[i].bytes => \/ rows'[i].bytes \/ rows'[i].uploaded
                                           \/ rows'[i].state \in {"done", "expired"}
                       /\ rows[i].state \in {"done", "expired"} =>
                             rows'[i].state \in {"done", "expired"}
FeedGrows == \A i \in Intents : feed[i].committed => feed'[i].committed
LostGrows ==
    lost.submitted \subseteq lost'.submitted /\ lost.received \subseteq lost'.received
DeliveredGrows ==
    /\ Len(delivered) <= Len(delivered')
    /\ \A n \in DOMAIN delivered : delivered'[n] = delivered[n]

Grows == LogGrows /\ RowsGrow /\ FeedGrows /\ LostGrows /\ DeliveredGrows

\* What a step leaves alone.
LEMMA Still ==
    ASSUME Shape
    PROVE  /\ UNCHANGED log => LogGrows
           /\ UNCHANGED rows => RowsGrow
           /\ UNCHANGED feed => FeedGrows
           /\ UNCHANGED lost => LostGrows
           /\ UNCHANGED delivered => DeliveredGrows
<1>1. \A c \in Chains : Len(log[c]) \in Nat
  BY DEF Shape
<1>2. UNCHANGED log => LogGrows
  BY <1>1 DEF LogGrows
<1>3. Len(delivered) \in Nat
  BY DEF Shape
<1> QED BY <1>2, <1>3 DEF RowsGrow, FeedGrows, LostGrows, DeliveredGrows

\* An event or a checkpoint is appended.
LEMMA Appended ==
    ASSUME NEW S, NEW t \in Seq(S), NEW e \in S
    PROVE  /\ Append(t, e) \in Seq(S)
           /\ Len(Append(t, e)) = Len(t) + 1 /\ Len(t) \in Nat
           /\ DOMAIN t = 1..Len(t)
           /\ DOMAIN Append(t, e) = 1..(Len(t) + 1)
           /\ Append(t, e)[Len(t) + 1] = e
           /\ \A n \in 1..Len(t) : Append(t, e)[n] = t[n]
  OBVIOUS

LEMMA LogAppended ==
    ASSUME Shape, NEW c \in Chains, NEW e \in Event, log' = [log EXCEPT ![c] = Append(@, e)]
    PROVE  /\ log' \in [Chains -> Seq(Event)] /\ LogGrows
           /\ \A d \in Chains : \A n \in DOMAIN log'[d] :
                 \/ n \in DOMAIN log[d] /\ log'[d][n] = log[d][n]
                 \/ d = c /\ n = Len(log[c]) + 1 /\ log'[d][n] = e
<1>1. log \in [Chains -> Seq(Event)] /\ log[c] \in Seq(Event)
  BY DEF Shape
<1>2. /\ log'[c] = Append(log[c], e) /\ \A d \in Chains \ {c} : log'[d] = log[d]
      /\ log' \in [Chains -> Seq(Event)]
  BY <1>1, Appended
<1>3. \A d \in Chains : log[d] \in Seq(Event) /\ DOMAIN log[d] = 1..Len(log[d]) /\ Len(log[d]) \in Nat
  BY <1>1
<1>4. LogGrows
  BY <1>1, <1>2, <1>3, Appended DEF LogGrows
<1>5. ASSUME NEW d \in Chains, NEW n \in DOMAIN log'[d]
      PROVE  \/ n \in DOMAIN log[d] /\ log'[d][n] = log[d][n]
             \/ d = c /\ n = Len(log[c]) + 1 /\ log'[d][n] = e
  <2>1. CASE d = c
    BY <1>1, <1>2, <1>3, <2>1, Appended
  <2>2. CASE d # c
    BY <1>2, <2>2
  <2> QED BY <2>1, <2>2
<1> QED BY <1>2, <1>4, <1>5

LEMMA CheckpointAppended ==
    ASSUME Shape, NEW e \in Intents \union {Empty}, delivered' = Append(delivered, e)
    PROVE  delivered' \in Seq(Intents \union {Empty}) /\ DeliveredGrows
<1>1. delivered \in Seq(Intents \union {Empty})
  BY DEF Shape
<1> QED BY <1>1, Appended DEF DeliveredGrows

\* A row changes, and keeps what it says of the past.
LEMMA RowSet ==
    ASSUME Shape, NEW i \in Intents, NEW r \in StagedRow, rows' = [rows EXCEPT ![i] = r],
           rows[i].received => r.received, rows[i].uploaded => r.uploaded,
           rows[i].bytes => r.bytes \/ r.uploaded \/ r.state \in {"done", "expired"},
           rows[i].state \in {"done", "expired"} => r.state \in {"done", "expired"}
    PROVE  rows' \in [Intents -> StagedRow] /\ RowsGrow
<1>1. rows \in [Intents -> StagedRow]
  BY DEF Shape
<1> QED BY <1>1 DEF RowsGrow

\* The record a recordHop() writes keeps the commitment of the record it read.
LEMMA HopWritten ==
    ASSUME Shape, NEW w \in Writers, NEW i \in Intents, NEW hop \in Statuses, NEW committed \in BOOLEAN,
           copy[w] # <<>>, WriteHop(w, i, hop, committed),
           feed[i].committed => copy[w][1].committed \/ committed
    PROVE  /\ feed' \in [Intents -> Recorded] /\ FeedGrows
           /\ copy' \in [Writers -> {<<>>} \union {<<r>> : r \in Recorded}]
           /\ copy' = [copy EXCEPT ![w] = <<>>]
           /\ feed'[i].status = hop
           /\ feed'[i].committed = (copy[w][1].committed \/ committed)
           /\ \A j \in Intents \ {i} : feed'[j] = feed[j]
<1>1. feed \in [Intents -> Recorded] /\ copy \in [Writers -> {<<>>} \union {<<r>> : r \in Recorded}]
  BY DEF Shape
<1>2. PICK r \in Recorded : copy[w] = <<r>>
  BY <1>1
<1>3. copy[w][1] = r
  BY <1>2
<1> DEFINE new == [status |-> hop, committed |-> r.committed \/ committed]
<1>4. new \in Recorded /\ new.status = hop /\ new.committed = (r.committed \/ committed)
  BY DEF Recorded
<1>5. feed' = [feed EXCEPT ![i] = new]
  BY <1>3 DEF WriteHop, applyHop
<1> HIDE DEF new
<1>6. feed' \in [Intents -> Recorded] /\ feed'[i] = new /\ \A j \in Intents \ {i} : feed'[j] = feed[j]
  BY <1>1, <1>4, <1>5
<1>7. FeedGrows
  BY <1>3, <1>4, <1>6 DEF FeedGrows
<1>8. copy' = [copy EXCEPT ![w] = <<>>] /\ copy' \in [Writers -> {<<>>} \union {<<s>> : s \in Recorded}]
  BY <1>1 DEF WriteHop
<1> QED BY <1>3, <1>4, <1>6, <1>7, <1>8

\* The first statement of recordHop().
LEMMA HopRead ==
    ASSUME Shape, NEW w \in Writers, NEW i \in Intents, findOne(w, i)
    PROVE  /\ copy' \in [Writers -> {<<>>} \union {<<r>> : r \in Recorded}]
           /\ copy'[w] # <<>> /\ copy'[w][1] = feed[i]
           /\ \A v \in Writers \ {w} : copy'[v] = copy[v]
<1>1. feed[i] \in Recorded /\ copy \in [Writers -> {<<>>} \union {<<r>> : r \in Recorded}]
  BY DEF Shape
<1> QED BY <1>1 DEF findOne

\* The event a watcher is at is in its chain's log.
LEMMA PolledEvent ==
    ASSUME Shape, WatchOk, NEW c \in Chains, batch[c] # {}
    PROVE  /\ Place(c) \in batch[c] /\ Place(c) \in DOMAIN log[c]
           /\ Polled(c).intent \in Intents /\ Polled(c).hop \in {"submitted", "confirmed"}
<1>1. Place(c) \in batch[c]
  BY PlaceInBatch
<1>2. log[c] \in Seq(Event) /\ newest[c] \in Nat /\ newest[c] <= Len(log[c])
      /\ batch[c] \subseteq 1..newest[c]
  BY DEF Shape, WatchOk
<1>3. Place(c) \in DOMAIN log[c]
  BY <1>1, <1>2
<1>4. Polled(c) \in Event
  BY <1>2, <1>3 DEF Polled
<1> QED BY <1>1, <1>3, <1>4 DEF Event

\* The steps of a watcher keep the types of what it keeps.
LEMMA WatcherTypes ==
    ASSUME Shape, NEW c \in Chains, pollOnce(c)
    PROVE  /\ cursor' \in [Chains -> Nat] /\ newest' \in [Chains -> Nat]
           /\ batch' \in [Chains -> SUBSET Nat]
<1>1. cursor \in [Chains -> Nat] /\ newest \in [Chains -> Nat] /\ batch \in [Chains -> SUBSET Nat]
  BY DEF Shape
<1>2. newest[c] \in Nat /\ batch[c] \ {Place(c)} \in SUBSET Nat
  BY <1>1
<1> QED BY <1>1, <1>2 DEF pollOnce

\* Submissions, deliveries and deadlines.
LEMMA ChainGrows ==
    ASSUME IntakeInv, NEW i \in Intents,
           Submit(i) \/ Deliver(i) \/ DeadlinePasses(i) \/ EmptyCheckpoint
    PROVE  Shape' /\ Grows
<1> USE DEF IntakeInv
<1>1. CASE Submit(i)
  <2>1. ChainOf(i) \in Chains /\ Submitted(i) \in Event
    BY Distinct DEF Submitted, Event
  <2>2. log' = [log EXCEPT ![ChainOf(i)] = Append(@, Submitted(i))]
    BY <1>1 DEF Submit
  <2>3. log' \in [Chains -> Seq(Event)] /\ LogGrows
    BY <2>1, <2>2, LogAppended
  <2>4. UNCHANGED <<delivered, tables, watcher, poll, store, copy, lost>>
    BY <1>1 DEF Submit
  <2> QED BY <2>3, <2>4, Still DEF Shape, Grows, tables, watcher, poll
<1>2. CASE Deliver(i) \/ EmptyCheckpoint
  <2>1. \E e \in Intents \union {Empty} : delivered' = Append(delivered, e)
    BY <1>2 DEF Deliver, EmptyCheckpoint
  <2>2. delivered' \in Seq(Intents \union {Empty}) /\ DeliveredGrows
    BY <2>1, CheckpointAppended
  <2>3. UNCHANGED <<log, tables, watcher, poll, store, copy, lost>>
    BY <1>2 DEF Deliver, EmptyCheckpoint
  <2> QED BY <2>2, <2>3, Still DEF Shape, Grows, tables, watcher, poll
<1>3. CASE DeadlinePasses(i)
  <2>1. UNCHANGED <<log, delivered, tables, watcher, poll, store, copy, lost>>
    BY <1>3 DEF DeadlinePasses
  <2> QED BY <2>1, Still DEF Shape, Grows, tables, watcher, poll
<1> QED BY <1>1, <1>2, <1>3

\* The watchers.
LEMMA WatchGrows ==
    ASSUME IntakeInv,
           \/ pollLifecycleEvents \/ pollIntentSubmitted
           \/ \E c \in Chains : WatchRead(c) \/ WatchWrite(c) \/ WatchFails(c)
    PROVE  Shape' /\ Grows
<1> USE DEF IntakeInv
<1>0. /\ cursor \in [Chains -> Nat] /\ newest \in [Chains -> Nat]
      /\ batch \in [Chains -> SUBSET Nat] /\ "evm" \in Chains /\ "solana" \in Chains
      /\ \A c \in Chains : Len(log[c]) \in Nat /\ log[c] \in Seq(Event)
      /\ lost \in [submitted : SUBSET Intents, received : SUBSET Intents]
  BY DEF Shape, Chains
<1>1. CASE pollLifecycleEvents
  <2>1. PICK n \in cursor["evm"] + 1 .. Len(log["evm"]) :
           /\ batch' = [batch EXCEPT !["evm"] = Unseen("evm", n)]
           /\ newest' = [newest EXCEPT !["evm"] = n]
    BY <1>1 DEF pollLifecycleEvents
  <2>2. n \in Nat /\ Unseen("evm", n) \in SUBSET Nat
    BY <1>0, <2>1 DEF Unseen
  <2>3. batch' \in [Chains -> SUBSET Nat] /\ newest' \in [Chains -> Nat]
    BY <1>0, <2>1, <2>2
  <2>4. UNCHANGED <<chain, tables, cursor, poll, store, copy, lost>>
    BY <1>1 DEF pollLifecycleEvents
  <2> QED BY <2>3, <2>4, Still DEF Shape, Grows, chain, tables, poll
<1>2. CASE pollIntentSubmitted
  <2> DEFINE N == Len(log["solana"])
             U == Unseen("solana", N)
  <2>1. PICK absent \in SUBSET U :
           /\ batch' = [batch EXCEPT !["solana"] = U \ absent]
           /\ lost' = [lost EXCEPT !.submitted = @ \union {log["solana"][n].intent : n \in absent}]
           /\ newest' = [newest EXCEPT !["solana"] = N]
           /\ cursor' = [cursor EXCEPT !["solana"] = IF U \ absent = {} THEN newest'["solana"] ELSE @]
    BY <1>2 DEF pollIntentSubmitted
  <2>2. N \in Nat /\ U \subseteq 1..N
    BY <1>0 DEF Unseen
  <2>3. newest' \in [Chains -> Nat] /\ newest'["solana"] = N
    BY <1>0, <2>1, <2>2
  <2>4. batch' \in [Chains -> SUBSET Nat] /\ cursor' \in [Chains -> Nat]
    BY <1>0, <2>1, <2>2, <2>3
  <2>5. {log["solana"][n].intent : n \in absent} \subseteq Intents
    <3>1. \A n \in absent : log["solana"][n] \in Event
      BY <1>0, <2>1, <2>2
    <3> QED BY <3>1 DEF Event
  <2>6. lost' \in [submitted : SUBSET Intents, received : SUBSET Intents] /\ LostGrows
    BY <1>0, <2>1, <2>5 DEF LostGrows
  <2>7. UNCHANGED <<chain, tables, poll, store, copy>>
    BY <1>2 DEF pollIntentSubmitted
  <2> QED BY <2>3, <2>4, <2>6, <2>7, Still DEF Shape, Grows, chain, tables, poll
<1>3. ASSUME NEW c \in Chains, WatchRead(c) PROVE Shape' /\ Grows
  <2>1. Polled(c).intent \in Intents /\ c \in Writers
    BY <1>3, PolledEvent, Distinct DEF WatchRead
  <2>2. copy' \in [Writers -> {<<>>} \union {<<r>> : r \in Recorded}]
    BY <1>3, <2>1, HopRead DEF WatchRead
  <2>3. UNCHANGED <<chain, tables, watcher, poll, store, lost>>
    BY <1>3 DEF WatchRead
  <2> QED BY <2>2, <2>3, Still DEF Shape, Grows, chain, tables, watcher, poll
<1>4. ASSUME NEW c \in Chains, WatchWrite(c) PROVE Shape' /\ Grows
  <2> DEFINE e == Polled(c)
  <2>1. batch[c] # {} /\ (e.hop = "confirmed" => copy[c][1].committed) /\ copy[c] # <<>>
    BY <1>4 DEF WatchWrite, WatchOk
  <2>2. e.intent \in Intents /\ e.hop \in {"submitted", "confirmed"} /\ c \in Writers
    BY <2>1, PolledEvent, Distinct
  <2>3. WriteHop(c, e.intent, e.hop, e.hop = "submitted")
    BY <1>4 DEF WatchWrite
  <2> HIDE DEF e
  <2>4. PICK submitted \in BOOLEAN : submitted = (e.hop = "submitted")
    OBVIOUS
  <2>5. /\ feed' \in [Intents -> Recorded] /\ FeedGrows
        /\ copy' \in [Writers -> {<<>>} \union {<<r>> : r \in Recorded}]
    <3>1. WriteHop(c, e.intent, e.hop, submitted)
      BY <2>3, <2>4, Zenon
    <3>2. copy[c][1].committed \/ submitted
      BY <2>1, <2>2, <2>4
    <3>3. e.hop \in Statuses
      BY <2>2 DEF Statuses
    <3> QED BY <2>1, <2>2, <3>1, <3>2, <3>3, HopWritten
  <2>6. pollOnce(c) /\ UNCHANGED <<chain, rows, poll, store, lost>>
    BY <1>4 DEF WatchWrite
  <2>7. /\ cursor' \in [Chains -> Nat] /\ newest' \in [Chains -> Nat]
        /\ batch' \in [Chains -> SUBSET Nat]
    BY <2>6, WatcherTypes
  <2> QED BY <2>5, <2>6, <2>7, Still DEF Shape, Grows, chain, poll
<1>5. ASSUME NEW c \in Chains, WatchFails(c) PROVE Shape' /\ Grows
  <2>1. batch[c] # {}
    BY <1>5 DEF WatchFails, WatchOk
  <2>2. Polled(c).intent \in Intents /\ c \in Writers
    BY <2>1, PolledEvent, Distinct
  <2>3. lost' \in [submitted : SUBSET Intents, received : SUBSET Intents] /\ LostGrows
    BY <1>0, <1>5, <2>2 DEF WatchFails, LostGrows
  <2>4. copy' \in [Writers -> {<<>>} \union {<<r>> : r \in Recorded}]
    BY <1>5 DEF WatchFails, Shape
  <2>5. pollOnce(c) /\ UNCHANGED <<chain, tables, poll, store>>
    BY <1>5 DEF WatchFails
  <2>6. /\ cursor' \in [Chains -> Nat] /\ newest' \in [Chains -> Nat]
        /\ batch' \in [Chains -> SUBSET Nat]
    BY <2>5, WatcherTypes
  <2> QED BY <2>3, <2>4, <2>5, <2>6, Still DEF Shape, Grows, chain, tables, poll
<1> QED BY <1>1, <1>2, <1>3, <1>4, <1>5

\* The checkpoint poll.
LEMMA PollGrows ==
    ASSUME IntakeInv, backfill \/ SkipCheckpoint \/ onReceived \/ ReceivedFails \/ writeCursor
    PROVE  Shape' /\ Grows
<1> USE DEF IntakeInv
<1>0. /\ pass \in [next : Nat, last : Nat, recorded : BOOLEAN] /\ file \in Nat
      /\ NoPass \in [next : Nat, last : Nat, recorded : BOOLEAN] /\ Len(delivered) \in Nat
      /\ delivered \in Seq(Intents \union {Empty})
      /\ lost \in [submitted : SUBSET Intents, received : SUBSET Intents]
  BY DEF Shape, NoPass
<1>1. NextCheckpoint => pass' \in [next : Nat, last : Nat, recorded : BOOLEAN]
  <2>1. pass.next + 1 \in Nat
    BY <1>0
  <2> QED BY <1>0, <2>1 DEF NextCheckpoint
<1>2. pass # NoPass => delivered[pass.next] \in Intents \union {Empty}
  <2>1. pass # NoPass => pass.next \in 1..Len(delivered)
    BY <1>0 DEF PassOk
  <2> QED BY <1>0, <2>1
<1>3. CASE backfill
  <2>1. pass' \in [next : Nat, last : Nat, recorded : BOOLEAN]
    BY <1>0, <1>3 DEF backfill
  <2>2. UNCHANGED <<chain, tables, watcher, file, store, copy, lost>>
    BY <1>3 DEF backfill
  <2> QED BY <2>1, <2>2, Still DEF Shape, Grows, chain, tables, watcher
<1>4. CASE SkipCheckpoint \/ ReceivedFails
  <2>1. pass' \in [next : Nat, last : Nat, recorded : BOOLEAN]
    BY <1>0, <1>1, <1>4 DEF SkipCheckpoint, ReceivedFails
  <2>2. \E gone \in SUBSET Intents : lost' = [lost EXCEPT !.received = @ \union gone]
    <3>1. CASE SkipCheckpoint
      <4>1. {delivered[pass.next]} \ {Empty} \in SUBSET Intents
        BY <1>2, <3>1 DEF SkipCheckpoint
      <4> QED BY <3>1, <4>1 DEF SkipCheckpoint
    <3>2. CASE ReceivedFails
      <4>1. {delivered[pass.next]} \in SUBSET Intents
        BY <1>2, <3>2 DEF ReceivedFails
      <4> QED BY <3>2, <4>1 DEF ReceivedFails
    <3> QED BY <1>4, <3>1, <3>2
  <2>3. lost' \in [submitted : SUBSET Intents, received : SUBSET Intents] /\ LostGrows
    BY <1>0, <2>2 DEF LostGrows
  <2>4. UNCHANGED <<chain, tables, watcher, file, store, copy>>
    BY <1>4 DEF SkipCheckpoint, ReceivedFails
  <2> QED BY <2>1, <2>3, <2>4, Still DEF Shape, Grows, chain, tables, watcher
<1>5. CASE onReceived
  <2>1. pass' \in [next : Nat, last : Nat, recorded : BOOLEAN]
    BY <1>0, <1>5 DEF onReceived
  <2>2. rows' \in [Intents -> StagedRow] /\ RowsGrow
    <3>1. CASE delivered[pass.next] = Empty
      BY <1>5, <3>1, Still DEF onReceived, Shape
    <3>2. CASE delivered[pass.next] # Empty
      <4> DEFINE i == delivered[pass.next]
                 r == IF rows[i].state \in {"absent", "active"}
                      THEN [rows[i] EXCEPT !.state = "active", !.received = TRUE] ELSE rows[i]
      <4>1. i \in Intents /\ markReceived(i)
        BY <1>2, <1>5, <3>2 DEF onReceived
      <4>2. rows[i] \in StagedRow
        BY <4>1 DEF Shape
      <4>3. rows' = [rows EXCEPT ![i] = r]
        BY <4>1 DEF markReceived
      <4>4. /\ r \in StagedRow /\ (rows[i].received => r.received)
            /\ rows[i].uploaded => r.uploaded
            /\ rows[i].bytes => r.bytes
            /\ rows[i].state \in {"done", "expired"} => r.state \in {"done", "expired"}
        BY <4>2 DEF StagedRow
      <4> HIDE DEF r, i
      <4> QED BY <4>1, <4>3, <4>4, RowSet
    <3> QED BY <3>1, <3>2
  <2>3. UNCHANGED <<chain, feed, watcher, file, store, copy, lost>>
    BY <1>5 DEF onReceived
  <2> QED BY <2>1, <2>2, <2>3, Still DEF Shape, Grows, chain, watcher
<1>6. CASE writeCursor
  <2>1. pass' \in [next : Nat, last : Nat, recorded : BOOLEAN] /\ file' \in Nat
    BY <1>0, <1>1, <1>6 DEF writeCursor
  <2>2. UNCHANGED <<chain, tables, watcher, store, copy, lost>>
    BY <1>6 DEF writeCursor
  <2> QED BY <2>1, <2>2, Still DEF Shape, Grows, chain, tables, watcher
<1> QED BY <1>3, <1>4, <1>5, <1>6

\* Uploads and byte recovery: nothing but the request changes, or bytes are staged.
LEMMA RequestGrows ==
    ASSUME IntakeInv,
           \/ \E u \in Uploads, i \in Intents, bytes \in Bytes : ingestBlob(u, i, bytes)
           \/ \E i \in Intents : recoverMissingBytes(i)
           \/ \E u \in Requests : FastPath(u) \/ EncodeBlob(u) \/ Reread(u) \/ RequestDies(u)
    PROVE  Shape' /\ Grows
<1>1. UNCHANGED <<chain, tables, watcher, poll, store, copy, lost>>
  BY DEF ingestBlob, recoverMissingBytes, FastPath, EncodeBlob, Reread, RequestDies
<1> QED BY <1>1, Still DEF IntakeInv, Shape, Grows, chain, tables, watcher, poll

\* Accepted bytes are staged.
LEMMA UpsertGrows ==
    ASSUME IntakeInv, NEW u \in Requests, upsertBytes(u)
    PROVE  Shape' /\ Grows
<1> DEFINE i == request[u].intent
<1>1. i \in Intents
  BY DEF IntakeInv, RequestOk, IsRequest, upsertBytes
<1>2. rows[i] \in StagedRow
  BY <1>1 DEF IntakeInv, Shape
<1>3. rows' \in [Intents -> StagedRow] /\ RowsGrow
  <2>1. CASE UNCHANGED rows
    BY <2>1, Still DEF IntakeInv, Shape
  <2>2. CASE ~UNCHANGED rows
    <3> DEFINE r == [rows[i] EXCEPT !.state = "active", !.bytes = TRUE]
    <3>1. rows' = [rows EXCEPT ![i] = r] /\ rows[i].state \in {"absent", "active"}
      BY <2>2 DEF upsertBytes
    <3>2. r \in StagedRow /\ r.bytes /\ r.received = rows[i].received /\ r.uploaded = rows[i].uploaded
      BY <1>2 DEF StagedRow
    <3> HIDE DEF r, i
    <3> QED BY <1>1, <3>1, <3>2, RowSet DEF IntakeInv
  <2> QED BY <2>1, <2>2
<1>4. UNCHANGED <<chain, feed, watcher, poll, store, copy, lost>>
  BY DEF upsertBytes
<1> QED BY <1>3, <1>4, Still DEF IntakeInv, Shape, Grows, chain, watcher, poll

\* The awaits of store(): what follows each.
LEMMA AfterHop ==
    /\ After("received") = "stored_walrus" /\ After("stored_walrus") = "recorded_sui"
    /\ After("recorded_sui") = "proof_sent" /\ After("proof_sent") = "idle"
<1>1. DOMAIN StorePc = 1..4 /\ Len(StorePc) = 4
  BY DEF StorePc
<1>2. ASSUME NEW k \in 1..4
      PROVE  After(StorePc[k]) = IF k = 4 THEN "idle" ELSE StorePc[k + 1]
  <2>1. \A j \in 1..4 : StorePc[j] = StorePc[k] => j = k
    BY DEF StorePc
  <2>2. (CHOOSE j \in DOMAIN StorePc : StorePc[j] = StorePc[k]) = k
    BY <1>1, <2>1
  <2> QED BY <1>1, <2>2 DEF After
<1> QED BY <1>2 DEF StorePc

\* The row as a step of store() leaves it.
LEMMA EffectRow ==
    ASSUME IntakeInv, NEW i \in Intents, store[i] # "idle"
    PROVE  /\ storeEffect(i) \in StagedRow
           /\ rows[i].received => storeEffect(i).received
           /\ rows[i].uploaded => storeEffect(i).uploaded
           /\ rows[i].bytes => storeEffect(i).bytes \/ storeEffect(i).uploaded
           /\ rows[i].state = storeEffect(i).state
           /\ store[i] # "received" => storeEffect(i).uploaded
<1>1. rows[i] \in StagedRow /\ store[i] \in Hops
  BY DEF IntakeInv, Shape
<1>2. store[i] \in {"recorded_sui", "proof_sent"} => rows[i].uploaded
  BY DEF IntakeInv, StoreOk
<1>3. CASE store[i] = "received"
  BY <1>1, <1>3 DEF storeEffect
<1>4. CASE store[i] = "stored_walrus"
  <2>1. storeEffect(i) = [rows[i] EXCEPT !.uploaded = TRUE]
    BY <1>4 DEF storeEffect
  <2> QED BY <1>1, <1>4, <2>1 DEF StagedRow
<1>5. CASE store[i] = "recorded_sui"
  <2>1. storeEffect(i) = [rows[i] EXCEPT !.stored = TRUE]
    BY <1>5 DEF storeEffect
  <2> QED BY <1>1, <1>2, <1>5, <2>1 DEF StagedRow
<1>6. CASE store[i] = "proof_sent"
  <2>1. storeEffect(i) = [rows[i] EXCEPT !.bytes = FALSE]
    BY <1>6 DEF storeEffect
  <2> QED BY <1>1, <1>2, <1>6, <2>1 DEF StagedRow
<1> QED BY <1>1, <1>3, <1>4, <1>5, <1>6 DEF Hops

\* The store pipeline and the reaper.
LEMMA StoreGrows ==
    ASSUME IntakeInv, NEW i \in Intents,
           tick(i) \/ StoreStep(i) \/ trackHop(i) \/ StoreFails(i) \/ expire(i)
    PROVE  Shape' /\ Grows
<1> USE DEF IntakeInv
<1>0. /\ rows[i] \in StagedRow /\ store \in [Intents -> {"idle"} \union Hops] /\ i \in Writers
      /\ "evm" \in Chains
  BY Distinct DEF Shape, Chains
<1>1. CASE tick(i) \/ StoreFails(i)
  <2>1. StorePc[1] \in Hops
    BY DEF StorePc, Hops
  <2>2. store' \in [Intents -> {"idle"} \union Hops]
    BY <1>0, <1>1, <2>1 DEF tick, StoreFails
  <2>3. UNCHANGED <<chain, tables, watcher, poll, copy, lost>>
    BY <1>1 DEF tick, StoreFails
  <2> QED BY <2>2, <2>3, Still DEF Shape, Grows, chain, tables, watcher, poll
<1>2. CASE StoreStep(i)
  <2>1. store[i] # "idle" /\ rows' = [rows EXCEPT ![i] = storeEffect(i)]
    BY <1>2 DEF StoreStep
  <2>2. rows' \in [Intents -> StagedRow] /\ RowsGrow
    BY <2>1, EffectRow, RowSet
  <2>3. log' \in [Chains -> Seq(Event)] /\ LogGrows
    <3>1. Confirmed(i) \in Event
      BY DEF Confirmed, Event
    <3>2. CASE log' = [log EXCEPT !["evm"] = Append(@, Confirmed(i))]
      BY <1>0, <3>1, <3>2, LogAppended
    <3>3. CASE UNCHANGED log
      BY <3>3, Still DEF Shape
    <3> QED BY <1>2, <3>2, <3>3 DEF StoreStep
  <2>4. copy' \in [Writers -> {<<>>} \union {<<r>> : r \in Recorded}]
    BY <1>0, <1>2, HopRead DEF StoreStep
  <2>5. UNCHANGED <<delivered, feed, watcher, poll, store, lost>>
    BY <1>2 DEF StoreStep
  <2> QED BY <2>2, <2>3, <2>4, <2>5, Still DEF Shape, Grows, watcher, poll
<1>3. CASE trackHop(i)
  <2>1. store[i] \in Hops /\ copy[i] # <<>> /\ WriteHop(i, i, store[i], FALSE)
    BY <1>0, <1>3 DEF trackHop
  <2>2. copy[i][1].committed
    BY <2>1 DEF StoreOk
  <2>3. /\ feed' \in [Intents -> Recorded] /\ FeedGrows
        /\ copy' \in [Writers -> {<<>>} \union {<<r>> : r \in Recorded}]
    <3>1. store[i] \in Statuses
      BY <2>1 DEF Statuses
    <3> QED BY <1>0, <2>1, <2>2, <3>1, HopWritten
  <2>4. store' \in [Intents -> {"idle"} \union Hops]
    <3>1. After(store[i]) \in {"idle"} \union Hops
      BY <2>1, AfterHop DEF Hops
    <3> QED BY <1>0, <1>3, <3>1 DEF trackHop
  <2>5. rows' \in [Intents -> StagedRow] /\ RowsGrow
    <3>1. CASE UNCHANGED rows
      BY <3>1, Still DEF Shape
    <3>2. CASE ~UNCHANGED rows
      <4> DEFINE r == [rows[i] EXCEPT !.state = "done", !.bytes = FALSE]
      <4>1. rows' = [rows EXCEPT ![i] = r]
        BY <1>3, <3>2 DEF trackHop
      <4>2. /\ r \in StagedRow /\ r.state = "done" /\ r.received = rows[i].received
            /\ r.uploaded = rows[i].uploaded
        BY <1>0 DEF StagedRow
      <4> HIDE DEF r
      <4> QED BY <4>1, <4>2, RowSet
    <3> QED BY <3>1, <3>2
  <2>6. UNCHANGED <<chain, watcher, poll, lost>>
    BY <1>3 DEF trackHop
  <2> QED BY <2>3, <2>4, <2>5, <2>6, Still DEF Shape, Grows, chain, watcher, poll
<1>4. CASE expire(i)
  <2> DEFINE r == [rows[i] EXCEPT !.state = "expired", !.bytes = FALSE]
  <2>1. rows' = [rows EXCEPT ![i] = r]
    BY <1>4 DEF expire
  <2>2. /\ r \in StagedRow /\ r.state = "expired" /\ r.received = rows[i].received
        /\ r.uploaded = rows[i].uploaded
    BY <1>0 DEF StagedRow
  <2> HIDE DEF r
  <2>3. rows' \in [Intents -> StagedRow] /\ RowsGrow
    BY <2>1, <2>2, RowSet
  <2>4. UNCHANGED <<chain, feed, watcher, poll, store, copy, lost>>
    BY <1>4 DEF expire
  <2> QED BY <2>3, <2>4, Still DEF Shape, Grows, chain, watcher, poll
<1> QED BY <1>1, <1>2, <1>3, <1>4

\* The process dies and boots again.
LEMMA RestartGrows ==
    ASSUME IntakeInv, Restart
    PROVE  Shape' /\ Grows /\ \A c \in Chains : cursor'[c] <= Len(log[c]) /\ newest'[c] = cursor'[c]
<1> USE DEF IntakeInv
<1>1. PICK e \in bootstrapBlockNumber, s \in getLatestSignature :
         cursor' = [evm |-> e, solana |-> s] /\ newest' = cursor'
  BY DEF Restart
<1>2. Len(log["evm"]) \in Nat /\ Len(log["solana"]) \in Nat
  BY DEF Shape, Chains
<1>3. e \in Nat /\ e <= Len(log["evm"]) /\ s \in Nat /\ s <= Len(log["solana"])
  BY <1>2 DEF bootstrapBlockNumber, getLatestSignature
<1>4. cursor' \in [Chains -> Nat] /\ newest' \in [Chains -> Nat]
      /\ \A c \in Chains : cursor'[c] <= Len(log[c]) /\ newest'[c] = cursor'[c]
  BY <1>1, <1>3 DEF Chains
<1>5. lost' \in [submitted : SUBSET Intents, received : SUBSET Intents] /\ LostGrows
  <2>1. PICK gone \in SUBSET Intents : lost' = [lost EXCEPT !.submitted = @ \union gone]
    BY DEF Restart
  <2> QED BY <2>1 DEF Shape, LostGrows
<1>6. /\ batch' \in [Chains -> SUBSET Nat] /\ store' \in [Intents -> {"idle"} \union Hops]
      /\ copy' \in [Writers -> {<<>>} \union {<<r>> : r \in Recorded}]
      /\ pass' \in [next : Nat, last : Nat, recorded : BOOLEAN]
  BY DEF Restart, NoPass
<1>7. UNCHANGED <<chain, tables, file>>
  BY DEF Restart
<1> QED BY <1>4, <1>5, <1>6, <1>7, Still DEF Shape, Grows, chain, tables

\* Every step.
LEMMA GrowStep ==
    ASSUME IntakeInv, [Next]_vars
    PROVE  Shape' /\ Grows
<1>1. CASE UNCHANGED vars
  BY <1>1, Still DEF vars, chain, tables, watcher, poll, IntakeInv, Shape, Grows
<1>2. CASE Next
  <2>1. CASE \E i \in Intents : Submit(i) \/ Deliver(i) \/ DeadlinePasses(i)
    BY <2>1, ChainGrows
  <2>2. CASE EmptyCheckpoint
    <3>1. delivered' \in Seq(Intents \union {Empty}) /\ DeliveredGrows
      BY <2>2, CheckpointAppended DEF EmptyCheckpoint, IntakeInv
    <3>2. UNCHANGED <<log, tables, watcher, poll, store, copy, lost>>
      BY <2>2 DEF EmptyCheckpoint
    <3> QED BY <3>1, <3>2, Still DEF IntakeInv, Shape, Grows, tables, watcher, poll
  <2>3. CASE \/ pollLifecycleEvents \/ pollIntentSubmitted
             \/ \E c \in Chains : Watch(c) \/ WatchFails(c)
    BY <2>3, WatchGrows DEF Watch
  <2>4. CASE backfill \/ SkipCheckpoint \/ processCheckpoint
    BY <2>4, PollGrows DEF processCheckpoint
  <2>5. CASE \/ \E u \in Uploads, i \in Intents, bytes \in Bytes : ingestBlob(u, i, bytes)
             \/ \E i \in Intents : recoverMissingBytes(i)
             \/ \E u \in Requests : Step(u) \/ RequestDies(u)
    BY <2>5, RequestGrows, UpsertGrows DEF Step
  <2>6. CASE \E i \in Intents : \/ tick(i) \/ StoreStep(i) \/ trackHop(i)
                                \/ StoreFails(i) \/ expire(i)
    BY <2>6, StoreGrows
  <2>7. CASE Restart
    BY <2>7, RestartGrows
  <2> QED BY <1>2, <2>1, <2>2, <2>3, <2>4, <2>5, <2>6, <2>7 DEF Next
<1> QED BY <1>1, <1>2

-----------------------------------------------------------------------------
(* Which steps touch what.                                                 *)

LEMMA Touched ==
    ASSUME Next
    PROVE  /\ UNCHANGED log \/ \E i \in Intents : Submit(i) \/ StoreStep(i)
           /\ UNCHANGED feed \/ (\E c \in Chains : WatchWrite(c)) \/ \E i \in Intents : trackHop(i)
           /\ \/ UNCHANGED poll \/ Restart
              \/ backfill \/ SkipCheckpoint \/ onReceived \/ ReceivedFails \/ writeCursor
           /\ \/ UNCHANGED <<store, copy>> \/ Restart
              \/ \E i \in Intents : tick(i) \/ StoreStep(i) \/ trackHop(i) \/ StoreFails(i)
              \/ \E c \in Chains : WatchRead(c) \/ WatchWrite(c) \/ WatchFails(c)
           /\ \/ UNCHANGED <<watcher, copy>> \/ Restart
              \/ UNCHANGED watcher /\ \E i \in Intents : StoreStep(i) \/ trackHop(i)
              \/ pollLifecycleEvents \/ pollIntentSubmitted
              \/ \E c \in Chains : WatchRead(c) \/ WatchWrite(c) \/ WatchFails(c)
<1>1. CASE \E i \in Intents : Submit(i) \/ Deliver(i) \/ DeadlinePasses(i)
  BY <1>1 DEF Submit, Deliver, DeadlinePasses, tables, poll, watcher
<1>2. CASE EmptyCheckpoint
  BY <1>2 DEF EmptyCheckpoint, tables, poll, watcher
<1>3. CASE \/ pollLifecycleEvents \/ pollIntentSubmitted
           \/ \E c \in Chains : Watch(c) \/ WatchFails(c)
  BY <1>3 DEF pollLifecycleEvents, pollIntentSubmitted, Watch, WatchRead, WatchWrite, WatchFails,
              chain, tables, poll
<1>4. CASE backfill \/ SkipCheckpoint \/ processCheckpoint
  BY <1>4 DEF backfill, SkipCheckpoint, processCheckpoint, onReceived, ReceivedFails, writeCursor,
              chain, tables, watcher
<1>5. CASE \/ \E u \in Uploads, i \in Intents, bytes \in Bytes : ingestBlob(u, i, bytes)
           \/ \E i \in Intents : recoverMissingBytes(i)
           \/ \E u \in Requests : Step(u) \/ RequestDies(u)
  BY <1>5 DEF ingestBlob, recoverMissingBytes, Step, FastPath, EncodeBlob, upsertBytes, Reread,
              RequestDies, chain, tables, watcher, poll
<1>6. CASE \E i \in Intents : \/ tick(i) \/ StoreStep(i) \/ trackHop(i)
                              \/ StoreFails(i) \/ expire(i)
  BY <1>6 DEF tick, StoreStep, trackHop, StoreFails, expire, chain, tables, watcher, poll
<1>7. CASE Restart
  BY <1>7 DEF Restart, chain, tables
<1> QED BY <1>1, <1>2, <1>3, <1>4, <1>5, <1>6, <1>7 DEF Next

-----------------------------------------------------------------------------
(* The parts, one by one.                                                  *)

\* The events of a log are about intents.
LEMMA LogIntents ==
    ASSUME Shape, NEW c \in Chains, NEW n \in DOMAIN log[c]
    PROVE  log[c][n] \in Event /\ log[c][n].intent \in Intents
<1>1. log[c] \in Seq(Event)
  BY DEF Shape
<1>2. log[c][n] \in Event
  BY <1>1
<1> QED BY <1>2 DEF Event

LEMMA LogStep ==
    ASSUME IntakeInv, [Next]_vars
    PROVE  LogOk'
<1>0. Shape /\ LogOk /\ Shape' /\ Grows
  BY GrowStep DEF IntakeInv
<1>1. CASE UNCHANGED log
  <2>1. \A c \in Chains : \A n \in DOMAIN log[c] : log[c][n].intent \in Intents
    BY <1>0, LogIntents
  <2> QED BY <1>0, <1>1, <2>1 DEF LogOk, Grows, RowsGrow, FeedGrows, ChainOf
<1>2. ASSUME NEW c \in Chains, NEW e \in Event, log' = [log EXCEPT ![c] = Append(@, e)],
             e.hop = "submitted" => ChainOf(e.intent) = c /\ \A n \in DOMAIN log[c] : log[c][n] # e,
             e.hop = "confirmed" => feed'[e.intent].committed /\ rows'[e.intent].uploaded
      PROVE  LogOk'
  <2>1. \A d \in Chains : \A n \in DOMAIN log'[d] :
           \/ n \in DOMAIN log[d] /\ log'[d][n] = log[d][n]
           \/ d = c /\ n = Len(log[c]) + 1 /\ log'[d][n] = e
    BY <1>0, <1>2, LogAppended
  <2>2. ASSUME NEW d \in Chains, NEW n \in DOMAIN log'[d]
        PROVE  /\ log'[d][n].hop = "submitted" =>
                     /\ ChainOf(log'[d][n].intent) = d
                     /\ \A m \in DOMAIN log'[d] : log'[d][m] = log'[d][n] => m = n
               /\ log'[d][n].hop = "confirmed" =>
                     /\ feed'[log'[d][n].intent].committed
                     /\ rows'[log'[d][n].intent].uploaded
    <3>1. CASE n \in DOMAIN log[d] /\ log'[d][n] = log[d][n]
      <4>2. log[d][n].intent \in Intents
        BY <1>0, <3>1, LogIntents
      <4>3. log[d][n].hop = "confirmed" => feed'[log[d][n].intent].committed
                                           /\ rows'[log[d][n].intent].uploaded
        BY <1>0, <3>1, <4>2 DEF LogOk, Grows, RowsGrow, FeedGrows
      <4>4. log[d][n].hop = "submitted" =>
               /\ ChainOf(log[d][n].intent) = d
               /\ \A m \in DOMAIN log'[d] : log'[d][m] = log[d][n] => m = n
        BY <1>0, <1>2, <2>1, <3>1 DEF LogOk
      <4> QED BY <3>1, <4>3, <4>4
    <3>2. CASE d = c /\ n = Len(log[c]) + 1 /\ log'[d][n] = e
      <4>1. ASSUME e.hop = "submitted", NEW m \in DOMAIN log'[d], log'[d][m] = e
            PROVE  m = n
        <5>1. ~(m \in DOMAIN log[d] /\ log'[d][m] = log[d][m])
          BY <1>2, <3>2, <4>1
        <5> QED BY <2>1, <3>2, <5>1
      <4> QED BY <1>2, <3>2, <4>1
    <3> QED BY <2>1, <3>1, <3>2
  <2> QED BY <2>2 DEF LogOk, ChainOf
<1>3. ASSUME NEW i \in Intents, Submit(i) PROVE LogOk'
  <2>1. Submitted(i) \in Event /\ Submitted(i).hop = "submitted" /\ Submitted(i).intent = i
        /\ ChainOf(i) \in Chains
    BY Distinct DEF Submitted, Event
  <2>2. \A n \in DOMAIN log[ChainOf(i)] : log[ChainOf(i)][n] # Submitted(i)
    BY <1>3 DEF Submit, OnChain, ToSet
  <2> QED BY <1>2, <1>3, <2>1, <2>2 DEF Submit
<1>4. ASSUME NEW i \in Intents, StoreStep(i), ~UNCHANGED log PROVE LogOk'
  <2>1. /\ store[i] = "proof_sent" /\ log' = [log EXCEPT !["evm"] = Append(@, Confirmed(i))]
        /\ rows' = [rows EXCEPT ![i] = storeEffect(i)] /\ "evm" \in Chains
    BY <1>4 DEF StoreStep, Chains
  <2>2. Confirmed(i) \in Event /\ Confirmed(i).hop = "confirmed" /\ Confirmed(i).intent = i
    BY DEF Confirmed, Event
  <2>3. feed'[i].committed
    BY <1>0, <2>1 DEF IntakeInv, StoreOk, Grows, FeedGrows
  <2>4. rows'[i].uploaded
    BY <1>0, <2>1, EffectRow DEF Shape
  <2> QED BY <1>2, <2>1, <2>2, <2>3, <2>4
<1>5. UNCHANGED log \/ \E i \in Intents : Submit(i) \/ StoreStep(i)
  <2>1. CASE Next
    BY <2>1, Touched
  <2>2. CASE UNCHANGED vars
    BY <2>2 DEF vars, chain
  <2> QED BY <2>1, <2>2
<1> QED BY <1>1, <1>3, <1>4, <1>5

\* What StoreOk says of one intent.
StoreGood(i) ==
    /\ store[i] # "idle" => feed[i].committed
    /\ copy[i] # <<>> => store[i] # "idle" /\ copy[i][1].committed
    /\ store[i] \in {"recorded_sui", "proof_sent"} => rows[i].uploaded
    /\ store[i] = "stored_walrus" /\ copy[i] # <<>> => rows[i].uploaded

LEMMA StoreOkStep ==
    ASSUME IntakeInv, [Next]_vars
    PROVE  StoreOk'
<1>0. Shape /\ Shape' /\ RowsGrow /\ FeedGrows /\ \A j \in Intents : StoreGood(j)
  BY GrowStep DEF IntakeInv, Grows, StoreOk, StoreGood
<1>1. /\ store \in [Intents -> {"idle"} \union Hops]
      /\ copy \in [Writers -> {<<>>} \union {<<r>> : r \in Recorded}]
  BY <1>0 DEF Shape
<1>2. ASSUME NEW j \in Intents, store'[j] = store[j], copy'[j] = copy[j] PROVE StoreGood(j)'
  BY <1>0, <1>2 DEF StoreGood, RowsGrow, FeedGrows
<1>3. CASE UNCHANGED <<store, copy>>
  BY <1>2, <1>3 DEF StoreOk, StoreGood
<1>4. ASSUME NEW c \in Chains, WatchRead(c) \/ WatchWrite(c) \/ WatchFails(c) PROVE StoreOk'
  <2>1. UNCHANGED store /\ \A j \in Intents : copy'[j] = copy[j]
    <3>1. \A j \in Intents : j # c /\ j \in Writers
      BY Distinct
    <3> QED BY <1>1, <1>4, <3>1 DEF WatchRead, WatchWrite, WatchFails, findOne, WriteHop
  <2> QED BY <1>2, <2>1 DEF StoreOk, StoreGood
<1>5. ASSUME NEW i \in Intents, tick(i) \/ StoreStep(i) \/ trackHop(i) \/ StoreFails(i)
      PROVE  StoreOk'
  <2>1. i \in Writers /\ \A j \in Intents : j \in Writers
    BY Distinct
  <2>2. \A j \in Intents \ {i} : store'[j] = store[j] /\ copy'[j] = copy[j]
    BY <1>1, <1>5, <2>1 DEF tick, StoreStep, trackHop, StoreFails, findOne, WriteHop
  <2>3. StoreGood(i)'
    <3>1. CASE tick(i)
      <4>1. store'[i] = "received" /\ feed[i].committed /\ copy'[i] = copy[i] /\ store[i] = "idle"
        BY <1>1, <3>1 DEF tick, StorePc, getCommitment
      <4> QED BY <1>0, <4>1 DEF StoreGood, FeedGrows
    <3>2. CASE StoreStep(i)
      <4>1. findOne(i, i) /\ store'[i] = store[i] /\ store[i] # "idle"
        BY <3>2 DEF StoreStep
      <4>2. copy'[i] # <<>> /\ copy'[i][1] = feed[i]
        BY <1>0, <2>1, <4>1, HopRead
      <4>3. store[i] # "received" => rows'[i].uploaded
        <5>1. rows'[i] = storeEffect(i)
          BY <1>0, <3>2 DEF StoreStep, Shape
        <5> QED BY <4>1, <5>1, EffectRow
      <4> QED BY <1>0, <4>1, <4>2, <4>3 DEF StoreGood, FeedGrows
    <3>3. CASE trackHop(i)
      <4>1. store'[i] = After(store[i]) /\ copy'[i] = <<>> /\ copy[i] # <<>> /\ store[i] \in Hops
        BY <1>1, <2>1, <3>3 DEF trackHop, WriteHop
      <4>2. store[i] \in {"stored_walrus", "recorded_sui", "proof_sent"} => rows'[i].uploaded
        BY <1>0, <4>1 DEF StoreGood, RowsGrow
      <4>3. feed'[i].committed
        BY <1>0, <4>1 DEF StoreGood, FeedGrows, Hops
      <4>4. store'[i] \in {"recorded_sui", "proof_sent"} => rows'[i].uploaded
        BY <4>1, <4>2, AfterHop DEF Hops
      <4> QED BY <4>1, <4>3, <4>4 DEF StoreGood
    <3>4. CASE StoreFails(i)
      <4>1. store'[i] = "idle" /\ copy'[i] = <<>>
        BY <1>1, <3>4 DEF StoreFails
      <4> QED BY <4>1 DEF StoreGood
    <3> QED BY <1>5, <3>1, <3>2, <3>3, <3>4
  <2>4. \A j \in Intents : StoreGood(j)'
    BY <1>2, <2>2, <2>3
  <2> QED BY <2>4 DEF StoreOk, StoreGood
<1>6. CASE Restart
  <2>1. \A j \in Intents : store'[j] = "idle" /\ copy'[j] = <<>>
    BY <1>6, Distinct DEF Restart
  <2> QED BY <2>1 DEF StoreOk
<1>7. \/ UNCHANGED <<store, copy>> \/ Restart
      \/ \E i \in Intents : tick(i) \/ StoreStep(i) \/ trackHop(i) \/ StoreFails(i)
      \/ \E c \in Chains : WatchRead(c) \/ WatchWrite(c) \/ WatchFails(c)
  <2>1. CASE Next
    BY <2>1, Touched
  <2>2. CASE UNCHANGED vars
    BY <2>2 DEF vars
  <2> QED BY <2>1, <2>2
<1> QED BY <1>3, <1>4, <1>5, <1>6, <1>7

LEMMA FeedStep ==
    ASSUME IntakeInv, [Next]_vars
    PROVE  FeedOk'
<1>0. Shape /\ Shape' /\ RowsGrow /\ FeedOk /\ StoreOk /\ WatchOk /\ LogOk
  BY GrowStep DEF IntakeInv, Grows
<1>1. ASSUME NEW j \in Intents, feed'[j] = feed[j] PROVE isExecuted(feed'[j].status) => rows'[j].uploaded
  BY <1>0, <1>1 DEF FeedOk, RowsGrow
<1>2. CASE UNCHANGED feed
  BY <1>1, <1>2 DEF FeedOk, isExecuted
<1>3. ASSUME NEW c \in Chains, WatchWrite(c) PROVE FeedOk'
  <2> DEFINE e == Polled(c)
  <2>1. batch[c] # {} /\ copy[c] # <<>>
    BY <1>0, <1>3 DEF WatchWrite, WatchOk
  <2>2. e.intent \in Intents /\ e.hop \in {"submitted", "confirmed"} /\ Place(c) \in DOMAIN log[c]
    BY <1>0, <2>1, PolledEvent
  <2>3. e.hop = "confirmed" => rows'[e.intent].uploaded
    BY <1>0, <2>2 DEF LogOk, RowsGrow, Polled
  <2>4. feed'[e.intent].status = e.hop /\ \A j \in Intents \ {e.intent} : feed'[j] = feed[j]
    <3>1. feed' = [feed EXCEPT ![e.intent] = applyHop(copy[c][1], e.hop, e.hop = "submitted")]
      BY <1>3 DEF WatchWrite, WriteHop
    <3> QED BY <1>0, <2>2, <3>1 DEF Shape, applyHop
  <2> HIDE DEF e
  <2>5. isExecuted(feed'[e.intent].status) => rows'[e.intent].uploaded
    BY <2>2, <2>3, <2>4 DEF isExecuted
  <2> QED BY <1>1, <2>2, <2>4, <2>5 DEF FeedOk, isExecuted
<1>4. ASSUME NEW i \in Intents, trackHop(i) PROVE FeedOk'
  <2>1. store[i] \in Hops /\ copy[i] # <<>> /\ store[i] # "idle"
    BY <1>0, <1>4 DEF trackHop, Shape
  <2>2. feed'[i].status = store[i] /\ \A j \in Intents \ {i} : feed'[j] = feed[j]
    <3>1. feed' = [feed EXCEPT ![i] = applyHop(copy[i][1], store[i], FALSE)]
      BY <1>4 DEF trackHop, WriteHop
    <3> QED BY <1>0, <3>1 DEF Shape, applyHop
  <2>3. store[i] # "received" => rows'[i].uploaded
    BY <1>0, <2>1 DEF StoreOk, RowsGrow, Hops
  <2>4. isExecuted(feed'[i].status) => rows'[i].uploaded
    BY <2>2, <2>3 DEF isExecuted
  <2> QED BY <1>1, <2>2, <2>4 DEF FeedOk, isExecuted
<1>5. UNCHANGED feed \/ (\E c \in Chains : WatchWrite(c)) \/ \E i \in Intents : trackHop(i)
  <2>1. CASE Next
    BY <2>1, Touched
  <2>2. CASE UNCHANGED vars
    BY <2>2 DEF vars, tables
  <2> QED BY <2>1, <2>2
<1> QED BY <1>2, <1>3, <1>4, <1>5

\* Queued, after the step.
QueuedAfter(n) ==
    \/ delivered'[n] \in {Empty} \union lost'.received
    \/ rows'[delivered'[n]].received
    \/ rows'[delivered'[n]].state \in {"done", "expired"}

LEMMA PassStep ==
    ASSUME IntakeInv, [Next]_vars
    PROVE  PassOk'
<1>0. Shape /\ Shape' /\ Grows /\ PassOk
  BY GrowStep DEF IntakeInv
<1>1. /\ pass \in [next : Nat, last : Nat, recorded : BOOLEAN] /\ file \in Nat
      /\ delivered \in Seq(Intents \union {Empty}) /\ Len(delivered) \in Nat
      /\ Len(delivered') \in Nat
      /\ DOMAIN delivered = 1..Len(delivered) /\ Len(delivered) <= Len(delivered')
      /\ NoPass.recorded = FALSE /\ NoPass.next = 1
  BY <1>0 DEF Shape, Grows, DeliveredGrows, NoPass
<1>2. ASSUME NEW n \in 1..Len(delivered), Queued(n) PROVE QueuedAfter(n)
  <2>1. delivered'[n] = delivered[n] /\ delivered[n] \in Intents \union {Empty}
    BY <1>0, <1>1 DEF Grows, DeliveredGrows
  <2> QED BY <1>0, <1>2, <2>1 DEF Queued, QueuedAfter, Settled, Grows, RowsGrow, LostGrows
<1>20. PassOk' <=>
         /\ file' <= Len(delivered')
         /\ \A n \in 1..file' : QueuedAfter(n)
         /\ pass' # NoPass =>
               /\ pass'.next \in 1..pass'.last /\ pass'.last <= Len(delivered')
               /\ \A n \in 1..(pass'.next - 1) : QueuedAfter(n)
               /\ pass'.recorded => QueuedAfter(pass'.next)
  BY DEF PassOk, Queued, QueuedAfter, Settled, NoPass
<1>3. \A n \in 1..file : QueuedAfter(n)
  BY <1>0, <1>1, <1>2 DEF PassOk
<1>4. pass # NoPass => /\ pass.next \in 1..Len(delivered)
                       /\ \A n \in 1..(pass.next - 1) : QueuedAfter(n)
                       /\ pass.recorded => QueuedAfter(pass.next)
  BY <1>0, <1>1, <1>2 DEF PassOk
<1>5. CASE UNCHANGED poll
  BY <1>0, <1>1, <1>3, <1>4, <1>5, <1>20 DEF PassOk, poll
<1>6. CASE Restart
  BY <1>0, <1>1, <1>3, <1>6, <1>20 DEF PassOk, Restart
<1>7. CASE backfill
  <2>1. /\ pass' = [next |-> file + 1, last |-> Len(delivered), recorded |-> FALSE]
        /\ file' = file /\ delivered' = delivered /\ file < Len(delivered)
    BY <1>7 DEF backfill, chain
  <2>2. pass'.next = file + 1 /\ pass'.last = Len(delivered) /\ pass'.recorded = FALSE
    BY <2>1
  <2> QED BY <1>0, <1>1, <1>3, <1>20, <2>1, <2>2
<1>8. ASSUME pass # NoPass, QueuedAfter(pass.next), NextCheckpoint, file' \in {file, pass.next},
             delivered' = delivered
      PROVE  PassOk'
  <2>1. \A n \in 1..pass.next : QueuedAfter(n)
    BY <1>1, <1>4, <1>8
  <2>2. file' <= Len(delivered) /\ \A n \in 1..file' : QueuedAfter(n)
    BY <1>0, <1>1, <1>3, <1>4, <1>8, <2>1 DEF PassOk
  <2>3. pass' # NoPass => /\ pass'.next = pass.next + 1 /\ pass'.last = pass.last
                          /\ pass'.recorded = FALSE /\ pass.next # pass.last
    BY <1>1, <1>8 DEF NextCheckpoint
  <2>4. pass.next \in 1..pass.last /\ pass.last <= Len(delivered)
    BY <1>0, <1>8 DEF PassOk
  <2> QED BY <1>1, <1>8, <1>20, <2>1, <2>2, <2>3, <2>4
<1>9. ASSUME pass # NoPass, QueuedAfter(pass.next), pass' = [pass EXCEPT !.recorded = TRUE],
             file' = file, delivered' = delivered
      PROVE  PassOk'
  <2>1. pass'.next = pass.next /\ pass'.last = pass.last
    BY <1>1, <1>9
  <2> QED BY <1>0, <1>1, <1>3, <1>4, <1>9, <1>20, <2>1 DEF PassOk
<1>10. CASE SkipCheckpoint
  <2>1. pass # NoPass /\ NextCheckpoint /\ file' = file /\ delivered' = delivered
    BY <1>10 DEF SkipCheckpoint, chain
  <2>2. QueuedAfter(pass.next)
    <3>1. lost'.received = lost.received \union ({delivered[pass.next]} \ {Empty})
      BY <1>0, <1>10 DEF SkipCheckpoint, Shape
    <3>2. delivered'[pass.next] \in {Empty} \union lost'.received
      BY <2>1, <3>1
    <3> QED BY <3>2 DEF QueuedAfter
  <2> QED BY <1>8, <2>1, <2>2
<1>11. CASE ReceivedFails
  <2>1. /\ pass # NoPass /\ file' = file /\ delivered' = delivered
        /\ pass' = [pass EXCEPT !.recorded = TRUE]
    BY <1>11 DEF ReceivedFails, chain
  <2>2. lost'.received = lost.received \union {delivered[pass.next]}
    BY <1>0, <1>11 DEF ReceivedFails, Shape
  <2>3. delivered'[pass.next] \in {Empty} \union lost'.received
    BY <2>1, <2>2
  <2> QED BY <1>9, <2>1, <2>3 DEF QueuedAfter
<1>12. CASE onReceived
  <2>1. /\ pass # NoPass /\ file' = file /\ delivered' = delivered
        /\ pass' = [pass EXCEPT !.recorded = TRUE]
    BY <1>12 DEF onReceived, chain
  <2>2. delivered[pass.next] \in Intents \union {Empty}
    BY <1>1, <1>4, <2>1
  <2>3. CASE delivered[pass.next] = Empty
    BY <1>9, <2>1, <2>3 DEF QueuedAfter
  <2>4. CASE delivered[pass.next] # Empty
    <3> DEFINE i == delivered[pass.next]
    <3>1. i \in Intents /\ markReceived(i) /\ rows[i] \in StagedRow
      BY <1>0, <1>12, <2>2, <2>4 DEF onReceived, Shape
    <3>2. rows'[i] = IF rows[i].state \in {"absent", "active"}
                     THEN [rows[i] EXCEPT !.state = "active", !.received = TRUE] ELSE rows[i]
      BY <1>0, <3>1 DEF markReceived, Shape
    <3>3. rows'[i].received \/ rows'[i].state \in {"done", "expired"}
      BY <3>1, <3>2 DEF StagedRow
    <3> QED BY <1>9, <2>1, <3>3 DEF QueuedAfter
  <2> QED BY <2>3, <2>4
<1>13. CASE writeCursor
  <2>1. pass.recorded /\ NextCheckpoint /\ file' = pass.next /\ delivered' = delivered
    BY <1>13 DEF writeCursor, chain
  <2>2. pass # NoPass
    BY <1>1, <2>1
  <2> QED BY <1>4, <1>8, <2>1, <2>2
<1>14. \/ UNCHANGED poll \/ Restart
       \/ backfill \/ SkipCheckpoint \/ onReceived \/ ReceivedFails \/ writeCursor
  <2>1. CASE Next
    BY <2>1, Touched
  <2>2. CASE UNCHANGED vars
    BY <2>2 DEF vars
  <2> QED BY <2>1, <2>2
<1> QED BY <1>5, <1>6, <1>7, <1>10, <1>11, <1>12, <1>13, <1>14

\* What WatchOk says of one chain.
WatchGood(c) ==
    /\ cursor[c] <= Len(log[c]) /\ newest[c] <= Len(log[c])
    /\ batch[c] \subseteq 1..newest[c]
    /\ \A n \in 1..cursor[c] : Caught(c, n)
    /\ batch[c] # {} => \A n \in 1..newest[c] : Caught(c, n) \/ n \in batch[c]
    /\ copy[c] # <<>> =>
          batch[c] # {} /\ (Polled(c).hop = "confirmed" => copy[c][1].committed)

\* An event that is caught stays so.
LEMMA StaysCaught ==
    ASSUME Shape, Grows, NEW c \in Chains, NEW n \in DOMAIN log[c], Caught(c, n)
    PROVE  Caught(c, n)'
<1>1. log'[c][n] = log[c][n] /\ log[c][n].intent \in Intents
  BY LogIntents DEF Grows, LogGrows
<1> QED BY <1>1 DEF Caught, Grows, FeedGrows, LostGrows

\* A watcher whose batch does not change stays at its event.
LEMMA SamePlace ==
    ASSUME Shape, WatchOk, LogGrows, NEW c \in Chains, batch'[c] = batch[c], batch[c] # {}
    PROVE  Polled(c)' = Polled(c)
<1>1. \A n \in batch[c] : n \in DOMAIN log[c]
  <2>1. log[c] \in Seq(Event) /\ newest[c] \in Nat /\ newest[c] <= Len(log[c])
        /\ batch[c] \subseteq 1..newest[c]
    BY DEF Shape, WatchOk
  <2> QED BY <2>1
<1>2. {n \in batch'[c] : log'[c][n].hop = "submitted"} = {n \in batch[c] : log[c][n].hop = "submitted"}
  BY <1>1 DEF LogGrows
<1>3. Place(c)' = Place(c)
  BY <1>2 DEF Place
<1>4. Place(c) \in DOMAIN log[c]
  BY PolledEvent
<1> QED BY <1>3, <1>4 DEF Polled, LogGrows

\* A watcher that does nothing.
LEMMA IdleWatcher ==
    ASSUME IntakeInv, Shape', Grows, NEW c \in Chains, cursor'[c] = cursor[c],
           newest'[c] = newest[c], batch'[c] = batch[c], copy'[c] = copy[c]
    PROVE  WatchGood(c)'
<1>1. WatchGood(c) /\ Shape /\ WatchOk
  BY DEF IntakeInv, WatchOk, WatchGood
<1>2. /\ cursor[c] \in Nat /\ newest[c] \in Nat /\ Len(log[c]) \in Nat /\ Len(log'[c]) \in Nat
      /\ DOMAIN log[c] = 1..Len(log[c]) /\ Len(log[c]) <= Len(log'[c])
  BY <1>1 DEF Shape, Grows, LogGrows
<1>3. \A n \in 1..Len(log[c]) : Caught(c, n) => Caught(c, n)'
  BY <1>1, <1>2, StaysCaught
<1>4. copy'[c] # <<>> =>
        batch'[c] # {} /\ (Polled(c)'.hop = "confirmed" => copy'[c][1].committed)
  BY <1>1, SamePlace DEF WatchGood, Grows
<1> QED BY <1>1, <1>2, <1>3, <1>4 DEF WatchGood

\* pollOnce() goes on past an event that was recorded, or is known to be lost.
LEMMA EventDone ==
    ASSUME IntakeInv, Shape', Grows, NEW c \in Chains, copy[c] # <<>>, pollOnce(c),
           copy'[c] = <<>>, log' = log, NEW p, p = Place(c), Caught(c, p)'
    PROVE  WatchGood(c)'
<1>1. WatchGood(c) /\ Shape /\ WatchOk
  BY DEF IntakeInv, WatchOk, WatchGood
<1>2. /\ cursor[c] \in Nat /\ newest[c] \in Nat /\ Len(log[c]) \in Nat
      /\ DOMAIN log[c] = 1..Len(log[c]) /\ c \in DOMAIN cursor
  BY <1>1 DEF Shape
<1>3. batch[c] # {} /\ p \in batch[c]
  BY <1>1, PolledEvent DEF WatchGood
<1>4. /\ batch'[c] = batch[c] \ {p} /\ newest'[c] = newest[c]
      /\ cursor'[c] = IF batch[c] \ {p} = {} THEN newest[c] ELSE cursor[c]
  BY <1>1 DEF pollOnce, Shape
<1>5. \A n \in 1..Len(log[c]) : Caught(c, n) => Caught(c, n)'
  BY <1>1, <1>2, StaysCaught
<1>6. \A n \in 1..newest[c] : Caught(c, n)' \/ n \in batch'[c]
  BY <1>1, <1>2, <1>3, <1>4, <1>5 DEF WatchGood
<1> QED BY <1>1, <1>2, <1>4, <1>5, <1>6 DEF WatchGood

\* A watcher's query starts after the cursor, and what it does not return is lost.
LEMMA QueryKeeps ==
    ASSUME IntakeInv, Shape', Grows, NEW c \in Chains, batch[c] = {}, copy'[c] = copy[c], log' = log,
           NEW absent \in SUBSET Unseen(c, newest'[c]), newest'[c] <= Len(log[c]),
           cursor[c] <= newest'[c], batch'[c] = Unseen(c, newest'[c]) \ absent,
           \A n \in absent : Caught(c, n)',
           cursor'[c] = cursor[c] \/ (batch'[c] = {} /\ cursor'[c] = newest'[c])
    PROVE  WatchGood(c)'
<1>1. WatchGood(c) /\ Shape
  BY DEF IntakeInv, WatchOk, WatchGood
<1>2. /\ cursor[c] \in Nat /\ newest'[c] \in Nat /\ Len(log[c]) \in Nat
      /\ DOMAIN log[c] = 1..Len(log[c])
  BY <1>1 DEF Shape
<1>3. \A n \in 1..cursor[c] : Caught(c, n)'
  BY <1>1, <1>2, StaysCaught DEF WatchGood
<1>4. \A n \in 1..newest'[c] : Caught(c, n)' \/ n \in batch'[c]
  BY <1>2, <1>3 DEF Unseen
<1>5. copy'[c] = <<>>
  BY <1>1 DEF WatchGood
<1>6. batch'[c] \subseteq 1..newest'[c]
  BY <1>2 DEF Unseen
<1>7. cursor'[c] <= Len(log[c]) /\ \A n \in 1..cursor'[c] : Caught(c, n)'
  BY <1>2, <1>3, <1>4
<1> QED BY <1>4, <1>5, <1>6, <1>7 DEF WatchGood

LEMMA WatchStep ==
    ASSUME IntakeInv, [Next]_vars
    PROVE  WatchOk'
<1>0. /\ Shape /\ Shape' /\ Grows /\ WatchOk /\ LogOk /\ \A c \in Chains : WatchGood(c)
      /\ "evm" \in Chains /\ "solana" \in Chains /\ Chains = {"evm", "solana"}
  BY GrowStep DEF IntakeInv, WatchOk, WatchGood, Chains
<1>1. SUFFICES \A c \in Chains : WatchGood(c)'
  BY DEF WatchOk, WatchGood
<1>2. /\ cursor \in [Chains -> Nat] /\ newest \in [Chains -> Nat]
      /\ batch \in [Chains -> SUBSET Nat] /\ Chains \subseteq Writers
      /\ copy \in [Writers -> {<<>>} \union {<<r>> : r \in Recorded}]
      /\ \A c \in Chains : Len(log[c]) \in Nat /\ DOMAIN log[c] = 1..Len(log[c])
      /\ feed \in [Intents -> Recorded]
      /\ lost \in [submitted : SUBSET Intents, received : SUBSET Intents]
  <2>1. \A c \in Chains : log[c] \in Seq(Event)
    BY <1>0 DEF Shape
  <2>2. \A c \in Chains : Len(log[c]) \in Nat /\ DOMAIN log[c] = 1..Len(log[c])
    BY <2>1
  <2> QED BY <1>0, <2>2, Distinct DEF Shape
<1>3. CASE UNCHANGED watcher /\ \A c \in Chains : copy'[c] = copy[c]
  BY <1>0, <1>3, IdleWatcher DEF watcher
<1>4. ASSUME NEW i \in Intents, StoreStep(i) \/ trackHop(i)
      PROVE  \A c \in Chains : copy'[c] = copy[c]
  <2>1. \E r : copy' = [copy EXCEPT ![i] = r]
    BY <1>4 DEF StoreStep, trackHop, findOne, WriteHop
  <2> QED BY <1>2, <2>1, Distinct
<1>5. CASE pollLifecycleEvents
  <2>1. PICK n \in cursor["evm"] + 1 .. Len(log["evm"]) :
           /\ batch' = [batch EXCEPT !["evm"] = Unseen("evm", n)]
           /\ newest' = [newest EXCEPT !["evm"] = n]
    BY <1>5 DEF pollLifecycleEvents
  <2>2. batch["evm"] = {} /\ UNCHANGED <<log, cursor, copy>>
    BY <1>5 DEF pollLifecycleEvents, chain
  <2>3. n \in Nat /\ cursor["evm"] <= n /\ n <= Len(log["evm"]) /\ newest'["evm"] = n
        /\ batch'["evm"] = Unseen("evm", n) \ {} /\ {} \in SUBSET Unseen("evm", n)
    BY <1>0, <1>2, <2>1
  <2>4. WatchGood("evm")'
    BY <1>0, <2>2, <2>3, QueryKeeps
  <2>5. batch'["solana"] = batch["solana"] /\ newest'["solana"] = newest["solana"]
    BY <1>2, <2>1
  <2>6. WatchGood("solana")'
    BY <1>0, <2>2, <2>5, IdleWatcher
  <2> QED BY <1>0, <2>4, <2>6
<1>6. CASE pollIntentSubmitted
  <2> DEFINE N == Len(log["solana"])
             U == Unseen("solana", N)
  <2>1. PICK absent \in SUBSET U :
           /\ batch' = [batch EXCEPT !["solana"] = U \ absent]
           /\ lost' = [lost EXCEPT !.submitted = @ \union {log["solana"][n].intent : n \in absent}]
           /\ newest' = [newest EXCEPT !["solana"] = N]
           /\ cursor' = [cursor EXCEPT !["solana"] = IF U \ absent = {} THEN newest'["solana"] ELSE @]
    BY <1>6 DEF pollIntentSubmitted
  <2>2. batch["solana"] = {} /\ UNCHANGED <<log, copy>> /\ N > cursor["solana"]
    BY <1>6 DEF pollIntentSubmitted, chain
  <2>3. /\ newest'["solana"] = N /\ batch'["solana"] = U \ absent
        /\ N \in Nat /\ cursor["solana"] <= N /\ N <= N
    BY <1>0, <1>2, <2>1, <2>2
  <2>4. cursor'["solana"] = IF U \ absent = {} THEN N ELSE cursor["solana"]
    BY <1>0, <1>2, <2>1, <2>3
  <2>5. \A n \in absent : log["solana"][n].intent \in lost'.submitted
    BY <1>2, <2>1
  <2>6. \A n \in absent : Caught("solana", n)'
    BY <2>2, <2>5 DEF Caught
  <2>7. WatchGood("solana")'
    BY <1>0, <2>2, <2>3, <2>4, <2>6, QueryKeeps
  <2>8. /\ batch'["evm"] = batch["evm"] /\ newest'["evm"] = newest["evm"]
        /\ cursor'["evm"] = cursor["evm"]
    BY <1>2, <2>1
  <2>9. WatchGood("evm")'
    BY <1>0, <2>2, <2>8, IdleWatcher
  <2> QED BY <1>0, <2>7, <2>9
<1>7. ASSUME NEW c \in Chains, WatchRead(c) PROVE \A d \in Chains : WatchGood(d)'
  <2> DEFINE i == Polled(c).intent
  <2>1. batch[c] # {} /\ findOne(c, i) /\ UNCHANGED <<watcher, log>>
    BY <1>7 DEF WatchRead, chain
  <2>2. i \in Intents /\ Place(c) \in DOMAIN log[c]
    BY <1>0, <2>1, PolledEvent
  <2>3. copy'[c] # <<>> /\ copy'[c][1] = feed[i] /\ \A v \in Writers \ {c} : copy'[v] = copy[v]
    BY <1>0, <1>2, <2>1, <2>2, HopRead
  <2>4. Polled(c).hop = "confirmed" => feed[i].committed
    BY <1>0, <2>2 DEF LogOk, Polled
  <2>5. Polled(c)' = Polled(c) /\ batch'[c] = batch[c]
    BY <1>0, <2>1, SamePlace DEF watcher, Grows
  <2>6. \A n \in 1..Len(log[c]) : Caught(c, n) => Caught(c, n)'
    BY <1>0, <1>2, StaysCaught
  <2>7. WatchGood(c)'
    BY <1>0, <1>2, <2>1, <2>3, <2>4, <2>5, <2>6 DEF WatchGood, watcher
  <2>8. \A d \in Chains \ {c} : WatchGood(d)'
    BY <1>0, <1>2, <2>1, <2>3, IdleWatcher DEF watcher
  <2> QED BY <2>7, <2>8
<1>8. ASSUME NEW c \in Chains, WatchWrite(c) \/ WatchFails(c)
      PROVE  \A d \in Chains : WatchGood(d)'
  <2>1. /\ copy[c] # <<>> /\ pollOnce(c) /\ copy' = [copy EXCEPT ![c] = <<>>] /\ UNCHANGED log
    BY <1>8 DEF WatchWrite, WatchFails, WriteHop, chain
  <2>2. batch[c] # {}
    BY <1>0, <2>1 DEF WatchOk
  <2>3. /\ Place(c) \in DOMAIN log[c] /\ Polled(c).intent \in Intents
    BY <1>0, <2>2, PolledEvent
  <2>4. PICK p : p = Place(c)
    OBVIOUS
  <2>5. Polled(c).hop = "submitted" =>
           feed'[Polled(c).intent].committed \/ Polled(c).intent \in lost'.submitted
    <3>1. CASE WatchWrite(c)
      <4> DEFINE e == Polled(c)
      <4>1. SUFFICES ASSUME e.hop = "submitted" PROVE feed'[e.intent].committed
        OBVIOUS
      <4>2. WriteHop(c, e.intent, e.hop, e.hop = "submitted")
        BY <3>1 DEF WatchWrite
      <4>3. WriteHop(c, e.intent, e.hop, TRUE)
        BY <4>1, <4>2, Zenon
      <4>4. feed' = [feed EXCEPT ![e.intent] = applyHop(copy[c][1], e.hop, TRUE)]
        BY <4>3 DEF WriteHop
      <4>5. applyHop(copy[c][1], e.hop, TRUE).committed
        BY DEF applyHop
      <4> QED BY <1>2, <2>3, <4>4, <4>5
    <3>2. CASE WatchFails(c)
      BY <1>2, <3>2 DEF WatchFails
    <3> QED BY <1>8, <3>1, <3>2
  <2>6. Caught(c, p)'
    BY <2>1, <2>4, <2>5 DEF Caught, Polled
  <2>7. copy'[c] = <<>> /\ \A d \in Chains \ {c} : copy'[d] = copy[d]
    BY <1>2, <2>1
  <2>8. WatchGood(c)'
    BY <1>0, <2>1, <2>4, <2>6, <2>7, EventDone
  <2>9. \A d \in Chains \ {c} : /\ cursor'[d] = cursor[d] /\ newest'[d] = newest[d]
                                /\ batch'[d] = batch[d]
    BY <1>2, <2>1 DEF pollOnce
  <2>10. \A d \in Chains \ {c} : WatchGood(d)'
    BY <1>0, <2>7, <2>9, IdleWatcher
  <2> QED BY <2>8, <2>10
<1>9. CASE Restart
  <2>1. /\ \A c \in Chains : batch'[c] = {} /\ copy'[c] = <<>>
        /\ UNCHANGED <<log, feed>>
    BY <1>2, <1>9 DEF Restart, chain, tables
  <2>2. \A c \in Chains : cursor'[c] <= Len(log[c]) /\ newest'[c] = cursor'[c] /\ cursor'[c] \in Nat
    BY <1>0, <1>9, RestartGrows DEF Shape
  <2>3. ASSUME NEW i \in Intents, ~feed[i].committed, OnChain(i),
               \A n \in DOMAIN log[ChainOf(i)] :
                  n > cursor'[ChainOf(i)] => log[ChainOf(i)][n] # Submitted(i)
        PROVE  i \in lost'.submitted
    BY <1>2, <1>9, <2>3 DEF Restart
  <2>4. ASSUME NEW c \in Chains, NEW n \in 1..cursor'[c] PROVE Caught(c, n)'
    <3> DEFINE e == log[c][n]
               i == e.intent
    <3>1. n \in DOMAIN log[c] /\ n \in Nat /\ n <= cursor'[c]
      BY <1>2, <2>2, <2>4
    <3>2. e \in Event /\ i \in Intents
      BY <1>0, <3>1, LogIntents
    <3>3. SUFFICES ASSUME e.hop = "submitted", ~feed[i].committed PROVE i \in lost'.submitted
      BY <2>1 DEF Caught
    <3>4. e = Submitted(i)
      BY <3>2, <3>3 DEF Event, Submitted
    <3>5. ChainOf(i) = c /\ \A m \in DOMAIN log[c] : log[c][m] = e => m = n
      BY <1>0, <3>1, <3>3 DEF LogOk
    <3>6. OnChain(i)
      BY <3>1, <3>4, <3>5 DEF OnChain, ToSet
    <3>7. \A m \in DOMAIN log[c] : m > cursor'[c] => log[c][m] # Submitted(i)
      BY <1>2, <2>2, <3>1, <3>4, <3>5
    <3> QED BY <2>3, <3>2, <3>3, <3>5, <3>6, <3>7
  <2> QED BY <2>1, <2>2, <2>4 DEF WatchGood
<1>10. \/ UNCHANGED <<watcher, copy>> \/ Restart
       \/ UNCHANGED watcher /\ \E i \in Intents : StoreStep(i) \/ trackHop(i)
       \/ pollLifecycleEvents \/ pollIntentSubmitted
       \/ \E c \in Chains : WatchRead(c) \/ WatchWrite(c) \/ WatchFails(c)
  <2>1. CASE Next
    BY <2>1, Touched
  <2>2. CASE UNCHANGED vars
    BY <2>2 DEF vars
  <2> QED BY <2>1, <2>2
<1> QED BY <1>3, <1>4, <1>5, <1>6, <1>7, <1>8, <1>9, <1>10

\* What the answer in r says, of the rows after the step.
TrueAfter(r) ==
    /\ r.answer = "accepted" => \/ rows'[r.intent].bytes \/ rows'[r.intent].uploaded
                                \/ rows'[r.intent].state \in {"done", "expired"}
    /\ r.answer = "already-executed" => rows'[r.intent].uploaded

\* An answer that was true stays so.
LEMMA RequestsStay ==
    ASSUME RequestOk, RowsGrow
    PROVE  \A v \in Requests : IsRequest(request[v]) /\ TrueAfter(request[v])
<1>1. ASSUME NEW v \in Requests, request[v].answer # "none" PROVE request[v].intent \in Intents
  BY <1>1 DEF RequestOk, IsRequest
<1> QED BY <1>1 DEF RequestOk, TrueAnswer, TrueAfter, RowsGrow, Settled

LEMMA RequestSet ==
    ASSUME RequestOk, RowsGrow, NEW u \in Requests, NEW r, request' = [request EXCEPT ![u] = r],
           IsRequest(r), TrueAfter(r)
    PROVE  RequestOk'
<1>1. request = [v \in Requests |-> request[v]]
  BY DEF RequestOk
<1>2. request'[u] = r /\ \A v \in Requests \ {u} : request'[v] = request[v]
  BY <1>1
<1>3. request' = [v \in Requests |-> request'[v]]
  BY <1>1
<1>4. \A v \in Requests : IsRequest(request'[v]) /\ TrueAfter(request'[v])
  BY <1>2, RequestsStay
<1> QED BY <1>3, <1>4 DEF RequestOk, TrueAfter, TrueAnswer, Settled, IsRequest

\* A request that is not there, one that has just started, and one that is answered.
Started(i, bytes) == [NoRequest EXCEPT !.pc = "cap", !.intent = i, !.bytes = bytes]
Answered(i, a)    == [NoRequest EXCEPT !.pc = "answered", !.intent = i, !.answer = a]

LEMMA Fresh ==
    ASSUME NEW i \in Intents, NEW bytes, NEW a
    PROVE  /\ IsRequest(NoRequest) /\ NoRequest.answer = "none"
           /\ IsRequest(Started(i, bytes)) /\ Started(i, bytes).answer = "none"
           /\ IsRequest(Answered(i, a)) /\ Answered(i, a).answer = a /\ Answered(i, a).intent = i
<1>1. PICK j : NoRequest = [pc |-> "none", intent |-> j, bytes |-> "committed", staged |-> 0,
                            answer |-> "none"]
  BY DEF NoRequest
<1>2. Started(i, bytes) = [pc |-> "cap", intent |-> i, bytes |-> bytes, staged |-> 0,
                           answer |-> "none"]
  <2>1. Started(i, bytes) = [[pc |-> "none", intent |-> j, bytes |-> "committed", staged |-> 0,
                              answer |-> "none"] EXCEPT !.pc = "cap", !.intent = i, !.bytes = bytes]
    BY <1>1, Zenon DEF Started
  <2> QED BY <2>1
<1>3. Answered(i, a) = [pc |-> "answered", intent |-> i, bytes |-> "committed", staged |-> 0,
                        answer |-> a]
  <2>1. Answered(i, a) = [[pc |-> "none", intent |-> j, bytes |-> "committed", staged |-> 0,
                           answer |-> "none"] EXCEPT !.pc = "answered", !.intent = i, !.answer = a]
    BY <1>1, Zenon DEF Answered
  <2> QED BY <2>1
<1> QED BY <1>1, <1>2, <1>3 DEF IsRequest

\* A request is answered.
LEMMA AnswerGood ==
    ASSUME RequestOk, RowsGrow, NEW u \in Requests, NEW i \in Intents, NEW a, Answer(u, i, a),
           a = "accepted" => \/ rows'[i].bytes \/ rows'[i].uploaded
                             \/ rows'[i].state \in {"done", "expired"},
           a = "already-executed" => rows'[i].uploaded
    PROVE  RequestOk'
<1>1. PICK r : r = IF u = Recovery THEN NoRequest ELSE Answered(i, a)
  OBVIOUS
<1>2. request' = [request EXCEPT ![u] = r]
  BY <1>1 DEF Answer, Answered
<1>3. IsRequest(r) /\ TrueAfter(r)
  BY <1>1, Fresh DEF TrueAfter
<1> QED BY <1>2, <1>3, RequestSet

\* A request goes on, and was not answered before.
LEMMA RequestMoves ==
    ASSUME RequestOk, RowsGrow, NEW u \in Requests, NEW pc, NEW staged,
           \/ request' = [request EXCEPT ![u].pc = pc]
           \/ request' = [request EXCEPT ![u].pc = pc, ![u].staged = staged],
           request[u].pc # "none", pc # "none"
    PROVE  RequestOk'
<1>1. /\ IsRequest(request[u]) /\ TrueAfter(request[u]) /\ request[u].intent \in Intents
      /\ request = [v \in Requests |-> request[v]]
  BY RequestsStay DEF IsRequest, RequestOk
<1>2. PICK r : r = IF request' = [request EXCEPT ![u].pc = pc] THEN [request[u] EXCEPT !.pc = pc]
                   ELSE [request[u] EXCEPT !.pc = pc, !.staged = staged]
  OBVIOUS
<1>3. request' = [request EXCEPT ![u] = r]
  BY <1>1, <1>2
<1>4. IsRequest(r) /\ r.intent = request[u].intent /\ r.answer = request[u].answer
  BY <1>1, <1>2 DEF IsRequest
<1>5. TrueAfter(r)
  BY <1>1, <1>4 DEF TrueAfter
<1> QED BY <1>3, <1>4, <1>5, RequestSet

\* ingest() up to its first await.
LEMMA IngestGood ==
    ASSUME IntakeInv, UNCHANGED <<feed, rows>>, NEW u \in Requests, NEW i \in Intents, NEW bytes \in Bytes,
           ingest(u, i, bytes)
    PROVE  RequestOk'
<1>1. RequestOk /\ RowsGrow /\ FeedOk /\ Shape
  BY Still DEF IntakeInv
<1>2. CASE Verdict(i, bytes) = "ok"
  <2>1. PICK r : r = Started(i, bytes)
    OBVIOUS
  <2>2. request' = [request EXCEPT ![u] = r]
    BY <1>2, <2>1 DEF ingest, Started
  <2>3. IsRequest(r) /\ TrueAfter(r)
    BY <2>1, Fresh DEF TrueAfter
  <2> QED BY <1>1, <2>2, <2>3, RequestSet
<1>3. CASE Verdict(i, bytes) # "ok"
  <2>1. PICK a : a = Verdict(i, bytes)
    OBVIOUS
  <2>2. Answer(u, i, a)
    BY <1>3, <2>1 DEF ingest
  <2>3. a # "accepted" /\ (a = "already-executed" => isExecuted(feed[i].status))
    BY <2>1 DEF Verdict, Bytes
  <2>4. a = "already-executed" => rows'[i].uploaded
    BY <1>1, <2>3 DEF FeedOk
  <2> QED BY <1>1, <2>2, <2>3, <2>4, AnswerGood
<1> QED BY <1>2, <1>3

LEMMA RequestStep ==
    ASSUME IntakeInv, [Next]_vars
    PROVE  RequestOk'
<1>0. RequestOk /\ Shape /\ RowsGrow /\ Recovery \in Requests /\ Uploads \subseteq Requests
  BY GrowStep DEF IntakeInv, Grows, Requests
<1>1. CASE UNCHANGED request
  BY <1>0, <1>1, RequestsStay DEF RequestOk, TrueAfter, TrueAnswer, Settled, IsRequest
<1>2. ASSUME NEW u \in Uploads, NEW i \in Intents, NEW bytes \in Bytes, ingestBlob(u, i, bytes)
      PROVE  RequestOk'
  <2>1. ingest(u, i, bytes) /\ UNCHANGED <<feed, rows>>
    BY <1>2 DEF ingestBlob, tables
  <2> QED BY <1>0, <2>1, IngestGood
<1>3. ASSUME NEW i \in Intents, recoverMissingBytes(i) PROVE RequestOk'
  <2>1. ingest(Recovery, i, "committed") /\ UNCHANGED <<feed, rows>> /\ "committed" \in Bytes
    BY <1>3 DEF recoverMissingBytes, tables, Bytes
  <2> QED BY <1>0, <2>1, IngestGood
<1>4. ASSUME NEW u \in Requests, FastPath(u) \/ EncodeBlob(u) \/ Reread(u) \/ upsertBytes(u)
      PROVE  RequestOk'
  <2>1. PICK i \in Intents : i = request[u].intent
    BY <1>0, <1>4 DEF RequestOk, IsRequest, FastPath, EncodeBlob, Reread, upsertBytes
  <2>2. request[u].pc # "none"
    BY <1>4 DEF FastPath, EncodeBlob, Reread, upsertBytes
  <2>3. CASE \E a \in {"backpressure", "expired", "wrong-blob-id"} : Answer(u, i, a)
    BY <1>0, <2>1, <2>3, AnswerGood
  <2>4. CASE \E pc \in {"encode", "reread"} : Goto(u, pc)
    BY <1>0, <2>2, <2>4, RequestMoves DEF Goto
  <2>5. CASE request' = [request EXCEPT ![u].pc = "write",
                            ![u].staged = stagedBytesTotalExcluding(request[u].intent)]
    BY <1>0, <2>2, <2>5, RequestMoves
  <2>6. CASE rows' = [rows EXCEPT ![i].state = "active", ![i].bytes = TRUE] /\ Answer(u, i, "accepted")
    <3>1. rows'[i].bytes
      BY <1>0, <2>6 DEF Shape, StagedRow
    <3> QED BY <1>0, <2>1, <2>6, <3>1, AnswerGood
  <2>7. CASE FastPath(u)
    BY <2>1, <2>3, <2>4, <2>7 DEF FastPath
  <2>8. CASE EncodeBlob(u)
    BY <2>1, <2>3, <2>5, <2>8 DEF EncodeBlob
  <2>9. CASE Reread(u)
    <3>1. Answer(u, i, "backpressure") \/ Answer(u, i, "expired")
      BY <2>1, <2>9 DEF Reread
    <3> QED BY <2>3, <3>1
  <2>10. CASE upsertBytes(u)
    BY <2>1, <2>4, <2>6, <2>10 DEF upsertBytes
  <2> QED BY <1>4, <2>7, <2>8, <2>9, <2>10
<1>5. ASSUME NEW u \in Requests, RequestDies(u) PROVE RequestOk'
  <2>1. PICK r : r = NoRequest
    OBVIOUS
  <2>2. request' = [request EXCEPT ![u] = r]
    BY <1>5, <2>1 DEF RequestDies
  <2>3. IsRequest(r) /\ TrueAfter(r)
    <3>1. PICK j : NoRequest = [pc |-> "none", intent |-> j, bytes |-> "committed", staged |-> 0,
                                answer |-> "none"]
      BY DEF NoRequest
    <3> QED BY <2>1, <3>1 DEF IsRequest, TrueAfter
  <2> QED BY <1>0, <2>2, <2>3, RequestSet
<1>6. CASE Restart
  <2>1. request' = [u \in Requests |-> NoRequest]
    BY <1>6 DEF Restart
  <2>2. PICK j : NoRequest = [pc |-> "none", intent |-> j, bytes |-> "committed", staged |-> 0,
                              answer |-> "none"]
    BY DEF NoRequest
  <2> QED BY <2>1, <2>2 DEF RequestOk, IsRequest, TrueAnswer
<1>7. \/ UNCHANGED request \/ Restart
      \/ \E u \in Uploads, i \in Intents, bytes \in Bytes : ingestBlob(u, i, bytes)
      \/ \E i \in Intents : recoverMissingBytes(i)
      \/ \E u \in Requests : \/ FastPath(u) \/ EncodeBlob(u) \/ Reread(u) \/ upsertBytes(u)
                             \/ RequestDies(u)
  <2>1. CASE UNCHANGED vars
    BY <2>1 DEF vars
  <2>2. CASE \/ \E i \in Intents : Submit(i) \/ Deliver(i) \/ DeadlinePasses(i)
             \/ EmptyCheckpoint \/ pollLifecycleEvents \/ pollIntentSubmitted
    BY <2>2 DEF Submit, Deliver, DeadlinePasses, EmptyCheckpoint, pollLifecycleEvents,
                pollIntentSubmitted
  <2>3. CASE \/ \E c \in Chains : Watch(c) \/ WatchFails(c)
             \/ backfill \/ SkipCheckpoint \/ processCheckpoint
    BY <2>3 DEF Watch, WatchRead, WatchWrite, WatchFails, backfill, SkipCheckpoint,
                processCheckpoint, onReceived, ReceivedFails, writeCursor
  <2>4. CASE \E i \in Intents : tick(i) \/ StoreStep(i) \/ trackHop(i) \/ StoreFails(i) \/ expire(i)
    BY <2>4 DEF tick, StoreStep, trackHop, StoreFails, expire
  <2> QED BY <2>1, <2>2, <2>3, <2>4 DEF Next, Step
<1> QED BY <1>1, <1>2, <1>3, <1>4, <1>5, <1>6, <1>7

-----------------------------------------------------------------------------
(* The theorems.                                                           *)

LEMMA IntakeInit == Init => IntakeInv
<1> SUFFICES ASSUME Init PROVE IntakeInv
  OBVIOUS
<1>1. /\ NoRecord \in Recorded /\ NoRow \in StagedRow /\ NoRecord.status = "none"
      /\ NoPass \in [next : Nat, last : Nat, recorded : BOOLEAN]
  BY DEF NoRecord, Recorded, Statuses, NoRow, StagedRow, NoPass
<1>2. Shape
  BY <1>1 DEF Init, Shape
<1>3. \A c \in Chains : log[c] = <<>> /\ cursor[c] = 0 /\ newest[c] = 0 /\ batch[c] = {}
  BY DEF Init
<1>4. \A w \in Writers : copy[w] = <<>>
  BY DEF Init
<1>5. LogOk
  BY <1>3 DEF LogOk
<1>6. StoreOk
  BY <1>4, Distinct DEF Init, StoreOk
<1>7. WatchOk
  <2>1. \A c \in Chains : cursor[c] <= Len(log[c]) /\ newest[c] <= Len(log[c])
    BY <1>3
  <2>2. \A c \in Chains : 1..cursor[c] = {}
    BY <1>3
  <2> QED BY <1>3, <1>4, <2>1, <2>2, Distinct DEF WatchOk
<1>8. PassOk
  BY DEF Init, PassOk
<1>9. FeedOk
  BY <1>1 DEF Init, FeedOk, isExecuted
<1>10. RequestOk
  <2>1. request = [u \in Requests |-> NoRequest]
    BY DEF Init
  <2>2. PICK j : NoRequest = [pc |-> "none", intent |-> j, bytes |-> "committed", staged |-> 0,
                              answer |-> "none"]
    BY DEF NoRequest
  <2> QED BY <2>1, <2>2 DEF RequestOk, IsRequest, TrueAnswer
<1> QED BY <1>2, <1>5, <1>6, <1>7, <1>8, <1>9, <1>10 DEF IntakeInv

\* The invariant holds of every reachable state.
THEOREM IntakeInvariant == Spec => []IntakeInv
<1>1. IntakeInv /\ [Next]_vars => IntakeInv'
  BY GrowStep, LogStep, StoreOkStep, WatchStep, PassStep, FeedStep, RequestStep DEF IntakeInv
<1> QED BY <1>1, IntakeInit, PTL DEF Spec

\* No event slips past a cursor: what pollOnce() of the watchers and backfill() of the Sui poll
\* have left behind is in the lifecycle table and in the queue, or known to be lost, whatever
\* restarts fall between the recording and the cursor's move.
THEOREM NoEventSlipsBy == Spec => []NothingSlipsBy
<1>1. IntakeInv => NothingSlipsBy
  BY DEF IntakeInv, PassOk, Queued, WatchOk, Caught, NothingSlipsBy
<1> QED BY <1>1, IntakeInvariant, PTL

\* recordHop() reads a record and writes it back later, and no interleaving of its writers erases
\* a commitment.
THEOREM CommitmentIsKept == Spec => CommitmentSticks
<1>1. IntakeInv /\ [Next]_vars
        => [\A i \in Intents : feed[i].committed => feed'[i].committed]_vars
  BY GrowStep DEF Grows, FeedGrows
<1> QED BY <1>1, IntakeInvariant, PTL DEF Spec, CommitmentSticks

\* What ingest() answered stays so: accepted bytes stay until the blob is on Walrus or the row
\* settled, and an intent answered as executed is on Walrus.
THEOREM AnswersHold == Spec => []AnswersAreTrue
<1>1. IntakeInv => AnswersAreTrue
  BY DEF IntakeInv, RequestOk, TrueAnswer, AnswersAreTrue, Requests
<1> QED BY <1>1, IntakeInvariant, PTL
=============================================================================
