----------------------------- MODULE ClientProofs -----------------------------
(***************************************************************************)
(* Theorems about Client: for any number of calls of a wallet, any fees    *)
(* and any retry policy, what a call reports is true, a paid intent is     *)
(* reported, and a priced store costs what it was quoted.                  *)
(***************************************************************************)
EXTENDS Client, TLAPS

-----------------------------------------------------------------------------
(* The inductive invariant.                                                *)

\* A call has nothing on chain before its transaction lands.
Before == {"idle", "encode", "fee", "price", "nonce", "send"}

\* A call, its waiting time any number.
Pcs == {"idle", "encode", "fee", "price", "nonce", "send", "confirm", "upload", "await",
        "read", "done", "failed"}
Forwards == Fees \union {FeeCap, NoFee}
CallIds  == {NoId} \union (Chains \X (Nat \ {0}))

CallT == [pc : Pcs, chain : Chains, priced : BOOLEAN, data : Data,
          forward : Forwards, upper : BOOLEAN,
          nonce : Nat, attempt : 1..MaxAttempts, elapsed : Int,
          polls : 0..MaxPolls, id : CallIds,
          progress : StoreProgress, epoch : 0..1, lostAnswer : BOOLEAN]

\* The awaits a call of its kind goes through.
OnFlow(r) ==
    /\ r.pc = "fee"   => r.chain = "evm" \/ r.priced
    /\ r.pc = "price" => r.priced
    /\ r.pc = "nonce" => r.chain = "solana"
    /\ r.pc = "read"  => r.chain = "evm"

\* What call c, as r, says of the intents in tbl is so.
CallGood(tbl, c, r) ==
    /\ OnFlow(r)
    /\ r.upper => r.forward = FeeCap /\ r.pc \notin {"encode", "fee"}
    /\ r.pc \in Before => r.id = NoId
    /\ r.pc = "confirm" =>
          r.id = NoId /\ \E n \in DOMAIN tbl[r.chain] : tbl[r.chain][n].call = c
    /\ r.pc \in {"upload", "await", "read"} => r.id # NoId
    /\ r.id = NoId => r.progress \in {"none", "encoded", "quoted"}
    /\ r.id # NoId =>
          LET i == tbl[r.id[1]][r.id[2]]
          IN  /\ r.id[2] \in DOMAIN tbl[r.id[1]] /\ i.call = c
              /\ r.pc = "read" => IsExecuted(i)
              /\ r.progress \in {"uploaded", "proven"} => i.accepted \/ IsStored(i)
              /\ r.progress = "proven" => IsExecuted(i) /\ r.epoch = 1

\* Its call, as r, knows of intent n of a chain, or has lost the answer, and paid for it
\* what it was quoted.  A Solana call that waits for the confirmation derived this id.
IntentGood(ch, n, i, r) ==
    /\ r.chain = ch
    /\ r.pc \notin Before
    /\ \/ r.id = <<ch, n>>
       \/ /\ r.id = NoId
          /\ \/ r.pc = "confirm" /\ (ch = "solana" => r.nonce + 1 = n)
             \/ r.pc = "failed" /\ r.lostAnswer
    /\ r.priced => IF ch = "evm" THEN i.escrow + i.fee = Escrow + r.forward
                   ELSE /\ i.escrow = Escrow
                        /\ r.upper => i.fee <= r.forward
                        /\ i.fee <= Max2(r.forward, FeeCap)

\* No call submits twice.
SubmitsOnce ==
    \A ch \in Chains : \A m, n \in DOMAIN intents[ch] :
        intents[ch][m].call = intents[ch][n].call => m = n

ClientInv ==
    /\ call \in [Calls -> CallT]
    /\ intents \in [Chains -> Seq(Intent)]
    /\ fee \in Fees
    /\ \A c \in Calls : CallGood(intents, c, call[c])
    /\ \A ch \in Chains : \A n \in DOMAIN intents[ch] :
          IntentGood(ch, n, intents[ch][n], call[intents[ch][n].call])
    /\ SubmitsOnce

-----------------------------------------------------------------------------
(* The helpers.                                                            *)

LEMMA Numbers ==
    /\ FeeCap \in Nat \ {0} /\ Escrow \in Nat \ {0} /\ MaxAttempts \in Nat \ {0}
    /\ MaxPolls \in Nat \ {0} /\ BaseDelay \in Nat \ {0} /\ MaxElapsed \in Nat
    /\ MaxDelay \in Nat /\ RetryAfters \subseteq Nat /\ Fees \subseteq Nat \ {0}
  BY ConstantsAssumption DEF ConstantsAssumption

LEMMA IdParts ==
    ASSUME NEW id \in Chains \X (Nat \ {0})
    PROVE  id # NoId /\ id[1] \in Chains /\ id[2] \in Nat \ {0} /\ id = <<id[1], id[2]>>
<1>1. PICK ch \in Chains, n \in Nat \ {0} : id = <<ch, n>>
  OBVIOUS
<1>2. <<ch, n>> # <<>>
  OBVIOUS
<1> QED BY <1>1, <1>2 DEF NoId

LEMMA ChainIds ==
    ASSUME NEW ch \in Chains, NEW n \in Nat \ {0}
    PROVE  <<ch, n>> \in Chains \X (Nat \ {0}) /\ <<ch, n>> # NoId
  BY DEF NoId

\* The await that follows the one a call is at.
NextPc(c) == Flow(c)[(CHOOSE k \in DOMAIN Flow(c) : Flow(c)[k] = call[c].pc) + 1]

FlowNext(c, pc, next) == call[c].pc = pc => NextPc(c) \in next

LEMMA FlowEvm ==
    ASSUME NEW c \in Calls, call[c] \in CallT, OnFlow(call[c]), call[c].chain = "evm"
    PROVE  /\ FlowNext(c, "encode", {"fee"})
           /\ FlowNext(c, "fee", IF call[c].priced THEN {"price"} ELSE {"send"})
           /\ FlowNext(c, "price", {"send"})
           /\ FlowNext(c, "send", {"confirm"})
           /\ FlowNext(c, "confirm", {"upload"})
           /\ FlowNext(c, "upload", {"await"})
           /\ FlowNext(c, "await", {"read"})
           /\ FlowNext(c, "read", {"done"})
<1>1. CASE call[c].priced
  <2>1. Flow(c) = EvmStorePriced
    BY <1>1 DEF Flow
  <2>2. DOMAIN EvmStorePriced = 1..9
    BY DEF EvmStorePriced
  <2>3. ASSUME NEW k \in 1..8, call[c].pc = EvmStorePriced[k] PROVE NextPc(c) = EvmStorePriced[k + 1]
    <3>1. \A j \in 1..9 : EvmStorePriced[j] = EvmStorePriced[k] => j = k
      BY DEF EvmStorePriced
    <3>2. (CHOOSE j \in DOMAIN Flow(c) : Flow(c)[j] = call[c].pc) = k
      BY <2>1, <2>2, <2>3, <3>1
    <3> QED BY <2>1, <3>2 DEF NextPc
  <2> QED BY <1>1, <2>3 DEF FlowNext, EvmStorePriced
<1>2. CASE ~call[c].priced
  <2>1. Flow(c) = EvmStore
    BY <1>2 DEF Flow
  <2>2. DOMAIN EvmStore = 1..8
    BY DEF EvmStore
  <2>3. ASSUME NEW k \in 1..7, call[c].pc = EvmStore[k] PROVE NextPc(c) = EvmStore[k + 1]
    <3>1. \A j \in 1..8 : EvmStore[j] = EvmStore[k] => j = k
      BY DEF EvmStore
    <3>2. (CHOOSE j \in DOMAIN Flow(c) : Flow(c)[j] = call[c].pc) = k
      BY <2>1, <2>2, <2>3, <3>1
    <3> QED BY <2>1, <3>2 DEF NextPc
  <2> QED BY <1>2, <2>3 DEF FlowNext, EvmStore, OnFlow
<1> QED BY <1>1, <1>2

LEMMA FlowSolana ==
    ASSUME NEW c \in Calls, call[c] \in CallT, OnFlow(call[c]), call[c].chain = "solana"
    PROVE  /\ FlowNext(c, "encode", IF call[c].priced THEN {"fee"} ELSE {"nonce"})
           /\ FlowNext(c, "fee", {"price"})
           /\ FlowNext(c, "price", {"nonce"})
           /\ FlowNext(c, "nonce", {"send"})
           /\ FlowNext(c, "send", {"confirm"})
           /\ FlowNext(c, "confirm", {"upload"})
           /\ FlowNext(c, "upload", {"await"})
           /\ FlowNext(c, "await", {"done"})
<1>1. CASE call[c].priced
  <2>1. Flow(c) = SolanaStorePriced
    BY <1>1 DEF Flow
  <2>2. DOMAIN SolanaStorePriced = 1..9
    BY DEF SolanaStorePriced
  <2>3. ASSUME NEW k \in 1..8, call[c].pc = SolanaStorePriced[k]
        PROVE  NextPc(c) = SolanaStorePriced[k + 1]
    <3>1. \A j \in 1..9 : SolanaStorePriced[j] = SolanaStorePriced[k] => j = k
      BY DEF SolanaStorePriced
    <3>2. (CHOOSE j \in DOMAIN Flow(c) : Flow(c)[j] = call[c].pc) = k
      BY <2>1, <2>2, <2>3, <3>1
    <3> QED BY <2>1, <3>2 DEF NextPc
  <2> QED BY <1>1, <2>3 DEF FlowNext, SolanaStorePriced
<1>2. CASE ~call[c].priced
  <2>1. Flow(c) = SolanaStore
    BY <1>2 DEF Flow
  <2>2. DOMAIN SolanaStore = 1..7
    BY DEF SolanaStore
  <2>3. ASSUME NEW k \in 1..6, call[c].pc = SolanaStore[k] PROVE NextPc(c) = SolanaStore[k + 1]
    <3>1. \A j \in 1..7 : SolanaStore[j] = SolanaStore[k] => j = k
      BY DEF SolanaStore
    <3>2. (CHOOSE j \in DOMAIN Flow(c) : Flow(c)[j] = call[c].pc) = k
      BY <2>1, <2>2, <2>3, <3>1
    <3> QED BY <2>1, <3>2 DEF NextPc
  <2> QED BY <1>2, <2>3 DEF FlowNext, SolanaStore, OnFlow
<1> QED BY <1>1, <1>2

\* Two states of a call that tell the application the same.
Like(s, r) ==
    /\ s.chain = r.chain /\ s.priced = r.priced /\ s.data = r.data
    /\ s.forward = r.forward /\ s.upper = r.upper /\ s.nonce = r.nonce
    /\ s.id = r.id /\ s.progress = r.progress /\ s.epoch = r.epoch
    /\ s.lostAnswer = r.lostAnswer

Becomes(c, s) == call' = [call EXCEPT ![c] = s]

\* Moving a call and setting the counters of its loop tells the application nothing.
Moved(r, pc, attempt, elapsed, polls) ==
    [r EXCEPT !.pc = pc, !.attempt = attempt, !.elapsed = elapsed, !.polls = polls]

LEMMA Counted ==
    ASSUME NEW r \in CallT, NEW pc \in Pcs, NEW attempt \in 1..MaxAttempts, NEW elapsed \in Int,
           NEW polls \in 0..MaxPolls
    PROVE  /\ Moved(r, pc, attempt, elapsed, polls) \in CallT
           /\ Like(Moved(r, pc, attempt, elapsed, polls), r)
           /\ Moved(r, pc, attempt, elapsed, polls).pc = pc
  BY DEF CallT, Like, Moved

\* The call goes on to the next await of its flow.
LEMMA ProceedEffect ==
    ASSUME NEW c \in Calls, call \in [Calls -> CallT], NEW r \in CallT, Proceed(c, r),
           NEW pc \in Pcs, NextPc(c) = pc
    PROVE  \E s \in CallT : Becomes(c, s) /\ Like(s, r) /\ s.pc = pc
<1> DEFINE s == Fresh([r EXCEPT !.pc = pc])
<1>1. s = Moved(r, pc, 1, 0, 0)
  BY DEF Fresh, Moved
<1>2. Becomes(c, s)
  BY DEF Proceed, NextPc, Becomes
<1> HIDE DEF s
<1>3. s \in CallT /\ Like(s, r) /\ s.pc = pc
  <2>1. 1 \in 1..MaxAttempts /\ 0 \in Int /\ 0 \in 0..MaxPolls
    BY Numbers
  <2> QED BY <1>1, <2>1, Counted
<1> QED BY <1>2, <1>3

\* An await that is repeated or rejects.
Rounds(c) ==
    \E s \in CallT : Becomes(c, s) /\ Like(s, call[c]) /\ s.pc \in {call[c].pc, "failed"}

LEMMA FailEffect ==
    ASSUME NEW c \in Calls, call \in [Calls -> CallT], Fail(c)
    PROVE  /\ Rounds(c)
           /\ \E s \in CallT : Becomes(c, s) /\ Like(s, call[c]) /\ s.pc = "failed"
<1> DEFINE s == Fresh([call[c] EXCEPT !.pc = "failed"])
<1>1. s = Moved(call[c], "failed", 1, 0, 0)
  BY DEF Fresh, Moved
<1>2. Becomes(c, s)
  BY DEF Fail, Becomes
<1> HIDE DEF s
<1>3. s \in CallT /\ Like(s, call[c]) /\ s.pc = "failed"
  <2>1. call[c] \in CallT /\ "failed" \in Pcs
    BY DEF Pcs
  <2>2. 1 \in 1..MaxAttempts /\ 0 \in Int /\ 0 \in 0..MaxPolls
    BY Numbers
  <2> QED BY <1>1, <2>1, <2>2, Counted
<1> QED BY <1>2, <1>3 DEF Rounds

LEMMA RetryEffect ==
    ASSUME NEW c \in Calls, call \in [Calls -> CallT], NEW retryable,
           NEW after \in {NoFee} \union RetryAfters, Retry(c, retryable, after)
    PROVE  Rounds(c)
<1> DEFINE delay == withRelayerRetry(call[c].attempt, call[c].elapsed, retryable, after)
           s == [call[c] EXCEPT !.attempt = @ + 1, !.elapsed = @ + delay]
<1>1. /\ call[c] \in CallT /\ call[c].attempt \in 1..MaxAttempts /\ call[c].elapsed \in Int
      /\ call[c].pc \in Pcs /\ call[c].polls \in 0..MaxPolls
  BY DEF CallT
<1>2. CASE Fail(c)
  BY <1>2, FailEffect
<1>3. CASE ~Fail(c)
  <2>1. delay # -1 /\ call' = [call EXCEPT ![c].attempt = @ + 1, ![c].elapsed = @ + delay]
    BY <1>3 DEF Retry
  <2>2. call[c].attempt < MaxAttempts /\ delay \in Int
    <3>1. 2^(call[c].attempt - 1) \in Int
      BY <1>1, Numbers
    <3>2. BaseDelay * 2^(call[c].attempt - 1) \in Int
      BY <3>1, Numbers
    <3> QED BY <1>1, <2>1, <3>2, Numbers DEF withRelayerRetry, Min2, NoFee
  <2> HIDE DEF delay
  <2>3. s = Moved(call[c], call[c].pc, call[c].attempt + 1, call[c].elapsed + delay, call[c].polls)
    BY <1>1 DEF CallT, Moved
  <2>4. Becomes(c, s)
    BY <2>1 DEF Becomes
  <2> HIDE DEF s
  <2>5. s \in CallT /\ Like(s, call[c]) /\ s.pc = call[c].pc
    <3>1. call[c].attempt + 1 \in 1..MaxAttempts /\ call[c].elapsed + delay \in Int
      BY <1>1, <2>2, Numbers
    <3> QED BY <1>1, <2>3, <3>1, Counted
  <2> QED BY <2>4, <2>5 DEF Rounds
<1> QED BY <1>2, <1>3

LEMMA PollEffect ==
    ASSUME NEW c \in Calls, call \in [Calls -> CallT], PollAgain(c)
    PROVE  Rounds(c)
<1>1. CASE Fail(c)
  BY <1>1, FailEffect
<1>2. CASE ~Fail(c)
  <2> DEFINE s == [call[c] EXCEPT !.polls = @ + 1]
  <2>1. call[c].polls # MaxPolls /\ call' = [call EXCEPT ![c].polls = @ + 1]
    BY <1>2 DEF PollAgain, ProofTimeoutError
  <2>2. /\ call[c] \in CallT /\ call[c].attempt \in 1..MaxAttempts /\ call[c].elapsed \in Int
        /\ call[c].pc \in Pcs /\ call[c].polls + 1 \in 0..MaxPolls
    BY <2>1, Numbers DEF CallT
  <2>3. s = Moved(call[c], call[c].pc, call[c].attempt, call[c].elapsed, call[c].polls + 1)
    BY <2>2 DEF CallT, Moved
  <2>4. Becomes(c, s)
    BY <2>1 DEF Becomes
  <2> HIDE DEF s
  <2>5. s \in CallT /\ Like(s, call[c]) /\ s.pc = call[c].pc
    BY <2>2, <2>3, Counted
  <2> QED BY <2>4, <2>5 DEF Rounds
<1> QED BY <1>1, <1>2

-----------------------------------------------------------------------------
(* Steps that submit nothing.                                              *)

\* The intents stay, with what was paid for them, and move forward only.
Advances ==
    /\ intents' \in [Chains -> Seq(Intent)]
    /\ fee' \in Fees
    /\ \A ch \in Chains :
          /\ DOMAIN intents'[ch] = DOMAIN intents[ch]
          /\ \A n \in DOMAIN intents[ch] :
                LET i == intents[ch][n]
                    j == intents'[ch][n]
                IN  /\ j.call = i.call /\ j.fee = i.fee /\ j.escrow = i.escrow
                    /\ i.accepted => j.accepted
                    /\ IsStored(i) => IsStored(j)
                    /\ IsExecuted(i) => IsExecuted(j)

\* What a call has said stays so.
LEMMA GoodAdvances ==
    ASSUME ClientInv, Advances, NEW c \in Calls
    PROVE  CallGood(intents', c, call[c])
<1> DEFINE r == call[c]
<1>1. CallGood(intents, c, r) /\ r \in CallT
  BY DEF ClientInv
<1>2. r.chain \in Chains /\ r.id \in {NoId} \union (Chains \X (Nat \ {0}))
  BY <1>1 DEF CallT, CallIds
<1>3. r.id # NoId => r.id[1] \in Chains
  BY <1>2, IdParts
<1>4. r.pc = "confirm" => \E n \in DOMAIN intents'[r.chain] : intents'[r.chain][n].call = c
  <2>1. r.pc = "confirm" => \E n \in DOMAIN intents[r.chain] : intents[r.chain][n].call = c
    BY <1>1 DEF CallGood
  <2>2. \A n \in DOMAIN intents[r.chain] : /\ n \in DOMAIN intents'[r.chain]
                                           /\ intents'[r.chain][n].call = intents[r.chain][n].call
    BY <1>2 DEF Advances
  <2> QED BY <2>1, <2>2
<1>5. r.id # NoId =>
        LET i == intents[r.id[1]][r.id[2]]
            j == intents'[r.id[1]][r.id[2]]
        IN  /\ r.id[2] \in DOMAIN intents'[r.id[1]] /\ j.call = c
            /\ i.accepted => j.accepted
            /\ IsStored(i) => IsStored(j)
            /\ IsExecuted(i) => IsExecuted(j)
  BY <1>1, <1>3 DEF CallGood, Advances
<1> HIDE DEF r
<1> QED BY <1>1, <1>4, <1>5 DEF CallGood, r

\* A step that changes one call keeps the invariant when what the call says afterwards is so,
\* and its intents know it.
LEMMA OneCall ==
    ASSUME ClientInv, Advances, NEW c \in Calls, NEW s \in CallT, Becomes(c, s),
           CallGood(intents', c, s),
           \A ch \in Chains : \A n \in DOMAIN intents[ch] :
              intents[ch][n].call = c => IntentGood(ch, n, intents[ch][n], s)
    PROVE  ClientInv'
<1>1. call \in [Calls -> CallT] /\ intents \in [Chains -> Seq(Intent)]
  BY DEF ClientInv
<1>2. call' \in [Calls -> CallT] /\ call'[c] = s /\ \A d \in Calls \ {c} : call'[d] = call[d]
  BY <1>1 DEF Becomes
<1>3. \A d \in Calls : CallGood(intents', d, call'[d])
  BY <1>2, GoodAdvances
<1>4. ASSUME NEW ch \in Chains, NEW n \in DOMAIN intents'[ch]
      PROVE  IntentGood(ch, n, intents'[ch][n], call'[intents'[ch][n].call])
  <2>1. n \in DOMAIN intents[ch] /\ intents'[ch][n].call = intents[ch][n].call
        /\ intents'[ch][n].fee = intents[ch][n].fee /\ intents'[ch][n].escrow = intents[ch][n].escrow
    BY DEF Advances
  <2>2. intents[ch][n].call \in Calls
    <3>1. intents[ch] \in Seq(Intent) /\ n \in DOMAIN intents[ch]
      BY <1>1, <2>1
    <3>2. intents[ch][n] \in Intent
      BY <3>1
    <3> QED BY <3>2 DEF Intent
  <2>3. IntentGood(ch, n, intents[ch][n], call'[intents[ch][n].call])
    BY <1>2, <2>1, <2>2 DEF ClientInv
  <2> QED BY <2>1, <2>3 DEF IntentGood
<1>5. SubmitsOnce'
  BY DEF ClientInv, SubmitsOnce, Advances
<1> QED BY <1>2, <1>3, <1>4, <1>5 DEF ClientInv, Advances

\* A step that changes no call.
LEMMA NoCall ==
    ASSUME ClientInv, Advances, UNCHANGED call
    PROVE  ClientInv'
<1>1. \A d \in Calls : CallGood(intents', d, call'[d])
  BY GoodAdvances
<1>2. ASSUME NEW ch \in Chains, NEW n \in DOMAIN intents'[ch]
      PROVE  IntentGood(ch, n, intents'[ch][n], call'[intents'[ch][n].call])
  <2>1. n \in DOMAIN intents[ch] /\ intents'[ch][n].call = intents[ch][n].call
        /\ intents'[ch][n].fee = intents[ch][n].fee /\ intents'[ch][n].escrow = intents[ch][n].escrow
    BY DEF Advances
  <2>2. IntentGood(ch, n, intents[ch][n], call[intents[ch][n].call])
    BY <2>1 DEF ClientInv
  <2> QED BY <2>1, <2>2 DEF IntentGood
<1>3. SubmitsOnce'
  BY DEF ClientInv, SubmitsOnce, Advances
<1> QED BY <1>1, <1>2, <1>3 DEF ClientInv, Advances

\* The intents do not change.
LEMMA StandStill ==
    ASSUME ClientInv, UNCHANGED intents, fee' \in Fees
    PROVE  Advances
  BY DEF ClientInv, Advances

\* A call that has not submitted goes on, or rejects.
LEMMA BeforeStep ==
    ASSUME ClientInv, UNCHANGED <<intents, fee>>, NEW c \in Calls, call[c].pc \in Before,
           NEW s \in CallT, Becomes(c, s), s.pc \in Before \union {"failed"}, s.id = NoId,
           s.progress \in {"none", "encoded", "quoted"}, OnFlow(s),
           s.upper => s.forward = FeeCap /\ s.pc \notin {"encode", "fee"}
    PROVE  ClientInv'
<1>1. Advances
  BY StandStill DEF ClientInv
<1>2. \A ch \in Chains : \A n \in DOMAIN intents[ch] : intents[ch][n].call # c
  BY DEF ClientInv, IntentGood
<1>3. CallGood(intents', c, s)
  BY DEF CallGood, Before
<1> QED BY <1>1, <1>2, <1>3, OneCall

\* The part of CallGood about the intent whose id a call at pc knows.
Knows(i, c, pc, s) ==
    /\ i.call = c
    /\ pc = "read" => IsExecuted(i)
    /\ s.progress \in {"uploaded", "proven"} => i.accepted \/ IsStored(i)
    /\ s.progress = "proven" => IsExecuted(i) /\ s.epoch = 1

\* The intent of the id a call knows.
LEMMA KnownIntent ==
    ASSUME ClientInv, NEW c \in Calls, call[c].id # NoId
    PROVE  /\ call[c].id \in Chains \X (Nat \ {0})
           /\ call[c].id[1] \in Chains /\ call[c].id[2] \in Nat \ {0}
           /\ Exists(call[c].id) /\ At(call[c].id) \in Intent
           /\ Knows(At(call[c].id), c, call[c].pc, call[c])
<1>1. call[c].id \in Chains \X (Nat \ {0})
  BY DEF ClientInv, CallT, CallIds
<1>2. call[c].id[1] \in Chains /\ call[c].id[2] \in Nat \ {0}
  BY <1>1, IdParts
<1>3. Exists(call[c].id) /\ Knows(At(call[c].id), c, call[c].pc, call[c])
  BY DEF ClientInv, CallGood, Exists, At, Knows
<1>4. intents[call[c].id[1]] \in Seq(Intent)
  BY <1>2 DEF ClientInv
<1>5. At(call[c].id) \in Intent
  BY <1>3, <1>4 DEF Exists, At
<1> QED BY <1>1, <1>2, <1>3, <1>5

\* A call that knows its intent goes on, or rejects.
LEMMA AfterStep ==
    ASSUME ClientInv, Advances, NEW c \in Calls, call[c].id # NoId, NEW s \in CallT, Becomes(c, s),
           s.pc \in {"upload", "await", "read", "done", "failed"},
           s.id = call[c].id, s.chain = call[c].chain, s.priced = call[c].priced,
           s.forward = call[c].forward, s.upper = call[c].upper,
           s.pc = "read" => s.chain = "evm",
           Knows(intents'[call[c].id[1]][call[c].id[2]], c, s.pc, s)
    PROVE  ClientInv'
<1> DEFINE q == call[c]
<1>1. CallGood(intents, c, q)
  BY DEF ClientInv
<1>2. q.id[1] \in Chains /\ Exists(q.id)
  BY KnownIntent
<1>3. q.id[2] \in DOMAIN intents'[q.id[1]]
  BY <1>2 DEF Exists, Advances
<1>4. Knows(intents'[q.id[1]][q.id[2]], c, s.pc, s)
  OBVIOUS
<1>5. OnFlow(s) /\ s.pc \notin Before /\ s.pc # "confirm"
  BY DEF OnFlow, Before
<1>6. s.upper => s.forward = FeeCap /\ s.pc \notin {"encode", "fee"}
  BY <1>1 DEF CallGood
<1> HIDE DEF q
<1>7. CallGood(intents', c, s)
  BY <1>3, <1>4, <1>5, <1>6 DEF CallGood, Knows, q
<1>8. ASSUME NEW ch \in Chains, NEW n \in DOMAIN intents[ch], intents[ch][n].call = c
      PROVE  IntentGood(ch, n, intents[ch][n], s)
  <2>1. IntentGood(ch, n, intents[ch][n], call[c])
    BY <1>8 DEF ClientInv
  <2> QED BY <1>5, <2>1 DEF IntentGood
<1> QED BY <1>7, <1>8, OneCall

-----------------------------------------------------------------------------
(* Before the transaction: every action up to submit.                      *)

\* A call that has not submitted repeats its await, or rejects.
LEMMA BeforeRounds ==
    ASSUME ClientInv, UNCHANGED <<intents, fee>>, NEW c \in Calls, call[c].pc \in Before, Rounds(c)
    PROVE  ClientInv'
<1>1. PICK s \in CallT : Becomes(c, s) /\ Like(s, call[c]) /\ s.pc \in {call[c].pc, "failed"}
  BY DEF Rounds
<1>2. CallGood(intents, c, call[c])
  BY DEF ClientInv
<1>3. /\ s.id = NoId /\ s.progress \in {"none", "encoded", "quoted"}
      /\ s.upper => s.forward = FeeCap /\ s.pc \notin {"encode", "fee"}
  BY <1>1, <1>2 DEF CallGood, Like
<1>4. OnFlow(s)
  BY <1>1, <1>2 DEF CallGood, Like, OnFlow
<1>5. s.pc \in Before \union {"failed"}
  BY <1>1
<1> QED BY <1>1, <1>3, <1>4, <1>5, BeforeStep

\* It goes on to the next await, with r as what it knows.
LEMMA BeforeProceeds ==
    ASSUME ClientInv, UNCHANGED <<intents, fee>>, NEW c \in Calls,
           call[c].pc \in {"encode", "fee", "price", "nonce"}, NEW r \in CallT, Proceed(c, r),
           r.id = NoId, r.progress \in {"none", "encoded", "quoted"},
           r.chain = call[c].chain, r.priced = call[c].priced,
           r.upper => r.forward = FeeCap /\ call[c].pc # "encode"
    PROVE  ClientInv'
<1> DEFINE q == call[c]
<1>1. call \in [Calls -> CallT] /\ q \in CallT /\ OnFlow(q)
  BY DEF ClientInv, CallGood
<1>2. q.chain \in Chains
  BY <1>1 DEF CallT
<1>3. /\ NextPc(c) \in {"fee", "price", "nonce", "send"}
      /\ NextPc(c) = "fee"   => q.pc = "encode" /\ (q.chain = "evm" \/ q.priced)
      /\ NextPc(c) = "price" => q.priced
      /\ NextPc(c) = "nonce" => q.chain = "solana"
  <2>1. CASE q.chain = "evm"
    BY <1>1, <2>1, FlowEvm DEF FlowNext, OnFlow
  <2>2. CASE q.chain = "solana"
    BY <1>1, <2>2, FlowSolana DEF FlowNext, OnFlow
  <2> QED BY <1>2, <2>1, <2>2 DEF Chains
<1>4. PICK pc \in {"fee", "price", "nonce", "send"} : pc = NextPc(c)
  BY <1>3
<1>5. pc \in Pcs
  BY DEF Pcs
<1>6. PICK s \in CallT : Becomes(c, s) /\ Like(s, r) /\ s.pc = pc
  BY <1>1, <1>4, <1>5, ProceedEffect
<1>7. /\ s.id = NoId /\ s.progress \in {"none", "encoded", "quoted"}
      /\ s.pc \in Before \union {"failed"}
  BY <1>6 DEF Like, Before
<1>8. OnFlow(s)
  BY <1>3, <1>4, <1>6 DEF Like, OnFlow
<1>9. s.upper => s.forward = FeeCap /\ s.pc \notin {"encode", "fee"}
  BY <1>3, <1>4, <1>6 DEF Like
<1>10. q.pc \in Before
  BY DEF Before
<1> QED BY <1>6, <1>7, <1>8, <1>9, <1>10, BeforeStep

\* A call that has not submitted rejects.
LEMMA BeforeFails ==
    ASSUME ClientInv, UNCHANGED <<intents, fee>>, NEW c \in Calls, call[c].pc \in Before, Fail(c)
    PROVE  ClientInv'
<1>1. Rounds(c)
  BY FailEffect DEF ClientInv
<1> QED BY <1>1, BeforeRounds

\* store(): a call of any kind starts.
LEMMA StoreStep ==
    ASSUME ClientInv, NEW c \in Calls, NEW ch \in Chains, NEW priced \in BOOLEAN,
           NEW data \in Data, store(c, ch, priced, data)
    PROVE  ClientInv'
<1> DEFINE s == [NewCall EXCEPT !.pc = "encode", !.chain = ch, !.priced = priced, !.data = data]
<1>1. /\ s \in CallT /\ s.pc = "encode" /\ s.id = NoId /\ s.progress = "none" /\ ~s.upper
  <2>1. 1 \in 1..MaxAttempts /\ 0 \in 0..MaxPolls /\ NoFee \in Forwards /\ NoId \in CallIds
    BY Numbers DEF Forwards, CallIds
  <2>2. NewCall \in CallT /\ NewCall.id = NoId /\ NewCall.progress = "none" /\ ~NewCall.upper
    BY <2>1 DEF CallT, NewCall, Pcs, StoreProgress, Chains, Data
  <2> QED BY <2>2 DEF CallT, Pcs
<1>2. Becomes(c, s) /\ call[c].pc \in Before /\ UNCHANGED <<intents, fee>>
  BY DEF store, Becomes, Before
<1> HIDE DEF s
<1>3. s.pc \in Before \union {"failed"} /\ OnFlow(s)
  BY <1>1 DEF Before, OnFlow
<1> QED BY <1>1, <1>2, <1>3, BeforeStep

\* encodeIntent() and the relayer's /blob/encode.
LEMMA EncodeStep ==
    ASSUME ClientInv, NEW c \in Calls, encodeIntent(c) \/ relayerComputeBlob(c)
    PROVE  ClientInv'
<1>1. UNCHANGED <<intents, fee>> /\ call[c].pc = "encode" /\ call[c].pc \in Before
  BY DEF encodeIntent, relayerComputeBlob, Before
<1>2. CASE Fail(c)
  BY <1>1, <1>2, BeforeFails
<1>3. CASE Proceed(c, [call[c] EXCEPT !.progress = "encoded"])
  <2> DEFINE q == call[c]
             r == [q EXCEPT !.progress = "encoded"]
  <2>1. q \in CallT /\ CallGood(intents, c, q)
    BY DEF ClientInv
  <2>2. q.id = NoId /\ ~q.upper
    BY <1>1, <2>1 DEF CallGood, Before, CallT
  <2>3. r \in CallT /\ r.id = NoId /\ r.progress = "encoded" /\ r.chain = q.chain
        /\ r.priced = q.priced /\ ~r.upper
    BY <2>1, <2>2 DEF CallT, StoreProgress
  <2>4. Proceed(c, r)
    BY <1>3
  <2> HIDE DEF r
  <2> QED BY <1>1, <2>3, <2>4, BeforeProceeds
<1>4. ASSUME NEW retryable, NEW after \in {NoFee} \union RetryAfters, Retry(c, retryable, after)
      PROVE  ClientInv'
  <2>1. Rounds(c)
    BY <1>4, RetryEffect DEF ClientInv
  <2> QED BY <1>1, <2>1, BeforeRounds
<1>5. CASE relayerComputeBlob(c) /\ ~Fail(c)
  <2>1. CASE \E status \in {413, 429, 500} : \E after \in readRetryAfterMs(status) :
                Retry(c, RelayerRequestError(status), after)
    <3>0. PICK status \in {413, 429, 500} : \E after \in readRetryAfterMs(status) :
             Retry(c, RelayerRequestError(status), after)
      BY <2>1, Zenon
    <3>1. PICK after \in readRetryAfterMs(status) :
             Retry(c, RelayerRequestError(status), after)
      BY <3>0, Zenon
    <3>2. after \in {NoFee} \union RetryAfters
      BY DEF readRetryAfterMs
    <3> QED BY <1>4, <3>1, <3>2, Zenon
  <2>2. CASE \E error \in RpcErrors : Retry(c, isTransientRpcError(error), NoFee)
    <3>1. NoFee \in {NoFee} \union RetryAfters
      OBVIOUS
    <3> QED BY <1>4, <2>2, <3>1, Zenon
  <2> QED BY <1>5, <2>1, <2>2 DEF relayerComputeBlob
<1> QED BY <1>2, <1>3, <1>4, <1>5 DEF encodeIntent

\* quote(), priceQuote() and fetchQuote(): the fee and the price a call goes by.
LEMMA QuoteStep ==
    ASSUME ClientInv, NEW c \in Calls, quote(c) \/ priceQuote(c) \/ fetchQuote(c)
    PROVE  ClientInv'
<1> DEFINE q == call[c]
<1>1. /\ UNCHANGED <<intents, fee>> /\ q.pc \in {"fee", "price"}
      /\ q.pc \in Before /\ q.pc \in {"encode", "fee", "price", "nonce"} /\ q.pc # "encode"
  BY DEF quote, priceQuote, fetchQuote, Before
<1>2. q \in CallT /\ CallGood(intents, c, q) /\ fee \in Fees
  BY DEF ClientInv
<1>3. q.id = NoId /\ q.progress \in {"none", "encoded", "quoted"}
  BY <1>1, <1>2 DEF CallGood
<1>4. q.pc = "fee" => ~q.upper
  BY <1>2 DEF CallGood, CallT
<1>5. CASE Fail(c)
  BY <1>1, <1>5, BeforeFails
<1>6. CASE quote(c) /\ ~Fail(c)
  <2> DEFINE r == [q EXCEPT !.forward = fee]
  <2>1. r \in CallT /\ r.id = q.id /\ r.progress = q.progress /\ r.chain = q.chain
        /\ r.priced = q.priced /\ r.upper = q.upper
    BY <1>2 DEF CallT, Forwards
  <2>2. Proceed(c, r) /\ ~r.upper
    BY <1>4, <1>6, <2>1 DEF quote
  <2> HIDE DEF r
  <2> QED BY <1>1, <1>3, <2>1, <2>2, BeforeProceeds
<1>7. CASE priceQuote(c) /\ ~Fail(c)
  <2>1. PICK live \in resolveSolanaLzFee :
           Proceed(c, [q EXCEPT !.upper = (live = NoFee),
                                !.forward = IF live = NoFee THEN FeeCap ELSE live])
    BY <1>7, Zenon DEF priceQuote
  <2> DEFINE r == [q EXCEPT !.upper = (live = NoFee),
                            !.forward = IF live = NoFee THEN FeeCap ELSE live]
  <2>2. live \in Fees \union {NoFee}
    BY <1>2 DEF resolveSolanaLzFee, quoteSolanaLzFee, fetchSolanaLzFee
  <2>3. r \in CallT /\ r.id = q.id /\ r.progress = q.progress /\ r.chain = q.chain
        /\ r.priced = q.priced /\ (r.upper => r.forward = FeeCap)
    BY <1>2, <2>2 DEF CallT, Forwards
  <2>4. Proceed(c, r)
    BY <2>1
  <2> HIDE DEF r
  <2> QED BY <1>1, <1>3, <2>3, <2>4, BeforeProceeds
<1>8. CASE fetchQuote(c) /\ ~Fail(c)
  <2> DEFINE r == [q EXCEPT !.progress = "quoted"]
  <2>1. r \in CallT /\ r.id = q.id /\ r.progress = "quoted" /\ r.chain = q.chain
        /\ r.priced = q.priced /\ r.upper = q.upper /\ r.forward = q.forward
    BY <1>2 DEF CallT, StoreProgress
  <2>2. Proceed(c, r)
    BY <1>8 DEF fetchQuote
  <2>3. q.upper => q.forward = FeeCap
    BY <1>2 DEF CallGood
  <2> HIDE DEF r
  <2> QED BY <1>1, <1>3, <2>1, <2>2, <2>3, BeforeProceeds
<1> QED BY <1>5, <1>6, <1>7, <1>8

\* currentNonce(): the number of the wallet's intents on Solana.
LEMMA NonceStep ==
    ASSUME ClientInv, NEW c \in Calls, currentNonce(c)
    PROVE  ClientInv'
<1> DEFINE q == call[c]
           r == [q EXCEPT !.nonce = Len(intents["solana"])]
<1>1. UNCHANGED <<intents, fee>> /\ q.pc = "nonce" /\ q.pc \in Before
  BY DEF currentNonce, Before
<1>2. q \in CallT /\ CallGood(intents, c, q) /\ intents["solana"] \in Seq(Intent)
  BY DEF ClientInv, Chains
<1>3. CASE Fail(c)
  BY <1>1, <1>3, BeforeFails
<1>4. CASE Proceed(c, r)
  <2>1. Len(intents["solana"]) \in Nat
    BY <1>2
  <2>2. r \in CallT /\ r.id = q.id /\ r.progress = q.progress /\ r.chain = q.chain
        /\ r.priced = q.priced /\ r.upper = q.upper /\ r.forward = q.forward
    BY <1>2, <2>1 DEF CallT
  <2>3. q.id = NoId /\ q.progress \in {"none", "encoded", "quoted"} /\ (q.upper => q.forward = FeeCap)
    BY <1>1, <1>2 DEF CallGood
  <2> HIDE DEF r
  <2> QED BY <1>1, <1>4, <2>2, <2>3, BeforeProceeds
<1> QED BY <1>3, <1>4 DEF currentNonce

\* A transaction that does not land.
LEMMA SubmitFailsStep ==
    ASSUME ClientInv, NEW c \in Calls, SubmitFails(c)
    PROVE  ClientInv'
  BY BeforeFails DEF SubmitFails, Before

-----------------------------------------------------------------------------
(* The transaction lands.                                                  *)

\* What a new intent is charged agrees with its call's quote.
Charged(ch, i, r) ==
    r.priced => IF ch = "evm" THEN i.escrow + i.fee = Escrow + r.forward
                ELSE /\ i.escrow = Escrow
                     /\ r.upper => i.fee <= r.forward
                     /\ i.fee <= Max2(r.forward, FeeCap)

LEMMA Appended ==
    ASSUME NEW S, NEW t \in Seq(S), NEW e \in S
    PROVE  /\ Len(t) + 1 \in Nat \ {0} /\ Len(t) + 1 \notin DOMAIN t
           /\ DOMAIN Append(t, e) = DOMAIN t \union {Len(t) + 1}
           /\ Append(t, e)[Len(t) + 1] = e
           /\ \A m \in DOMAIN t : Append(t, e)[m] = t[m]
<1>1. DOMAIN t = 1..Len(t) /\ Len(t) \in Nat
  OBVIOUS
<1>2. DOMAIN Append(t, e) = 1..(Len(t) + 1)
  OBVIOUS
<1>3. Append(t, e)[Len(t) + 1] = e /\ \A m \in 1..Len(t) : Append(t, e)[m] = t[m]
  OBVIOUS
<1> QED BY <1>1, <1>2, <1>3

LEMMA LandStep ==
    ASSUME ClientInv, NEW c \in Calls, call[c].pc = "send", NEW escrow \in Nat, Land(c, escrow),
           Charged(call[c].chain, NewIntent(c, escrow), call[c]),
           call[c].chain = "solana" => call[c].nonce = Len(intents["solana"])
    PROVE  ClientInv'
<1> DEFINE q  == call[c]
           ch == q.chain
           i  == NewIntent(c, escrow)
           n  == Len(intents[ch]) + 1
<1>1. /\ call \in [Calls -> CallT] /\ q \in CallT /\ CallGood(intents, c, q)
      /\ intents \in [Chains -> Seq(Intent)] /\ fee \in Fees
  BY DEF ClientInv
<1>2. ch \in Chains /\ intents[ch] \in Seq(Intent)
  BY <1>1 DEF CallT
<1>3. i \in Intent /\ i.call = c
  BY <1>1 DEF NewIntent, Intent, Stages
<1>4. intents' = [intents EXCEPT ![ch] = Append(@, i)] /\ fee' = fee
  BY DEF Land
<1> HIDE DEF i
<1>5. /\ intents' \in [Chains -> Seq(Intent)]
      /\ intents'[ch] = Append(intents[ch], i)
      /\ \A d \in Chains \ {ch} : intents'[d] = intents[d]
  BY <1>1, <1>2, <1>3, <1>4
<1>6. /\ n \in Nat \ {0} /\ n \notin DOMAIN intents[ch]
      /\ DOMAIN intents'[ch] = DOMAIN intents[ch] \union {n}
      /\ intents'[ch][n] = i
      /\ \A m \in DOMAIN intents[ch] : intents'[ch][m] = intents[ch][m]
  BY <1>2, <1>3, <1>5, Appended
<1>7. \A d \in Chains : \A m \in DOMAIN intents'[d] :
         \/ m \in DOMAIN intents[d] /\ intents'[d][m] = intents[d][m]
         \/ d = ch /\ m = n
  BY <1>5, <1>6
<1>8. \A d \in Chains : \A m \in DOMAIN intents[d] :
         m \in DOMAIN intents'[d] /\ intents'[d][m] = intents[d][m]
  BY <1>5, <1>6
<1> HIDE DEF n
<1>9. NextPc(c) = "confirm"
  <2>1. CASE q.chain = "evm"
    BY <1>1, <2>1, FlowEvm DEF FlowNext, CallGood
  <2>2. CASE q.chain = "solana"
    BY <1>1, <2>2, FlowSolana DEF FlowNext, CallGood
  <2> QED BY <1>2, <2>1, <2>2 DEF Chains
<1>10. PICK s \in CallT : Becomes(c, s) /\ Like(s, q) /\ s.pc = "confirm"
  <2>1. Proceed(c, q) /\ "confirm" \in Pcs
    BY DEF Land, Pcs
  <2> QED BY <1>1, <1>9, <2>1, ProceedEffect
<1>11. /\ call' \in [Calls -> CallT] /\ call'[c] = s
       /\ \A d \in Calls \ {c} : call'[d] = call[d]
  BY <1>1, <1>10 DEF Becomes
<1>12. q.id = NoId /\ s.id = NoId /\ s.chain = ch
  BY <1>1, <1>10 DEF CallGood, Before, Like
<1>13. \A d \in Chains : \A m \in DOMAIN intents[d] : intents[d][m].call # c
  BY DEF ClientInv, IntentGood, Before
<1>14. CallGood(intents', c, s)
  <2>1. \E m \in DOMAIN intents'[s.chain] : intents'[s.chain][m].call = c
    BY <1>3, <1>6, <1>12
  <2>2. OnFlow(s) /\ s.pc \notin Before
    BY <1>10 DEF OnFlow, Before
  <2>3. /\ s.upper => s.forward = FeeCap
        /\ s.progress \in {"none", "encoded", "quoted"}
    BY <1>1, <1>10, <1>12 DEF CallGood, Like
  <2> QED BY <1>10, <1>12, <2>1, <2>2, <2>3 DEF CallGood
<1>15. ASSUME NEW d \in Calls \ {c} PROVE CallGood(intents', d, call[d])
  <2> DEFINE r == call[d]
  <2>1. CallGood(intents, d, r) /\ r \in CallT
    BY <1>1 DEF ClientInv
  <2>2. r.chain \in Chains /\ r.id \in {NoId} \union (Chains \X (Nat \ {0}))
    BY <2>1 DEF CallT, CallIds
  <2>3. r.id # NoId => r.id[1] \in Chains
    BY <2>2, IdParts
  <2>4. r.pc = "confirm" => \E m \in DOMAIN intents'[r.chain] : intents'[r.chain][m].call = d
    BY <1>8, <2>1, <2>2 DEF CallGood
  <2>5. r.id # NoId => /\ r.id[2] \in DOMAIN intents'[r.id[1]]
                       /\ intents'[r.id[1]][r.id[2]] = intents[r.id[1]][r.id[2]]
    BY <1>8, <2>1, <2>3 DEF CallGood
  <2> HIDE DEF r
  <2> QED BY <2>1, <2>4, <2>5 DEF CallGood, r
<1>16. IntentGood(ch, n, i, s)
  <2>1. ch = "solana" => s.nonce + 1 = n
    BY <1>10 DEF Like, n
  <2>2. Charged(ch, i, s)
    BY <1>10 DEF Charged, Like, i
  <2>3. s.pc \notin Before
    BY <1>10 DEF Before
  <2> QED BY <1>10, <1>12, <2>1, <2>2, <2>3 DEF IntentGood, Charged
<1>17. ASSUME NEW d \in Chains, NEW m \in DOMAIN intents'[d]
       PROVE  IntentGood(d, m, intents'[d][m], call'[intents'[d][m].call])
  <2>1. CASE m \in DOMAIN intents[d] /\ intents'[d][m] = intents[d][m]
    <3>1. intents[d][m] \in Intent /\ intents[d][m].call # c
      BY <1>1, <1>13, <2>1
    <3>2. intents[d][m].call \in Calls \ {c}
      BY <3>1 DEF Intent
    <3> QED BY <1>11, <2>1, <3>2 DEF ClientInv
  <2>2. CASE d = ch /\ m = n
    BY <1>3, <1>6, <1>11, <1>16, <2>2
  <2> QED BY <1>7, <2>1, <2>2
<1>18. SubmitsOnce'
  <2> SUFFICES ASSUME NEW d \in Chains, NEW m \in DOMAIN intents'[d], NEW k \in DOMAIN intents'[d],
                      intents'[d][m].call = intents'[d][k].call
               PROVE  m = k
    BY DEF SubmitsOnce
  <2>1. CASE m \in DOMAIN intents[d] /\ k \in DOMAIN intents[d]
    BY <1>8, <2>1 DEF ClientInv, SubmitsOnce
  <2>2. CASE m \notin DOMAIN intents[d] /\ k \in DOMAIN intents[d]
    <3>1. intents'[d][m].call = c /\ intents'[d][k].call # c
      BY <1>3, <1>6, <1>7, <1>8, <1>13, <2>2
    <3> QED BY <3>1
  <2>3. CASE m \in DOMAIN intents[d] /\ k \notin DOMAIN intents[d]
    <3>1. intents'[d][k].call = c /\ intents'[d][m].call # c
      BY <1>3, <1>6, <1>7, <1>8, <1>13, <2>3
    <3> QED BY <3>1
  <2>4. CASE m \notin DOMAIN intents[d] /\ k \notin DOMAIN intents[d]
    BY <1>7, <2>4
  <2> QED BY <2>1, <2>2, <2>3, <2>4
<1>19. \A d \in Calls : CallGood(intents', d, call'[d])
  BY <1>11, <1>14, <1>15
<1> QED BY <1>1, <1>4, <1>5, <1>11, <1>17, <1>18, <1>19 DEF ClientInv

\* submit() on EVM and submitIntent() on Solana.
LEMMA SubmitStep ==
    ASSUME ClientInv, NEW c \in Calls, submit(c) \/ submitIntent(c)
    PROVE  ClientInv'
<1> DEFINE q == call[c]
<1>1. /\ q \in CallT /\ CallGood(intents, c, q) /\ fee \in Nat \ {0}
  BY Numbers DEF ClientInv
<1>2. q.forward \in Int /\ q.priced \in BOOLEAN /\ q.upper \in BOOLEAN
      /\ (q.upper => q.forward = FeeCap)
  <2>1. q.forward \in Forwards /\ q.priced \in BOOLEAN /\ q.upper \in BOOLEAN
    BY <1>1 DEF CallT
  <2>2. q.upper => q.forward = FeeCap
    BY <1>1 DEF CallGood
  <2>3. Forwards \subseteq Int
    BY Numbers DEF Forwards, NoFee
  <2> QED BY <2>1, <2>2, <2>3
<1>3. CASE submit(c)
  <2> DEFINE escrow == submitPaid(c) - fee
  <2>1. q.chain = "evm" /\ q.pc = "send" /\ Land(c, escrow) /\ submitPaid(c) >= fee
    BY <1>3 DEF submit, EvmLands
  <2>2. escrow \in Nat /\ (q.priced => escrow + fee = Escrow + q.forward)
    BY <1>1, <1>2, <2>1, Numbers DEF submitPaid, QuotedEscrow
  <2> HIDE DEF escrow
  <2>3. Charged(q.chain, NewIntent(c, escrow), q)
    BY <2>1, <2>2 DEF Charged, NewIntent
  <2> QED BY <2>1, <2>2, <2>3, LandStep
<1>4. CASE submitIntent(c)
  <2> DEFINE escrow == QuotedEscrow(c)
  <2>1. /\ q.chain = "solana" /\ q.pc = "send" /\ Land(c, escrow) /\ nativeFee(c) >= fee
        /\ q.nonce = Len(intents["solana"])
    BY <1>4 DEF submitIntent, SolanaLands, AccountMatches
  <2>2. escrow \in Nat /\ (q.priced => escrow = Escrow)
    BY Numbers DEF QuotedEscrow
  <2>3. q.priced => fee <= Max2(q.forward, FeeCap)
    BY <1>1, <1>2, <2>1, Numbers DEF nativeFee, Max2
  <2>4. q.priced /\ q.upper => fee <= q.forward
    BY <1>1, <1>2, <2>3, Numbers DEF Max2
  <2> HIDE DEF escrow
  <2>5. Charged(q.chain, NewIntent(c, escrow), q)
    BY <2>1, <2>2, <2>3, <2>4 DEF Charged, NewIntent
  <2> QED BY <2>1, <2>2, <2>5, LandStep
<1> QED BY <1>3, <1>4

-----------------------------------------------------------------------------
(* The confirmation.                                                       *)

\* The call reports the id of the intent it submitted.
LEMMA ConfirmedStep ==
    ASSUME ClientInv, NEW c \in Calls, call[c].pc = "confirm",
           NEW n \in DOMAIN intents[call[c].chain], intents[call[c].chain][n].call = c,
           Confirmed(c, <<call[c].chain, n>>)
    PROVE  ClientInv'
<1> DEFINE q  == call[c]
           ch == q.chain
           id == <<ch, n>>
           r  == [q EXCEPT !.id = id, !.nonce = 0, !.progress = "submitted"]
<1>1. /\ call \in [Calls -> CallT] /\ q \in CallT /\ CallGood(intents, c, q)
      /\ intents \in [Chains -> Seq(Intent)]
  BY DEF ClientInv
<1>2. ch \in Chains /\ n \in Nat \ {0}
  <2>1. ch \in Chains
    BY <1>1 DEF CallT
  <2>2. intents[ch] \in Seq(Intent)
    BY <1>1, <2>1
  <2> QED BY <2>1, <2>2
<1>3. id \in CallIds /\ id # NoId /\ id[1] = ch /\ id[2] = n
  BY <1>2, ChainIds DEF CallIds
<1> HIDE DEF id
<1>4. /\ r \in CallT /\ r.id = id /\ r.progress = "submitted" /\ r.chain = ch
      /\ r.priced = q.priced /\ r.forward = q.forward /\ r.upper = q.upper
  BY <1>1, <1>3 DEF CallT, StoreProgress
<1>5. Proceed(c, r) /\ UNCHANGED <<intents, fee>>
  BY DEF Confirmed, id
<1> HIDE DEF r
<1>6. NextPc(c) = "upload"
  <2>1. CASE q.chain = "evm"
    BY <1>1, <2>1, FlowEvm DEF FlowNext, CallGood
  <2>2. CASE q.chain = "solana"
    BY <1>1, <2>2, FlowSolana DEF FlowNext, CallGood
  <2> QED BY <1>2, <2>1, <2>2 DEF Chains
<1>7. PICK s \in CallT : Becomes(c, s) /\ Like(s, r) /\ s.pc = "upload"
  <2>1. "upload" \in Pcs
    BY DEF Pcs
  <2> QED BY <1>1, <1>4, <1>5, <1>6, <2>1, ProceedEffect
<1>8. /\ s.id = id /\ s.progress = "submitted" /\ s.chain = ch /\ s.priced = q.priced
      /\ s.forward = q.forward /\ s.upper = q.upper
  BY <1>4, <1>7 DEF Like
<1>9. Advances
  BY <1>5, StandStill DEF ClientInv
<1>10. CallGood(intents', c, s)
  <2>1. OnFlow(s) /\ s.pc \notin Before
    BY <1>7 DEF OnFlow, Before
  <2>2. s.upper => s.forward = FeeCap
    BY <1>1, <1>8 DEF CallGood
  <2> QED BY <1>3, <1>5, <1>7, <1>8, <2>1, <2>2 DEF CallGood
<1>11. ASSUME NEW d \in Chains, NEW m \in DOMAIN intents[d], intents[d][m].call = c
       PROVE  IntentGood(d, m, intents[d][m], s)
  <2>1. IntentGood(d, m, intents[d][m], q)
    BY <1>11 DEF ClientInv
  <2>2. d = ch
    BY <2>1 DEF IntentGood
  <2>3. m = n
    BY <1>11, <2>2 DEF ClientInv, SubmitsOnce
  <2>4. s.id = <<d, m>> /\ s.pc \notin Before
    BY <1>7, <1>8, <2>2, <2>3 DEF id, Before
  <2> QED BY <1>8, <2>1, <2>4 DEF IntentGood
<1> QED BY <1>7, <1>9, <1>10, <1>11, OneCall

\* submitWithValue() reads the id from the receipt; signAndSend() derived it before.
LEMMA ConfirmStep ==
    ASSUME ClientInv, NEW c \in Calls, submitWithValue(c) \/ signAndSend(c)
    PROVE  ClientInv'
<1> DEFINE q == call[c]
<1>1. q.pc = "confirm" /\ CallGood(intents, c, q) /\ q \in CallT
  BY DEF ClientInv, submitWithValue, signAndSend
<1>2. PICK n \in DOMAIN intents[q.chain] : intents[q.chain][n].call = c
  BY <1>1 DEF CallGood
<1>3. CASE submitWithValue(c)
  <2> DEFINE m == CHOOSE k \in DOMAIN intents["evm"] : intents["evm"][k].call = c
  <2>1. q.chain = "evm" /\ Confirmed(c, <<"evm", m>>)
    BY <1>3 DEF submitWithValue, extractIntentId
  <2>2. m \in DOMAIN intents["evm"] /\ intents["evm"][m].call = c
    BY <1>2, <2>1
  <2> HIDE DEF m
  <2> QED BY <1>1, <2>1, <2>2, ConfirmedStep
<1>4. CASE signAndSend(c)
  <2>1. q.chain = "solana" /\ Confirmed(c, <<"solana", q.nonce + 1>>)
    BY <1>4 DEF signAndSend
  <2>2. q.id = NoId
    BY <1>1 DEF CallGood
  <2>3. IntentGood("solana", n, intents["solana"][n], q)
    BY <1>2, <2>1 DEF ClientInv, Chains
  <2>4. "solana" \in Chains /\ n \in Nat \ {0}
    <3>1. "solana" \in Chains
      BY DEF Chains
    <3>2. intents["solana"] \in Seq(Intent)
      BY <3>1 DEF ClientInv
    <3> QED BY <1>2, <2>1, <3>1, <3>2
  <2>5. n = q.nonce + 1
    BY <1>1, <2>2, <2>3, <2>4, ChainIds DEF IntentGood
  <2> QED BY <1>1, <1>2, <2>1, <2>5, ConfirmedStep
<1> QED BY <1>3, <1>4

\* The answer to a transaction that landed is lost.
LEMMA ConfirmLostStep ==
    ASSUME ClientInv, NEW c \in Calls, ConfirmLost(c)
    PROVE  ClientInv'
<1> DEFINE q == call[c]
           s == [q EXCEPT !.pc = "failed", !.lostAnswer = TRUE]
<1>1. q.pc = "confirm" /\ CallGood(intents, c, q) /\ q \in CallT /\ UNCHANGED <<intents, fee>>
  BY DEF ClientInv, ConfirmLost
<1>2. /\ s \in CallT /\ s.pc = "failed" /\ s.lostAnswer /\ s.chain = q.chain /\ s.id = q.id
      /\ s.priced = q.priced /\ s.forward = q.forward /\ s.upper = q.upper
      /\ s.progress = q.progress
  BY <1>1 DEF CallT, Pcs
<1>3. Becomes(c, s)
  BY DEF ConfirmLost, Becomes
<1> HIDE DEF s
<1>4. Advances
  BY <1>1, StandStill DEF ClientInv
<1>5. q.id = NoId
  BY <1>1 DEF CallGood
<1>6. CallGood(intents', c, s)
  <2>1. OnFlow(s) /\ s.pc \notin Before
    BY <1>2 DEF OnFlow, Before
  <2>2. /\ s.upper => s.forward = FeeCap
        /\ s.progress \in {"none", "encoded", "quoted"}
    BY <1>1, <1>2, <1>5 DEF CallGood
  <2> QED BY <1>2, <1>5, <2>1, <2>2 DEF CallGood
<1>7. ASSUME NEW d \in Chains, NEW m \in DOMAIN intents[d], intents[d][m].call = c
      PROVE  IntentGood(d, m, intents[d][m], s)
  <2>1. IntentGood(d, m, intents[d][m], q)
    BY <1>7 DEF ClientInv
  <2>2. s.pc \notin Before
    BY <1>2 DEF Before
  <2> QED BY <1>2, <1>5, <2>1, <2>2 DEF IntentGood
<1> QED BY <1>2, <1>3, <1>4, <1>6, <1>7, OneCall

-----------------------------------------------------------------------------
(* After the transaction: upload, proof, and the application.              *)

\* A call whose id is reported repeats its await, or rejects.
LEMMA AfterRounds ==
    ASSUME ClientInv, Advances, NEW c \in Calls, call[c].pc \in {"upload", "await", "read"},
           Rounds(c)
    PROVE  ClientInv'
<1> DEFINE q == call[c]
<1>1. CallGood(intents, c, q)
  BY DEF ClientInv
<1>2. q.id # NoId
  BY <1>1 DEF CallGood
<1>3. PICK s \in CallT : Becomes(c, s) /\ Like(s, q) /\ s.pc \in {q.pc, "failed"}
  BY DEF Rounds
<1>4. s.pc = "read" => s.chain = "evm"
  BY <1>1, <1>3 DEF CallGood, OnFlow, Like
<1>5. Knows(intents'[q.id[1]][q.id[2]], c, s.pc, s)
  <2>1. q.id[1] \in Chains /\ Exists(q.id) /\ Knows(At(q.id), c, q.pc, q)
    BY <1>2, KnownIntent
  <2> QED BY <1>3, <2>1 DEF Knows, Like, Advances, Exists, At
<1>6. /\ s.id = q.id /\ s.chain = q.chain /\ s.priced = q.priced /\ s.forward = q.forward
      /\ s.upper = q.upper
  BY <1>3 DEF Like
<1>7. s.pc \in {"upload", "await", "read", "done", "failed"}
  BY <1>3
<1> QED BY <1>2, <1>3, <1>4, <1>5, <1>6, <1>7, AfterStep

\* It goes on to the next await.
LEMMA AfterProceeds ==
    ASSUME ClientInv, Advances, NEW c \in Calls, call[c].id # NoId, NEW r \in CallT, Proceed(c, r),
           NEW pc \in {"await", "read", "done"}, NextPc(c) = pc,
           pc = "read" => call[c].chain = "evm",
           r.id = call[c].id, r.chain = call[c].chain, r.priced = call[c].priced,
           r.forward = call[c].forward, r.upper = call[c].upper,
           Knows(intents'[call[c].id[1]][call[c].id[2]], c, pc, r)
    PROVE  ClientInv'
<1>1. pc \in Pcs
  BY DEF Pcs
<1>2. PICK s \in CallT : Becomes(c, s) /\ Like(s, r) /\ s.pc = pc
  BY <1>1, ProceedEffect DEF ClientInv
<1>3. Knows(intents'[call[c].id[1]][call[c].id[2]], c, s.pc, s)
  BY <1>2 DEF Knows, Like
<1>4. /\ s.id = call[c].id /\ s.chain = call[c].chain /\ s.priced = call[c].priced
      /\ s.forward = call[c].forward /\ s.upper = call[c].upper
      /\ s.pc \in {"upload", "await", "read", "done", "failed"}
      /\ s.pc = "read" => s.chain = "evm"
  BY <1>2 DEF Like
<1> QED BY <1>2, <1>3, <1>4, AfterStep

\* One intent moves forward.
LEMMA SetAdvances ==
    ASSUME ClientInv, NEW id \in Chains \X (Nat \ {0}), Exists(id), NEW j \in Intent, Set(id, j),
           fee' = fee, j.call = At(id).call, j.fee = At(id).fee, j.escrow = At(id).escrow,
           At(id).accepted => j.accepted, IsStored(At(id)) => IsStored(j),
           IsExecuted(At(id)) => IsExecuted(j)
    PROVE  Advances /\ intents'[id[1]][id[2]] = j
<1> DEFINE ch == id[1]
           n  == id[2]
<1>1. ch \in Chains /\ n \in DOMAIN intents[ch] /\ intents \in [Chains -> Seq(Intent)] /\ fee \in Fees
  BY IdParts DEF ClientInv, Exists
<1>2. intents' = [intents EXCEPT ![ch] = [intents[ch] EXCEPT ![n] = j]]
  BY DEF Set
<1>3. intents[ch] \in Seq(Intent)
  BY <1>1
<1> DEFINE t == [intents[ch] EXCEPT ![n] = j]
<1>4. t \in Seq(Intent) /\ DOMAIN t = DOMAIN intents[ch] /\ t[n] = j
      /\ \A m \in DOMAIN intents[ch] \ {n} : t[m] = intents[ch][m]
  BY <1>1, <1>3
<1> HIDE DEF t
<1>5. /\ intents' \in [Chains -> Seq(Intent)] /\ intents'[ch] = t
      /\ \A d \in Chains \ {ch} : intents'[d] = intents[d]
  BY <1>1, <1>2, <1>4 DEF t
<1>6. \A d \in Chains : DOMAIN intents'[d] = DOMAIN intents[d]
  BY <1>4, <1>5
<1>7. ASSUME NEW d \in Chains, NEW m \in DOMAIN intents[d]
      PROVE  \/ intents'[d][m] = intents[d][m]
             \/ d = ch /\ m = n /\ intents'[d][m] = j
  BY <1>4, <1>5
<1>8. At(id) = intents[ch][n] /\ intents'[ch][n] = j
  BY <1>4, <1>5 DEF At
<1> HIDE DEF ch, n
<1>9. ASSUME NEW d \in Chains, NEW m \in DOMAIN intents[d]
      PROVE  LET i == intents[d][m]
                 k == intents'[d][m]
             IN  /\ k.call = i.call /\ k.fee = i.fee /\ k.escrow = i.escrow
                 /\ i.accepted => k.accepted
                 /\ IsStored(i) => IsStored(k)
                 /\ IsExecuted(i) => IsExecuted(k)
  <2>1. CASE intents'[d][m] = intents[d][m]
    BY <2>1
  <2>2. CASE d = ch /\ m = n /\ intents'[d][m] = j
    BY <1>8, <2>2
  <2> QED BY <1>7, <2>1, <2>2
<1>10. Advances
  BY <1>1, <1>5, <1>6, <1>9 DEF Advances
<1> QED BY <1>8, <1>10 DEF ch, n

\* The relayer takes the bytes, or the answer changes nothing.
LEMMA AcceptAdvances ==
    ASSUME ClientInv, NEW c \in Calls, call[c].id # NoId, NEW status, Accept(c, status), fee' = fee
    PROVE  /\ Advances
           /\ status = 200 => intents'[call[c].id[1]][call[c].id[2]].accepted
<1> DEFINE id == call[c].id
           j  == [At(id) EXCEPT !.accepted = TRUE]
<1>1. id \in Chains \X (Nat \ {0}) /\ Exists(id) /\ At(id) \in Intent
  BY KnownIntent
<1>2. CASE status = 200
  <2>1. Set(id, j)
    BY <1>2 DEF Accept
  <2>2. /\ j \in Intent /\ j.call = At(id).call /\ j.fee = At(id).fee
        /\ j.escrow = At(id).escrow /\ j.accepted /\ j.stage = At(id).stage
    BY <1>1 DEF Intent
  <2>3. (IsStored(At(id)) => IsStored(j)) /\ (IsExecuted(At(id)) => IsExecuted(j))
    BY <2>2 DEF IsStored, IsExecuted
  <2> HIDE DEF j
  <2> QED BY <1>1, <2>1, <2>2, <2>3, SetAdvances
<1>3. CASE status # 200
  BY <1>3, StandStill DEF Accept, ClientInv
<1> QED BY <1>2, <1>3

\* uploadBlob(): a success means that the bytes are with the relayer, or the blob stored.
LEMMA UploadStep ==
    ASSUME ClientInv, NEW c \in Calls, uploadBlob(c)
    PROVE  ClientInv'
<1> DEFINE q == call[c]
           status == BlobAnswer(c)
<1>1. /\ q.pc = "upload" /\ fee' = fee /\ Accept(c, status)
      /\ call \in [Calls -> CallT] /\ q \in CallT /\ CallGood(intents, c, q)
  BY DEF ClientInv, uploadBlob
<1>2. q.id # NoId
  BY <1>1 DEF CallGood
<1>3. status = 409 => IsStored(At(q.id))
  BY DEF BlobAnswer
<1>0. IF status = 200 \/ (status = 409 /\ q.attempt >= 2)
      THEN Uploaded(c) ELSE Retry(c, RelayerUploadError(status), NoFee)
  BY Zenon DEF uploadBlob
<1> HIDE DEF status
<1>4. Advances /\ (status = 200 => intents'[q.id[1]][q.id[2]].accepted)
  BY <1>1, <1>2, AcceptAdvances
<1>5. CASE (status = 200 \/ status = 409) /\ Uploaded(c)
  <2> DEFINE r == [q EXCEPT !.progress = "uploaded"]
  <2>1. /\ r \in CallT /\ r.id = q.id /\ r.chain = q.chain /\ r.priced = q.priced
        /\ r.forward = q.forward /\ r.upper = q.upper /\ r.progress = "uploaded"
    BY <1>1 DEF CallT, StoreProgress
  <2>2. Proceed(c, r)
    BY <1>5 DEF Uploaded
  <2> HIDE DEF r
  <2>3. NextPc(c) = "await"
    <3>1. q.chain \in Chains
      BY <1>1 DEF CallT
    <3>2. CASE q.chain = "evm"
      BY <1>1, <3>2, FlowEvm DEF FlowNext, CallGood
    <3>3. CASE q.chain = "solana"
      BY <1>1, <3>3, FlowSolana DEF FlowNext, CallGood
    <3> QED BY <3>1, <3>2, <3>3 DEF Chains
  <2>4. Knows(intents'[q.id[1]][q.id[2]], c, "await", r)
    <3>1. q.id[1] \in Chains /\ Exists(q.id) /\ Knows(At(q.id), c, q.pc, q)
      BY <1>2, KnownIntent
    <3> DEFINE i == At(q.id)
               j == intents'[q.id[1]][q.id[2]]
    <3>2. /\ j.call = i.call /\ (i.accepted => j.accepted)
          /\ (IsStored(i) => IsStored(j)) /\ (status = 200 => j.accepted)
      BY <1>4, <3>1 DEF Advances, Exists, At
    <3>3. j.accepted \/ IsStored(j)
      BY <1>3, <1>5, <3>2
    <3>4. j.call = c
      BY <3>1, <3>2 DEF Knows
    <3>5. "await" # "read" /\ r.progress # "proven"
      BY <2>1
    <3>6. Knows(j, c, "await", r)
      <4> HIDE DEF j
      <4> QED BY <3>3, <3>4, <3>5, Zenon DEF Knows
    <3> QED BY <3>6
  <2> QED BY <1>2, <1>4, <2>1, <2>2, <2>3, <2>4, AfterProceeds
<1>6. CASE Retry(c, RelayerUploadError(status), NoFee)
  <2>1. NoFee \in {NoFee} \union RetryAfters
    OBVIOUS
  <2>2. Rounds(c)
    BY <1>1, <1>6, <2>1, RetryEffect, Zenon
  <2> QED BY <1>1, <1>4, <2>2, AfterRounds
<1> QED BY <1>0, <1>5, <1>6, Zenon

\* An attempt that is not answered.
LEMMA UploadFailsStep ==
    ASSUME ClientInv, NEW c \in Calls, UploadFails(c)
    PROVE  ClientInv'
<1> DEFINE q == call[c]
<1>1. /\ q.pc = "upload" /\ q.pc \in {"upload", "await", "read"} /\ fee' = fee
      /\ call \in [Calls -> CallT] /\ CallGood(intents, c, q)
  BY DEF ClientInv, UploadFails
<1>2. q.id # NoId
  BY <1>1 DEF CallGood
<1>3. NoFee \in {NoFee} \union RetryAfters
  OBVIOUS
<1>4. CASE UNCHANGED intents /\
           \E status \in {429, 500, 503} : \E after \in readRetryAfterMs(status) :
              Retry(c, RelayerUploadError(status), after)
  <2>1. Advances
    BY <1>1, <1>4, StandStill DEF ClientInv
  <2>2. PICK status \in {429, 500, 503} : \E after \in readRetryAfterMs(status) :
           Retry(c, RelayerUploadError(status), after)
    BY <1>4, Zenon
  <2>3. PICK after \in readRetryAfterMs(status) : Retry(c, RelayerUploadError(status), after)
    BY <2>2, Zenon
  <2>4. after \in {NoFee} \union RetryAfters
    BY DEF readRetryAfterMs
  <2>5. Rounds(c)
    BY <1>1, <2>3, <2>4, RetryEffect, Zenon
  <2> QED BY <1>1, <2>1, <2>5, AfterRounds
<1>5. CASE \E error \in RpcErrors, status \in {0, BlobAnswer(c)} :
              Retry(c, isTransientRpcError(error), NoFee) /\ Accept(c, status)
  <2>1. PICK error \in RpcErrors, status \in {0, BlobAnswer(c)} :
              Retry(c, isTransientRpcError(error), NoFee) /\ Accept(c, status)
    BY <1>5, Zenon
  <2>2. Advances
    BY <1>1, <1>2, <2>1, AcceptAdvances
  <2>3. Rounds(c)
    BY <1>1, <1>3, <2>1, RetryEffect, Zenon
  <2> QED BY <1>1, <2>2, <2>3, AfterRounds
<1> QED BY <1>4, <1>5 DEF UploadFails

\* A call that knows its intent has its result once the proof is on the origin chain.
LEMMA ResultStep ==
    ASSUME ClientInv, UNCHANGED <<intents, fee>>, NEW c \in Calls, call[c].id # NoId,
           NextPc(c) = "done", IsExecuted(At(call[c].id)), Result(c)
    PROVE  ClientInv'
<1> DEFINE q == call[c]
           r == [q EXCEPT !.progress = "proven", !.epoch = 1]
<1>0. q \in CallT
  BY DEF ClientInv
<1>1. ProvenEpoch(At(q.id)) = 1
  BY DEF ProvenEpoch
<1>2. /\ r \in CallT /\ r.id = q.id /\ r.chain = q.chain /\ r.priced = q.priced
      /\ r.forward = q.forward /\ r.upper = q.upper /\ r.epoch = 1
  <2>1. "proven" \in StoreProgress /\ 1 \in 0..1
    BY DEF StoreProgress
  <2> QED BY <1>0, <2>1 DEF CallT
<1>3. Proceed(c, r)
  BY <1>1 DEF Result
<1> HIDE DEF r
<1>4. Advances
  BY StandStill DEF ClientInv
<1>5. Knows(intents'[q.id[1]][q.id[2]], c, "done", r)
  <2>1. Knows(At(q.id), c, q.pc, q)
    BY KnownIntent
  <2>2. At(q.id).call = c /\ intents'[q.id[1]][q.id[2]] = At(q.id)
    BY <2>1 DEF Knows, At
  <2>3. IsStored(At(q.id))
    BY DEF IsStored, IsExecuted
  <2> QED BY <1>2, <2>2, <2>3 DEF Knows
<1> QED BY <1>2, <1>3, <1>4, <1>5, AfterProceeds

\* awaitProof(), readIntent() and readEndEpoch(), with their polls that fail.
LEMMA ProofStep ==
    ASSUME ClientInv, NEW c \in Calls,
           awaitProof(c) \/ readIntent(c) \/ PollFails(c) \/ readEndEpoch(c)
    PROVE  ClientInv'
<1> DEFINE q == call[c]
<1>1. /\ q.pc \in {"upload", "await", "read"} /\ UNCHANGED <<intents, fee>>
      /\ call \in [Calls -> CallT] /\ q \in CallT /\ CallGood(intents, c, q)
  BY DEF ClientInv, awaitProof, readIntent, PollFails, readEndEpoch
<1>2. q.id # NoId /\ OnFlow(q)
  BY <1>1 DEF CallGood
<1>3. Advances
  BY <1>1, StandStill DEF ClientInv
<1>4. CASE Rounds(c)
  BY <1>1, <1>3, <1>4, AfterRounds
<1>5. CASE Fail(c)
  BY <1>1, <1>4, <1>5, FailEffect
<1>6. CASE PollAgain(c)
  BY <1>1, <1>4, <1>6, PollEffect
<1>7. CASE awaitProof(c) /\ ~PollAgain(c)
  <2>1. q.pc = "await" /\ q.chain = "evm" /\ IsExecuted(At(q.id)) /\ Proceed(c, q)
    BY <1>7 DEF awaitProof
  <2>2. NextPc(c) = "read"
    BY <1>1, <1>2, <2>1, FlowEvm DEF FlowNext
  <2>3. Knows(intents'[q.id[1]][q.id[2]], c, "read", q)
    <3>1. Knows(At(q.id), c, q.pc, q)
      BY <1>2, KnownIntent
    <3> QED BY <1>1, <2>1, <3>1 DEF Knows, At
  <2> QED BY <1>1, <1>2, <1>3, <2>1, <2>2, <2>3, AfterProceeds
<1>8. CASE readIntent(c) /\ ~PollAgain(c)
  <2>1. q.pc = "await" /\ q.chain = "solana" /\ IsExecuted(At(q.id)) /\ Result(c)
    BY <1>8 DEF readIntent
  <2>2. NextPc(c) = "done"
    BY <1>1, <1>2, <2>1, FlowSolana DEF FlowNext
  <2> QED BY <1>1, <1>2, <2>1, <2>2, ResultStep
<1>9. CASE readEndEpoch(c) /\ ~Fail(c)
  <2>1. q.pc = "read" /\ Result(c)
    BY <1>9 DEF readEndEpoch
  <2>2. q.chain = "evm"
    BY <1>2, <2>1 DEF OnFlow
  <2>3. NextPc(c) = "done"
    BY <1>1, <1>2, <2>1, <2>2, FlowEvm DEF FlowNext
  <2>4. IsExecuted(At(q.id))
    BY <1>2, <2>1, KnownIntent DEF Knows
  <2> QED BY <1>1, <1>2, <2>1, <2>3, <2>4, ResultStep
<1>10. CASE PollFails(c)
  BY <1>5, <1>6, <1>10 DEF PollFails
<1> QED BY <1>5, <1>6, <1>7, <1>8, <1>9, <1>10

\* throwIfAborted() rejects a call that waits, resume takes one up again.
LEMMA ApplicationStep ==
    ASSUME ClientInv, NEW c \in Calls, throwIfAborted(c) \/ resume(c)
    PROVE  ClientInv'
<1> DEFINE q == call[c]
<1>1. /\ UNCHANGED <<intents, fee>> /\ call \in [Calls -> CallT] /\ q \in CallT
      /\ CallGood(intents, c, q)
  BY DEF ClientInv, throwIfAborted, resume
<1>2. Advances
  BY <1>1, StandStill DEF ClientInv
<1>3. CASE throwIfAborted(c)
  <2>1. q.pc \in {"upload", "await", "read"} /\ Rounds(c)
    BY <1>1, <1>3, FailEffect DEF throwIfAborted
  <2> QED BY <1>2, <2>1, AfterRounds
<1>4. CASE resume(c)
  <2> DEFINE pc == IF q.progress = "submitted" THEN "upload" ELSE "await"
             s  == [q EXCEPT !.pc = pc]
  <2>1. q.id # NoId /\ Becomes(c, s)
    BY <1>4 DEF resume, Becomes
  <2>2. pc \in Pcs /\ pc \in {"upload", "await"}
    BY DEF Pcs
  <2> HIDE DEF pc
  <2>3. s \in CallT /\ s.pc = pc /\ Like(s, q)
    BY <1>1, <2>2 DEF CallT, Like
  <2> HIDE DEF s
  <2>4. Knows(intents'[q.id[1]][q.id[2]], c, s.pc, s)
    <3>1. Knows(At(q.id), c, q.pc, q)
      BY <2>1, KnownIntent
    <3> QED BY <1>1, <2>2, <2>3, <3>1 DEF Knows, At, Like
  <2>5. /\ s.id = q.id /\ s.chain = q.chain /\ s.priced = q.priced /\ s.forward = q.forward
        /\ s.upper = q.upper /\ s.pc \in {"upload", "await", "read", "done", "failed"}
        /\ s.pc # "read"
    BY <2>2, <2>3 DEF Like
  <2> QED BY <1>2, <2>1, <2>3, <2>4, <2>5, AfterStep
<1> QED BY <1>3, <1>4

\* The signal ends a request to the relayer that nobody answers.
LEMMA CancelledStep ==
    ASSUME ClientInv, NEW c \in Calls, Cancelled(c)
    PROVE  ClientInv'
<1>1. UNCHANGED <<intents, fee>> /\ Fail(c) /\ call[c].pc \in {"encode", "price", "upload"}
  BY DEF Cancelled, TakesSignal
<1>2. CASE call[c].pc \in Before
  BY <1>1, <1>2, BeforeFails
<1>3. CASE call[c].pc = "upload"
  <2>1. Advances /\ Rounds(c)
    BY <1>1, StandStill, FailEffect DEF ClientInv
  <2> QED BY <1>3, <2>1, AfterRounds
<1> QED BY <1>1, <1>2, <1>3 DEF Before

-----------------------------------------------------------------------------
(* The chains and the relayer.                                             *)

\* The watcher, the store, the proof, the deadline and the block window.
LEMMA IntentStep ==
    ASSUME ClientInv, NEW id \in Ids,
           Watched(id) \/ Stored(id) \/ Proven(id) \/ DeadlinePasses(id) \/ LogPruned(id)
    PROVE  ClientInv'
<1> DEFINE i == At(id)
<1>1. id \in Chains \X (Nat \ {0}) /\ Exists(id)
  <2>1. Exists(id)
    BY DEF Watched, Stored, Proven, DeadlinePasses, LogPruned, Advance
  <2>2. PICK ch \in Chains, n \in 1..Cardinality(Calls) : id = <<ch, n>>
    BY DEF Ids
  <2>3. n \in DOMAIN intents[ch]
    BY <2>1, <2>2 DEF Exists
  <2>4. intents[ch] \in Seq(Intent)
    BY DEF ClientInv
  <2>5. n \in Nat \ {0}
    BY <2>3, <2>4
  <2> QED BY <2>1, <2>2, <2>5
<1>2. i \in Intent
  <2>1. id[1] \in Chains
    BY <1>1, IdParts
  <2>2. intents[id[1]] \in Seq(Intent)
    BY <2>1 DEF ClientInv
  <2> QED BY <1>1, <2>2 DEF Exists, At
<1>3. UNCHANGED <<call, fee>>
  BY DEF Watched, Stored, Proven, DeadlinePasses, LogPruned, Advance, Changes
<1>4. PICK from \in Stages, to \in Stages :
         /\ i.stage = from
         /\ \/ <<from, to>> \in {<<"submitted", "known">>, <<"known", "stored">>,
                                 <<"stored", "executed">>, <<"executed", "pruned">>}
               /\ Set(id, [i EXCEPT !.stage = to])
            \/ from = to /\ Set(id, [i EXCEPT !.past = TRUE])
  <2>1. CASE DeadlinePasses(id)
    <3>1. i.stage \in Stages /\ Set(id, [i EXCEPT !.past = TRUE])
      BY <1>2, <2>1 DEF DeadlinePasses, Changes, Intent
    <3> QED BY <3>1
  <2>2. ASSUME NEW from \in Stages, NEW to \in Stages, Advance(id, from, to)
        PROVE  i.stage = from /\ Set(id, [i EXCEPT !.stage = to])
    BY <2>2 DEF Advance, Changes
  <2>3. CASE ~DeadlinePasses(id)
    <3>1. \/ Advance(id, "submitted", "known") \/ Advance(id, "known", "stored")
          \/ Advance(id, "stored", "executed") \/ Advance(id, "executed", "pruned")
      BY <2>3 DEF Watched, Stored, Proven, LogPruned
    <3>2. {"submitted", "known", "stored", "executed", "pruned"} \subseteq Stages
      BY DEF Stages
    <3> QED BY <2>2, <3>1, <3>2
  <2> QED BY <2>1, <2>3
<1>5. CASE from # to
  <2> DEFINE j == [i EXCEPT !.stage = to]
  <2>1. Set(id, j)
    BY <1>4, <1>5
  <2>2. /\ j \in Intent /\ j.call = i.call /\ j.fee = i.fee /\ j.escrow = i.escrow
        /\ j.accepted = i.accepted /\ j.stage = to
    BY <1>2 DEF Intent
  <2> HIDE DEF j
  <2>3. (IsStored(i) => IsStored(j)) /\ (IsExecuted(i) => IsExecuted(j))
    BY <1>4, <1>5, <2>2 DEF IsStored, IsExecuted
  <2>4. Advances
    BY <1>1, <1>3, <2>1, <2>2, <2>3, SetAdvances
  <2> QED BY <1>3, <2>4, NoCall
<1>6. CASE from = to
  <2> DEFINE j == [i EXCEPT !.past = TRUE]
  <2>1. Set(id, j)
    BY <1>4, <1>6
  <2>2. /\ j \in Intent /\ j.call = i.call /\ j.fee = i.fee /\ j.escrow = i.escrow
        /\ j.accepted = i.accepted /\ j.stage = i.stage
    BY <1>2 DEF Intent
  <2> HIDE DEF j
  <2>3. (IsStored(i) => IsStored(j)) /\ (IsExecuted(i) => IsExecuted(j))
    BY <2>2 DEF IsStored, IsExecuted
  <2>4. Advances
    BY <1>1, <1>3, <2>1, <2>2, <2>3, SetAdvances
  <2> QED BY <1>3, <2>4, NoCall
<1> QED BY <1>5, <1>6

-----------------------------------------------------------------------------
(* The theorems.                                                           *)

\* Nothing has been submitted when the application starts.
LEMMA ClientInit == Init => ClientInv
<1> SUFFICES ASSUME Init PROVE ClientInv
  OBVIOUS
<1>1. NewCall \in CallT /\ NewCall.pc = "idle" /\ NewCall.id = NoId /\ NewCall.progress = "none"
      /\ ~NewCall.upper
  <2>1. 1 \in 1..MaxAttempts /\ 0 \in 0..MaxPolls /\ NoFee \in Forwards /\ NoId \in CallIds
    BY Numbers DEF Forwards, CallIds
  <2> QED BY <2>1 DEF CallT, NewCall, Pcs, StoreProgress, Chains, Data
<1>2. call \in [Calls -> CallT] /\ \A c \in Calls : call[c] = NewCall
  BY <1>1 DEF Init
<1>3. intents \in [Chains -> Seq(Intent)] /\ fee \in Fees
      /\ \A ch \in Chains : DOMAIN intents[ch] = {}
  BY DEF Init
<1>4. ASSUME NEW c \in Calls PROVE CallGood(intents, c, NewCall)
  BY <1>1 DEF CallGood, OnFlow
<1> QED BY <1>2, <1>3, <1>4 DEF ClientInv, SubmitsOnce

\* Every step of the calls, of the chains and of the relayer keeps the invariant.
LEMMA ClientStep == ClientInv /\ [Next]_vars => ClientInv'
<1> SUFFICES ASSUME ClientInv, [Next]_vars PROVE ClientInv'
  OBVIOUS
<1>1. CASE UNCHANGED vars
  <2>1. UNCHANGED <<call, intents, fee>> /\ fee \in Fees
    BY <1>1 DEF vars, ClientInv
  <2> QED BY <2>1, StandStill, NoCall
<1>2. CASE \E c \in Calls, ch \in Chains, priced \in BOOLEAN, data \in Data :
              store(c, ch, priced, data)
  BY <1>2, StoreStep
<1>3. ASSUME NEW c \in Calls, Step(c) PROVE ClientInv'
  <2>1. CASE encodeIntent(c)
    BY <2>1, EncodeStep
  <2>2. CASE quote(c) \/ priceQuote(c) \/ fetchQuote(c)
    BY <2>2, QuoteStep
  <2>3. CASE currentNonce(c)
    BY <2>3, NonceStep
  <2>4. CASE submit(c) \/ submitIntent(c)
    BY <2>4, SubmitStep
  <2>5. CASE SubmitFails(c)
    BY <2>5, SubmitFailsStep
  <2>6. CASE submitWithValue(c) \/ signAndSend(c)
    BY <2>6, ConfirmStep
  <2>7. CASE uploadBlob(c)
    BY <2>7, UploadStep
  <2>8. CASE awaitProof(c) \/ readIntent(c) \/ readEndEpoch(c)
    BY <2>8, ProofStep
  <2>9. CASE throwIfAborted(c)
    BY <2>9, ApplicationStep
  <2> QED BY <1>3, <2>1, <2>2, <2>3, <2>4, <2>5, <2>6, <2>7, <2>8, <2>9 DEF Step
<1>4. ASSUME NEW c \in Calls,
             relayerComputeBlob(c) \/ ConfirmLost(c) \/ UploadFails(c) \/ PollFails(c) \/ resume(c)
      PROVE  ClientInv'
  BY <1>4, EncodeStep, ConfirmLostStep, UploadFailsStep, ProofStep, ApplicationStep
<1>5. ASSUME NEW c \in Calls, abort(c) \/ Hangs(c) PROVE ClientInv'
  <2>1. UNCHANGED <<call, intents, fee>> /\ fee \in Fees
    BY <1>5 DEF abort, Hangs, ClientInv
  <2> QED BY <2>1, StandStill, NoCall
<1>6. ASSUME NEW id \in Ids,
             Watched(id) \/ Stored(id) \/ Proven(id) \/ DeadlinePasses(id) \/ LogPruned(id)
      PROVE  ClientInv'
  BY <1>6, IntentStep
<1>7. CASE FeeMoves
  <2>1. UNCHANGED <<call, intents>> /\ fee' \in Fees
    BY <1>7 DEF FeeMoves
  <2> QED BY <2>1, StandStill, NoCall
<1>8. ASSUME NEW c \in Calls, Cancelled(c) PROVE ClientInv'
  BY <1>8, CancelledStep
<1> QED BY <1>1, <1>2, <1>3, <1>4, <1>5, <1>6, <1>7, <1>8 DEF Next, Own

LEMMA ClientInvariant == Spec => []ClientInv
  BY ClientInit, ClientStep, PTL DEF Spec

\* What a call reports and returns is true, for any number of calls on both chains whose
\* steps interleave in any order: the id a store() reports is that of the intent it submitted
\* itself, also where two calls derived theirs from one nonce; "uploaded" means that the relayer
\* has the bytes or the blob; a result is the proof on the origin chain.
THEOREM ReportsAreTrue == Spec => []ProgressIsTrue
<1>1. ClientInv => ProgressIsTrue
  <2> SUFFICES ASSUME ClientInv, NEW c \in Calls
               PROVE  /\ call[c].id # NoId => Exists(call[c].id) /\ At(call[c].id).call = c
                      /\ call[c].progress \in {"uploaded", "proven"} =>
                            At(call[c].id).accepted \/ IsStored(At(call[c].id))
                      /\ call[c].progress = "proven" =>
                            /\ IsExecuted(At(call[c].id))
                            /\ call[c].epoch = ProvenEpoch(At(call[c].id))
    BY DEF ProgressIsTrue
  <2>1. call[c].id = NoId => call[c].progress \notin {"uploaded", "proven"}
    BY DEF ClientInv, CallGood
  <2>2. CASE call[c].id # NoId
    BY <2>2, KnownIntent DEF Knows, ProvenEpoch
  <2> QED BY <2>1, <2>2
<1> QED BY <1>1, ClientInvariant, PTL

\* A paid intent is reported to the application by the call that submitted it, however the
\* signal, the errors and the other calls interleave, unless the transaction's own answer
\* was lost.
THEOREM PaidIntentIsReported == Spec => []PaidIsReported
<1>1. ClientInv => PaidIsReported
  <2> SUFFICES ASSUME ClientInv, NEW id \in Ids, Exists(id)
               PROVE  LET c == At(id).call
                      IN  call[c].id = id \/ call[c].pc = "confirm" \/ call[c].lostAnswer
    BY DEF PaidIsReported
  <2>1. PICK ch \in Chains, n \in 1..Cardinality(Calls) : id = <<ch, n>>
    BY DEF Ids
  <2>2. n \in DOMAIN intents[ch] /\ At(id) = intents[ch][n]
    BY <2>1 DEF Exists, At
  <2>3. IntentGood(ch, n, intents[ch][n], call[intents[ch][n].call])
    BY <2>2 DEF ClientInv
  <2> QED BY <2>1, <2>2, <2>3 DEF IntentGood
<1> QED BY <1>1, ClientInvariant, PTL

\* A priced store costs what its quote said, for every fee the endpoint may ask and however it
\* moves between the quote and the transaction.
THEOREM PricedStoreCostsItsQuote == Spec => []ChargedAsQuoted
<1>1. ClientInv => ChargedAsQuoted
  <2> SUFFICES ASSUME ClientInv, NEW id \in Ids, Exists(id), call[At(id).call].priced
               PROVE  LET i == At(id)
                          q == call[i.call]
                      IN  IF id[1] = "evm" THEN i.escrow + i.fee = Escrow + q.forward
                          ELSE /\ i.escrow = Escrow
                               /\ q.upper => i.fee <= q.forward
                               /\ i.fee <= Max2(q.forward, FeeCap)
    BY DEF ChargedAsQuoted
  <2>1. PICK ch \in Chains, n \in 1..Cardinality(Calls) : id = <<ch, n>>
    BY DEF Ids
  <2>2. n \in DOMAIN intents[ch] /\ At(id) = intents[ch][n] /\ id[1] = ch
    BY <2>1 DEF Exists, At
  <2>3. IntentGood(ch, n, intents[ch][n], call[intents[ch][n].call])
    BY <2>2 DEF ClientInv
  <2> QED BY <2>2, <2>3 DEF IntentGood
<1> QED BY <1>1, ClientInvariant, PTL
=============================================================================
