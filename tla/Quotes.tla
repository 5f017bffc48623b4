------------------------------- MODULE Quotes -------------------------------
(***************************************************************************)
(* The relayer's prices: the oracle over two feeds, the quote a client     *)
(* pays as its escrow, the break-even check made against that escrow when  *)
(* the blob is about to be stored, and the cached Solana LayerZero fee.    *)
(*                                                                         *)
(* One quote is followed from POST /quote to its check, while prices, the  *)
(* Walrus state and the LayerZero fees move and one feed may be wrong.     *)
(* The fee service shares only the clock with the rest: a behaviour        *)
(* exercises one half or the other, which loses no state of either.        *)
(* Amounts are small integers: prices per unit of a token, ratios in       *)
(* percent, USD amounts scaled by a power of ten where a ratio is applied. *)
(***************************************************************************)
EXTENDS Integers, FiniteSets

CONSTANTS Callers,            \* clients of GET /lz-fee/solana
          Start,              \* the price of each token at first
          Levels,             \* the prices a token may have
          Epochs,             \* durations a client asks for; None: left out
          None,
          SanityMax,          \* the upper plausibility bound
          MaxStaleness, MaxAge, RetryAfter,   \* in ticks of the clock
          StoreEpochs, MaxEpochs,             \* WALRUS_STORE_EPOCHS, WALRUS_MAX_EPOCHS
          ReturnLzFee, SuiGas,                \* the configured estimates
          MinCharge,
          MaxTime, MaxMoves, MaxLatency       \* bounds of the model

Tokens  == {"WAL", "SUI", "ETH"}
Origin  == "ETH"
Sources == {"pyth", "coingecko"}

VARIABLES
    half,        \* the half that is exercised, "prices" or "fees"
    now,
    market,      \* the price of each token
    feed,        \* what each source publishes: [usd, at] per token
    bad,         \* the source that publishes a wrong price, if any
    walrus,      \* the live Walrus state: [price, ahead]
    returnFee,   \* the live fee of the return message
    fee,         \* the live Solana LayerZero fee
    liveUntil,   \* the last moment each fee was the live one
    moves,
    quote,       \* the quote the client paid, as a sequence of length 0 or 1
    check,       \* the outcome of the check before the store, likewise
    cached, inflight, failure,      \* SolanaLzFeeService
    ended,       \* when the last simulation ended, and how
    caller       \* what each caller was answered

world == <<market, feed, bad, walrus, returnFee, fee, liveUntil, moves>>
lzFee == <<cached, inflight, failure, ended, caller>>
vars  == <<half, now, world, quote, check, lzFee>>

-----------------------------------------------------------------------------
PriceSet == [Tokens -> Nat]
PricePoint == [usd : Nat, at : 0..MaxTime]

ASSUME QuotesAssumption ==
    /\ Start \in PriceSet /\ \A t \in Tokens : Levels[t] \subseteq Nat
    /\ \A e \in Epochs : e # None => e \in Nat
    /\ {StoreEpochs, MaxEpochs, ReturnLzFee, SuiGas, MinCharge} \subseteq Nat
    /\ {MaxAge, RetryAfter, MaxLatency, MaxStaleness, MaxTime} \subseteq Nat

Fees == {1, 2}
NoTime == -1
NoFee  == 0
Waiting == -1
Unavailable == -2

Init ==
    /\ half \in {"prices", "fees"}
    /\ now = 0
    /\ market = Start
    /\ feed = [s \in Sources |-> [t \in Tokens |-> [usd |-> Start[t], at |-> 0]]]
    /\ bad = {}
    /\ walrus = [price |-> 1, ahead |-> MaxEpochs]
    /\ returnFee = ReturnLzFee
    /\ fee = 1
    /\ liveUntil = [f \in Fees |-> IF f = 1 THEN 0 ELSE NoTime]
    /\ moves = 0
    /\ quote = <<>>
    /\ check = <<>>
    /\ cached = [fee |-> NoFee, at |-> NoTime]
    /\ inflight = [pc |-> "none", fee |-> NoFee, at |-> NoTime]
    /\ failure = NoTime
    /\ ended = [at |-> NoTime, ok |-> TRUE]
    /\ caller = [c \in Callers |-> NoFee]

-----------------------------------------------------------------------------
(* PriceOracle.                                                            *)

isFresh(p) == now - p.at <= MaxStaleness

\* |a - b| over the smaller one exceeds maxDeviationRatio (15%).
Deviates(a, b) == LET lo == IF a < b THEN a ELSE b
                      d  == IF a < b THEN b - a ELSE a - b
                  IN  lo <= 0 \/ 100 * d > 15 * lo

assertSane(usd) == usd > 0 /\ usd <= SanityMax

\* The points of token t among the sources that answered with it.
Points(t, answers) == {s \in Sources : t \in answers[s] /\ isFresh(feed[s][t])}

\* Mutant: two fresh feeds are not compared.
TrustsTheFirst(t, answers) ==
    LET fresh == Points(t, answers)
        usd   == feed[IF "pyth" \in fresh THEN "pyth" ELSE "coingecko"][t].usd
    IN  IF fresh = {} \/ ~assertSane(usd) THEN {} ELSE {usd}

\* Pyth's price, else CoinGecko's; nothing when both are fresh and disagree, when
\* none is fresh, or when the price is implausible.
reconcile(t, answers) ==
    LET fresh == Points(t, answers)
        usd   == feed[IF "pyth" \in fresh THEN "pyth" ELSE "coingecko"][t].usd
    IN  IF \/ fresh = {}
           \/ fresh = Sources /\ Deviates(feed["pyth"][t].usd, feed["coingecko"][t].usd)
           \/ ~assertSane(usd)
        THEN {} ELSE {usd}

\* A source that fails answers for no token; a token may also be missing.
tryPyth == {{}, Tokens} \union {Tokens \ {t} : t \in Tokens}
tryCoinGecko == tryPyth
Answers == {[s \in Sources |-> IF s = "pyth" THEN p ELSE c] : p \in tryPyth, c \in tryCoinGecko}

\* Every token must have a price, otherwise getPrices() throws.
Priced(answers) == \A t \in Tokens : reconcile(t, answers) # {}
getPrices(answers) == [t \in Tokens |-> CHOOSE usd \in reconcile(t, answers) : TRUE]

-----------------------------------------------------------------------------
(* The cost of a store.                                                    *)

\* One storage unit: the write fee, and the storage fee for every epoch.
computeWalCost(epochs) == 1 + epochs * walrus.price
estimateWalCostFrost(epochs) == computeWalCost(IF epochs = None THEN StoreEpochs ELSE epochs)

amountToUsd(amount, price) == amount * price

-----------------------------------------------------------------------------
(* QuoteEngine and QuoteService.  Percentages are QuoteService's defaults. *)

engineConfig == [returnLeg |-> 20, suiGas |-> 20, wal |-> 10, crossRate |-> 5, margin |-> 15]
Plus(pct) == 100 + pct

\* The fronted costs with their buffers, times 10^4.
Buffered(wal, prices) ==
    LET c == engineConfig
        sui(amount, pct) == amountToUsd(amount, prices["SUI"]) * Plus(pct) * Plus(c.crossRate)
    IN  amountToUsd(wal, prices["WAL"]) * Plus(c.wal) * 100
          + sui(ReturnLzFee, c.returnLeg) + sui(SuiGas, c.suiGas)

\* USD (times 10^6) to the origin token, rounded up.
usdToNative(usd, price) == (usd + price * 1000000 - 1) \div (price * 1000000)

\* Mutant: the service margin is left out.
MarginLess(wal, prices) ==
    LET floor == MinCharge * 10000
        usd   == IF Buffered(wal, prices) < floor THEN floor ELSE Buffered(wal, prices)
    IN  usdToNative(usd * 100, prices[Origin])

escrowNative(wal, prices) ==
    LET floor == MinCharge * 10000
        usd   == IF Buffered(wal, prices) < floor THEN floor ELSE Buffered(wal, prices)
    IN  usdToNative(usd * Plus(engineConfig.margin), prices[Origin])

\* QuoteService.quote(): the duration priced, a committed 0 as one epoch.
Quotable(epochs) == epochs # None => epochs <= MaxEpochs
QuotedEpochs(epochs) == IF epochs = None THEN None ELSE IF epochs < 1 THEN 1 ELSE epochs

\* POST /quote; the client escrows what it is quoted.
getQuote(epochs) ==
    /\ half = "prices" /\ quote = <<>>
    /\ Quotable(epochs)
    /\ \E answers \in Answers :
          /\ Priced(answers)
          /\ LET prices == getPrices(answers)
                 wal    == estimateWalCostFrost(QuotedEpochs(epochs))
                 escrow == escrowNative(wal, prices)
             IN  quote' = <<[epochs |-> epochs, prices |-> prices, wal |-> wal,
                             escrow |-> escrow]>>
    /\ UNCHANGED <<half, now, world, check, lzFee>>

-----------------------------------------------------------------------------
(* The check before the store: the duration, then the break-even guard.    *)

\* WalrusService.resolveStoreEpochs(): the relayer's cap and Walrus's own.
maxEpochsAhead == IF walrus.ahead < MaxEpochs THEN walrus.ahead ELSE MaxEpochs
Resolved(epochs) == IF epochs = None THEN StoreEpochs ELSE QuotedEpochs(epochs)
Storable(epochs) == (IF epochs = None THEN StoreEpochs ELSE epochs) <= maxEpochsAhead

CostUsd(wal, return, prices) == amountToUsd(wal, prices["WAL"])
                                  + amountToUsd(return + SuiGas, prices["SUI"])

MinMargin == 10
evaluateBreakEven(escrow, wal, return, prices) ==
    100 * amountToUsd(escrow, prices[Origin]) >= Plus(MinMargin) * CostUsd(wal, return, prices)

\* A source that is not the wrong one and has a fresh price for every token.
Witness(answers) == {s \in Sources \ bad : \A t \in Tokens : s \in Points(t, answers)}

\* BreakEvenGuardService.check(), with the processor's fees; without prices the
\* attempt fails and is made again.
CheckBreakEven ==
    /\ quote # <<>> /\ check = <<>>
    /\ Storable(quote[1].epochs)
    /\ \E answers \in Answers :
          /\ Priced(answers)
          /\ LET prices == getPrices(answers)
                 wal    == estimateWalCostFrost(Resolved(quote[1].epochs))
             IN  check' = <<[proceed |-> evaluateBreakEven(quote[1].escrow, wal, ReturnLzFee,
                                                           prices),
                             stored |-> TRUE, prices |-> prices, wal |-> wal,
                             honest |-> {[t \in Tokens |-> feed[s][t].usd] :
                                            s \in Witness(answers)}]>>
    /\ UNCHANGED <<half, now, world, quote, lzFee>>

\* The duration is refused: the row is dead-lettered before any spend.
RejectEpochs ==
    /\ quote # <<>> /\ check = <<>>
    /\ ~Storable(quote[1].epochs)
    /\ check' = <<[proceed |-> FALSE, stored |-> FALSE, prices |-> quote[1].prices,
                   wal |-> quote[1].wal, honest |-> {}]>>
    /\ UNCHANGED <<half, now, world, quote, lzFee>>

-----------------------------------------------------------------------------
(* SolanaLzFeeService.                                                     *)

Idle == inflight.pc = "none"

\* Mutant: an expired fee is served while the chain cannot be asked.
ServesStale(c) ==
    /\ caller[c] # Waiting
    /\ caller' = [caller EXCEPT ![c] =
                    IF \/ cached.at # NoTime /\ now - cached.at < MaxAge
                       \/ cached.at # NoTime /\ now < failure
                    THEN cached.fee ELSE IF now < failure THEN Unavailable ELSE Waiting]
    /\ inflight' = IF caller'[c] = Waiting /\ Idle
                   THEN [pc |-> "asked", fee |-> NoFee, at |-> now] ELSE inflight
    /\ UNCHANGED <<cached, failure, ended>>

\* A young fee is served, a recent failure repeated; otherwise the caller joins the
\* simulation under way or starts one.
solanaFee(c) ==
    /\ caller[c] # Waiting
    /\ caller' = [caller EXCEPT ![c] =
                    IF cached.at # NoTime /\ now - cached.at < MaxAge THEN cached.fee
                    ELSE IF now < failure THEN Unavailable ELSE Waiting]
    /\ inflight' = IF caller'[c] = Waiting /\ Idle
                   THEN [pc |-> "asked", fee |-> NoFee, at |-> now] ELSE inflight
    /\ UNCHANGED <<cached, failure, ended>>

Ask(c) == half = "fees" /\ solanaFee(c) /\ UNCHANGED <<half, now, world, quote, check>>

\* The endpoint's quote instruction is simulated on some node ...
quoteSolanaLzFeeLamports ==
    /\ inflight.pc = "asked"
    /\ inflight' = [inflight EXCEPT !.pc = "read", !.fee = fee]
    /\ UNCHANGED <<half, now, world, quote, check, cached, failure, ended, caller>>

Settle(answer) ==
    /\ caller' = [c \in Callers |-> IF caller[c] = Waiting THEN answer ELSE caller[c]]
    /\ inflight' = [pc |-> "none", fee |-> NoFee, at |-> NoTime]

\* ... and its answer is stamped when it arrives.
simulate ==
    /\ inflight.pc = "read"
    /\ cached' = [fee |-> inflight.fee, at |-> now]
    /\ failure' = NoTime
    /\ ended' = [at |-> now, ok |-> TRUE]
    /\ Settle(inflight.fee)
    /\ UNCHANGED <<half, now, world, quote, check>>

\* Mutant: a failure is not remembered.
ForgetsFailure ==
    /\ inflight.pc # "none"
    /\ ended' = [at |-> now, ok |-> FALSE]
    /\ Settle(Unavailable)
    /\ UNCHANGED <<half, now, world, quote, check, cached, failure>>

\* The simulation fails: remembered for RetryAfter.
refresh ==
    /\ inflight.pc # "none"
    /\ failure' = now + RetryAfter
    /\ ended' = [at |-> now, ok |-> FALSE]
    /\ Settle(Unavailable)
    /\ UNCHANGED <<half, now, world, quote, check, cached>>

-----------------------------------------------------------------------------
(* The world.                                                              *)

\* The clock; an answer of the node arrives within MaxLatency ticks.
Tick ==
    /\ now < (IF half = "prices" THEN MaxStaleness + 1 ELSE MaxTime)
    /\ check = <<>>
    /\ Idle \/ now - inflight.at < MaxLatency
    /\ now' = now + 1
    /\ liveUntil' = [liveUntil EXCEPT ![fee] = now + 1]
    /\ UNCHANGED <<half, market, feed, bad, walrus, returnFee, fee, moves, quote, check, lzFee>>

Move(h) == half = h /\ moves < MaxMoves /\ moves' = moves + 1 /\ check = <<>>

MarketMoves(t, p) ==
    /\ p # market[t]
    /\ Move("prices")
    /\ market' = [market EXCEPT ![t] = p]
    /\ UNCHANGED <<half, now, feed, bad, walrus, returnFee, fee, liveUntil, quote, check, lzFee>>

Publish(s) ==
    /\ half = "prices" /\ check = <<>>
    /\ feed' = [feed EXCEPT ![s] = [t \in Tokens |-> [usd |-> market[t], at |-> now]]]
    /\ bad' = bad \ {s}
    /\ UNCHANGED <<half, now, market, walrus, returnFee, fee, liveUntil, moves, quote, check, lzFee>>

\* One source publishes a price that is off by the given percentage of the market's.
Glitch(s, t, pct) ==
    /\ bad \subseteq {s}
    /\ Move("prices")
    /\ feed' = [feed EXCEPT ![s][t] = [usd |-> (market[t] * pct) \div 100, at |-> now]]
    /\ bad' = {s}
    /\ UNCHANGED <<half, now, market, walrus, returnFee, fee, liveUntil, quote, check, lzFee>>

ChainMoves(w, r) ==
    /\ <<w, r>> # <<walrus, returnFee>>
    /\ Move("prices")
    /\ walrus' = w /\ returnFee' = r
    /\ UNCHANGED <<half, now, market, feed, bad, fee, liveUntil, quote, check, lzFee>>

FeeMoves ==
    /\ Move("fees")
    /\ fee' = 3 - fee
    /\ liveUntil' = [liveUntil EXCEPT ![fee'] = now]
    /\ UNCHANGED <<half, now, market, feed, bad, walrus, returnFee, quote, check, lzFee>>

WalrusStates == [price : {1, 2}, ahead : {1, MaxEpochs}]

Next ==
    \/ Tick
    \/ \E t \in Tokens : \E p \in Levels[t] : MarketMoves(t, p)
    \/ \E s \in Sources : Publish(s)
    \/ \E s \in Sources, t \in Tokens, pct \in {50, 115, 200} : Glitch(s, t, pct)
    \/ \E w \in WalrusStates, r \in {ReturnLzFee, 2 * ReturnLzFee} : ChainMoves(w, r)
    \/ FeeMoves
    \/ \E c \in Callers : Ask(c)
    \/ quoteSolanaLzFeeLamports
    \/ simulate
    \/ refresh
    \/ \E epochs \in Epochs : getQuote(epochs)
    \/ CheckBreakEven
    \/ RejectEpochs

Spec == Init /\ [][Next]_vars

-----------------------------------------------------------------------------
(* Properties.                                                             *)

\* The WAL and SUI costs, in the origin token, have risen since the quote by less
\* than the buffers and the margin leave after the guard's own margin.
WithinBuffers(q, d) ==
    LET c == engineConfig
    IN  /\ Plus(MinMargin) * 100 * d.wal * d.prices["WAL"] * q.prices[Origin]
             <= Plus(c.margin) * Plus(c.wal) * q.wal * q.prices["WAL"] * d.prices[Origin]
        /\ Plus(MinMargin) * 100 * d.prices["SUI"] * q.prices[Origin]
             <= Plus(c.margin) * 126 * q.prices["SUI"] * d.prices[Origin]

\* A client that pays what it was quoted is stored: the relayer refuses only when a
\* cost rose beyond the buffers since the quote, or when Walrus itself no longer sells
\* the duration (quote.service.ts prices what intent.processor.ts checks).
QuoteIsHonoured ==
    check # <<>> /\ ~check[1].proceed =>
        \/ ~check[1].stored /\ (IF quote[1].epochs = None THEN StoreEpochs
                                ELSE quote[1].epochs) > walrus.ahead
        \/ check[1].stored /\ ~WithinBuffers(quote[1], check[1])

\* One wrong feed costs the relayer at most a known share: when it spends while the
\* other feed is fresh, then at that feed's prices the escrow is worth the configured
\* cost less the deviation both prices may have (price-oracle.ts, break-even-guard.ts).
LossIsBounded ==
    check # <<>> /\ check[1].proceed =>
        \A h \in check[1].honest :
            115 * 115 * amountToUsd(quote[1].escrow, h[Origin])
                >= Plus(MinMargin) * 100 * CostUsd(check[1].wal, ReturnLzFee, h)

\* A fee that is served was the chain's fee within the cache's age and the time an
\* answer may take (solana-lz-fee.service.ts: "No stale or default fee is ever served").
FeeIsRecent ==
    [][\A c \in Callers : caller'[c] \in Fees /\ caller'[c] # caller[c] =>
          liveUntil[caller'[c]] >= now - MaxAge - MaxLatency]_vars

\* A simulation is started only when the last one is old enough: MaxAge after an
\* answer, RetryAfter after a failure, however many callers ask at once.
SimulationsAreSpaced ==
    [][Idle /\ inflight'.pc = "asked" /\ ended.at # NoTime =>
          now - ended.at >= (IF ended.ok THEN MaxAge ELSE RetryAfter)]_vars

\* What the comments say of the guard: it recomputes the costs at execution time
\* against live values, so that a spend is covered (quote.service.ts:68).
SpendIsCovered ==
    check # <<>> /\ check[1].proceed =>
        amountToUsd(quote[1].escrow, check[1].prices[Origin])
            >= CostUsd(check[1].wal, returnFee, check[1].prices)
=============================================================================
