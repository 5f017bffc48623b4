--------------------------- MODULE ServicesProofs ---------------------------
(***************************************************************************)
(* Theorems about the services beside the queue, each for every value of   *)
(* its constants: the WAL top-up, the canary, the cached Solana fee, the   *)
(* quote with the check that is made against it, and the rate limiter.     *)
(***************************************************************************)
EXTENDS Quotes, WalTopUp, RateLimit, Canary, WellFoundedInduction, TLAPS

-----------------------------------------------------------------------------
(* The WAL top-up.                                                         *)

Runs == [pc : {"idle", "joined", "readWal", "readSui", "swap", "confirm"}, wal : Int, gone : Nat]

WalTypes ==
    /\ wal \in Nat /\ sui \in Nat /\ lost \in Nat /\ pending \in BOOLEAN
    /\ inFlight \in WalCallers \union {NoRun}
    /\ topUp \in [WalCallers -> Runs]

\* The lost swaps that have landed.
Landed(p, l) == IF p THEN l - 1 ELSE l

\* A caller that is past the check for a run under way is that run.
OneRun == \A c \in WalCallers : topUp[c].pc \in {"readWal", "readSui", "swap", "confirm"} => inFlight = c

\* Every swap that landed was for a shortage of its own: while a run has seen one and not
\* bought for it, the balance is short of what the next swap makes it.
Shortage(t, w, n) ==
    t.pc = "swap" \/ (t.pc = "readSui" /\ t.wal < WalFloor) => w < WalFloor + SwapSui * n

Reserve(t, s) == t.pc = "swap" => s + t.gone >= SwapSui + SuiReserve

WalInv ==
    /\ WalTypes /\ OneRun
    /\ pending => lost >= 1
    /\ wal < WalFloor + SwapSui * (1 + Landed(pending, lost))
    /\ \A c \in WalCallers : Shortage(topUp[c], wal, Landed(pending, lost)) /\ Reserve(topUp[c], sui)

LEMMA Product ==
    ASSUME NEW n \in Nat
    PROVE  SwapSui * (1 + n) = SwapSui + SwapSui * n /\ SwapSui * n \in Nat
  BY WalAssumption

LEMMA LandedType == WalInv => Landed(pending, lost) \in Nat /\ Landed(pending, lost) <= lost
  BY DEF WalInv, WalTypes, Landed

\* The balances move while no run changes what it does.
LEMMA BalanceMoves ==
    ASSUME WalInv, UNCHANGED <<inFlight, lost>>, pending' \in BOOLEAN, pending' => pending,
           wal' \in Nat, sui' \in Nat,
           wal' <= wal + SwapSui * (Landed(pending', lost) - Landed(pending, lost)),
           topUp' \in [WalCallers -> Runs],
           \A c \in WalCallers :
              /\ topUp'[c].pc = topUp[c].pc /\ topUp'[c].wal = topUp[c].wal
              /\ Reserve(topUp[c], sui) => Reserve(topUp'[c], sui')
    PROVE  WalInv'
<1>1. PICK n : n = Landed(pending, lost)
  OBVIOUS
<1>2. PICK m : m = Landed(pending', lost)
  OBVIOUS
<1>3. n \in Nat /\ m \in Nat /\ m \in {n, n + 1}
  BY <1>1, <1>2 DEF WalInv, WalTypes, Landed
<1>4. wal' <= wal + SwapSui * (m - n)
  BY <1>1, <1>2
<1>5. wal < WalFloor + SwapSui * (1 + n) /\ wal \in Nat
  BY <1>1 DEF WalInv, WalTypes
<1>6. \A k \in Nat : wal < WalFloor + SwapSui * (k + n) => wal' < WalFloor + SwapSui * (k + m)
  <2>1. ASSUME NEW k \in Nat
        PROVE  SwapSui * (k + m) = SwapSui * (k + n) + SwapSui * (m - n) /\ SwapSui * (m - n) \in Nat
               /\ SwapSui * (k + n) \in Nat
    BY <1>3, WalAssumption
  <2> QED BY <1>4, <1>5, <2>1, WalAssumption
<1>7. wal' < WalFloor + SwapSui * (1 + m)
  BY <1>5, <1>6
<1>8. \A c \in WalCallers : Shortage(topUp'[c], wal', m)
  <2>1. \A c \in WalCallers : Shortage(topUp[c], wal, n)
    BY <1>1 DEF WalInv
  <2>2. 0 + n = n /\ 0 + m = m
    BY <1>3
  <2>3. wal < WalFloor + SwapSui * n => wal' < WalFloor + SwapSui * m
    BY <1>6, <2>2
  <2> QED BY <2>1, <2>3 DEF Shortage
<1>9. WalTypes' /\ OneRun' /\ (pending' => lost' >= 1)
  BY DEF WalInv, WalTypes, OneRun
<1>10. lost' = lost
  OBVIOUS
<1>11. wal' < WalFloor + SwapSui * (1 + Landed(pending', lost'))
  BY <1>2, <1>7, <1>10
<1>12. \A c \in WalCallers : Shortage(topUp'[c], wal', Landed(pending', lost'))
  BY <1>2, <1>8, <1>10
<1>13. \A c \in WalCallers : Reserve(topUp'[c], sui')
  BY DEF WalInv
<1> QED BY <1>9, <1>11, <1>12, <1>13 DEF WalInv

LEMMA SpendKeeps ==
    ASSUME NEW t \in [WalCallers -> Runs], NEW amount \in Nat, sui \in Nat, Spend(amount, t)
    PROVE  /\ sui' \in Nat /\ topUp' \in [WalCallers -> Runs]
           /\ \A c \in WalCallers : /\ topUp'[c].pc = t[c].pc /\ topUp'[c].wal = t[c].wal
                                    /\ Reserve(t[c], sui) => Reserve(topUp'[c], sui')
<1>1. sui' \in Nat /\ sui' + amount = sui
  BY DEF Spend
<1>2. ASSUME NEW c \in WalCallers
      PROVE  /\ topUp'[c] \in Runs /\ topUp'[c].pc = t[c].pc /\ topUp'[c].wal = t[c].wal
             /\ t[c].pc = "swap" => topUp'[c].gone = t[c].gone + amount
  <2>1. t[c] \in Runs
    OBVIOUS
  <2>2. CASE t[c].pc = "swap"
    <3>1. topUp'[c] = [t[c] EXCEPT !.gone = @ + amount]
      BY <2>2 DEF Spend
    <3> QED BY <2>1, <2>2, <3>1 DEF Runs
  <2>3. CASE t[c].pc # "swap"
    BY <2>1, <2>3 DEF Spend
  <2> QED BY <2>2, <2>3
<1>3. topUp' \in [WalCallers -> Runs]
  BY <1>2 DEF Spend
<1>4. ASSUME NEW c \in WalCallers, Reserve(t[c], sui)
      PROVE  Reserve(topUp'[c], sui')
  <2>1. t[c].gone \in Nat
    BY DEF Runs
  <2>2. CASE t[c].pc = "swap"
    <3>1. topUp'[c].gone = t[c].gone + amount
      BY <1>2, <2>2, Zenon
    <3>2. sui' + topUp'[c].gone = sui + t[c].gone
      <4>1. PICK g \in Nat : g = t[c].gone
        BY <2>1
      <4>2. \A x, y \in Nat : y + amount = x => y + (g + amount) = x + g
        OBVIOUS
      <4>3. sui' + (g + amount) = sui + g
        BY <1>1, <4>2
      <4> QED BY <3>1, <4>1, <4>3, Zenon
    <3>3. sui + t[c].gone >= SwapSui + SuiReserve
      BY <1>4, <2>2 DEF Reserve
    <3> QED BY <3>2, <3>3 DEF Reserve
  <2>3. CASE t[c].pc # "swap"
    BY <1>2, <2>3 DEF Reserve
  <2> QED BY <2>2, <2>3
<1> QED BY <1>1, <1>2, <1>3, <1>4

LEMMA Payments ==
    ASSUME WalInv, LandsLate \/ StorePays \/ GasPays \/ FundSui
    PROVE  WalInv'
<1>1. wal \in Nat /\ sui \in Nat /\ topUp \in [WalCallers -> Runs] /\ pending \in BOOLEAN /\ lost \in Nat
  BY DEF WalInv, WalTypes
<1>2. Landed(pending, lost) \in Nat /\ SwapSui * 0 = 0 /\ SwapSui * 1 = SwapSui
  BY LandedType, WalAssumption
<1>3. CASE LandsLate
  <2>1. pending = TRUE /\ pending' = FALSE /\ Spend(SwapSui, topUp) /\ wal' = wal + SwapSui
    BY <1>1, <1>3 DEF LandsLate
  <2>2. Landed(pending', lost) - Landed(pending, lost) = 1
    BY <1>1, <2>1 DEF Landed
  <2>3. wal' \in Nat /\ wal' <= wal + SwapSui * (Landed(pending', lost) - Landed(pending, lost))
    <3>1. PICK k : k = Landed(pending', lost) - Landed(pending, lost)
      OBVIOUS
    <3>2. k = 1
      BY <2>2, <3>1
    <3>3. wal' \in Nat /\ wal' <= wal + SwapSui * k
      BY <1>1, <2>1, <3>2, WalAssumption
    <3> QED BY <3>1, <3>3, Zenon
  <2> QED BY <1>1, <1>3, <2>1, <2>3, SpendKeeps, BalanceMoves, WalAssumption DEF LandsLate
<1>4. CASE StorePays \/ GasPays \/ FundSui
  <2>1. pending' = pending /\ lost' = lost /\ inFlight' = inFlight
    BY <1>4 DEF StorePays, GasPays, FundSui
  <2>2. Landed(pending', lost) - Landed(pending, lost) = 0
    BY <1>2, <2>1
  <2>3. wal' \in Nat /\ wal' <= wal
    BY <1>1, <1>4 DEF StorePays, GasPays, FundSui
  <2>4. wal' <= wal + SwapSui * (Landed(pending', lost) - Landed(pending, lost))
    BY <1>1, <1>2, <2>2, <2>3
  <2>5. CASE StorePays
    BY <1>1, <2>1, <2>3, <2>4, <2>5, BalanceMoves DEF StorePays
  <2>6. CASE GasPays
    BY <1>1, <2>1, <2>3, <2>4, <2>6, SpendKeeps, BalanceMoves DEF GasPays
  <2>7. CASE FundSui
    <3>1. sui' \in Nat /\ sui' >= sui
      BY <1>1, <2>7, WalAssumption DEF FundSui
    <3>2. \A c \in WalCallers : topUp[c].gone \in Nat
      BY <1>1 DEF Runs
    <3>3. \A c \in WalCallers : Reserve(topUp[c], sui) => Reserve(topUp[c], sui')
      BY <1>1, <3>1, <3>2, WalAssumption DEF Reserve
    <3> QED BY <1>1, <2>1, <2>3, <2>4, <2>7, <3>1, <3>3, BalanceMoves DEF FundSui
  <2> QED BY <1>4, <2>5, <2>6, <2>7
<1> QED BY <1>3, <1>4

\* A run moves on: no other is under way.
LEMMA RunMoves ==
    ASSUME WalInv, NEW c \in WalCallers, NEW r \in Runs, topUp' = [topUp EXCEPT ![c] = r],
           inFlight' \in WalCallers \union {NoRun},
           r.pc \in {"readWal", "readSui", "swap", "confirm"} => inFlight' = c,
           inFlight' = inFlight \/ inFlight = NoRun,
           Shortage(r, wal, Landed(pending, lost)), Reserve(r, sui),
           UNCHANGED <<wal, sui, pending, lost>>
    PROVE  WalInv'
<1>1. topUp' \in [WalCallers -> Runs]
  BY DEF WalInv, WalTypes
<1>2. \A d \in WalCallers : topUp'[d] = IF d = c THEN r ELSE topUp[d]
  BY DEF WalInv, WalTypes
<1>3. WalTypes'
  BY <1>1 DEF WalInv, WalTypes
<1>4. OneRun'
  BY <1>2, WalAssumption DEF WalInv, OneRun
<1>5. \A d \in WalCallers : Shortage(topUp'[d], wal, Landed(pending, lost)) /\ Reserve(topUp'[d], sui)
  BY <1>2 DEF WalInv
<1> QED BY <1>3, <1>4, <1>5 DEF WalInv

\* The run is over, for its owner and for all that joined.
LEMMA RunSettles ==
    ASSUME WalInv, NEW c \in WalCallers, Settled(c), inFlight = c, UNCHANGED <<wal, sui>>,
           pending' \in BOOLEAN, lost' \in Nat, pending' => lost' >= 1,
           Landed(pending', lost') = Landed(pending, lost)
    PROVE  WalInv'
<1>1. Resting \in Runs /\ Resting.pc = "idle"
  BY DEF Resting, Runs, NoReading
<1>2. \A d \in WalCallers : topUp'[d] = IF d = c \/ topUp[d].pc = "joined" THEN Resting ELSE topUp[d]
  BY DEF Settled
<1>3. topUp' \in [WalCallers -> Runs] /\ inFlight' = NoRun
  BY <1>1, <1>2 DEF Settled, WalInv, WalTypes
<1>4. WalTypes'
  BY <1>3 DEF WalInv, WalTypes
<1>5. OneRun'
  BY <1>1, <1>2 DEF WalInv, OneRun
<1>6. \A w, n, s : Shortage(Resting, w, n) /\ Reserve(Resting, s)
  BY <1>1 DEF Shortage, Reserve
<1>7. \A d \in WalCallers : Shortage(topUp'[d], wal', Landed(pending', lost')) /\ Reserve(topUp'[d], sui')
  BY <1>2, <1>6 DEF WalInv
<1> QED BY <1>4, <1>5, <1>7 DEF WalInv

LEMMA RunSteps ==
    ASSUME WalInv, NEW c \in WalCallers,
           ensureWal(c) \/ readWal(c) \/ readSui(c) \/ SwapFails(c) \/ Confirm(c)
    PROVE  WalInv'
<1>1. topUp[c] \in Runs /\ topUp \in [WalCallers -> Runs]
  BY DEF WalInv, WalTypes
<1>2. topUp[c].pc \in {"readWal", "readSui", "swap", "confirm"} => inFlight = c
  BY DEF WalInv, OneRun
<1>3. CASE ensureWal(c)
  <2> DEFINE pc == IF inFlight = NoRun THEN "readWal" ELSE "joined"
             r  == [topUp[c] EXCEPT !.pc = pc]
  <2>1. pc \in {"readWal", "joined"} /\ (pc = "readWal" => inFlight = NoRun)
    OBVIOUS
  <2>2. topUp' = [topUp EXCEPT ![c] = r]
    BY <1>1, <1>3 DEF ensureWal
  <2>3. inFlight' = IF inFlight = NoRun THEN c ELSE inFlight
    BY <1>3 DEF ensureWal
  <2> HIDE DEF pc
  <2>4. r \in Runs /\ r.pc = pc
    BY <1>1, <2>1 DEF Runs
  <2> HIDE DEF r
  <2>5. Shortage(r, wal, Landed(pending, lost)) /\ Reserve(r, sui)
    BY <2>1, <2>4 DEF Shortage, Reserve
  <2>6. r.pc \in {"readWal", "readSui", "swap", "confirm"} => inFlight' = c
    BY <2>1, <2>3, <2>4
  <2>7. inFlight' \in WalCallers \union {NoRun} /\ (inFlight' = inFlight \/ inFlight = NoRun)
    BY <2>3 DEF WalInv, WalTypes
  <2> QED BY <1>3, <2>2, <2>4, <2>5, <2>6, <2>7, RunMoves DEF ensureWal
<1>4. CASE Settled(c) /\ ~ ensureWal(c)
  <2>1. inFlight = c /\ UNCHANGED <<wal, sui>>
    BY <1>2, <1>4 DEF readWal, readSui, SwapFails, Confirm
  <2>2. \/ UNCHANGED <<pending, lost>>
        \/ pending = FALSE /\ pending' = TRUE /\ lost' = lost + 1
    BY <1>4 DEF readWal, readSui, SwapFails, Confirm, WalInv, WalTypes
  <2>3. pending' \in BOOLEAN /\ lost' \in Nat /\ (pending' => lost' >= 1)
        /\ Landed(pending', lost') = Landed(pending, lost)
    <3>1. pending \in BOOLEAN /\ lost \in Nat /\ (pending => lost >= 1)
      BY DEF WalInv, WalTypes
    <3>2. CASE UNCHANGED <<pending, lost>>
      BY <3>1, <3>2
    <3>3. CASE pending = FALSE /\ pending' = TRUE /\ lost' = lost + 1
      BY <3>1, <3>3 DEF Landed
    <3> QED BY <2>2, <3>2, <3>3
  <2> QED BY <1>4, <2>1, <2>3, RunSettles
<1>5. CASE readWal(c) /\ ~ Settled(c)
  <2> DEFINE r == [topUp[c] EXCEPT !.pc = "readSui", !.wal = wal]
  <2>1. wal \in Nat
    BY DEF WalInv, WalTypes
  <2>2. topUp' = [topUp EXCEPT ![c] = r] /\ inFlight' = inFlight
    BY <1>1, <1>5, Zenon DEF readWal
  <2>3. r \in Runs /\ r.pc = "readSui" /\ r.wal = wal
    <3>1. PICK w \in Int : w = wal
      BY <2>1
    <3>2. r = [topUp[c] EXCEPT !.pc = "readSui", !.wal = w]
      BY <3>1
    <3>3. r \in Runs
      BY <1>1, <3>2 DEF Runs
    <3>4. r.pc = "readSui" /\ r.wal = w
      BY <1>1, <3>2 DEF Runs
    <3> QED BY <3>1, <3>3, <3>4
  <2> HIDE DEF r
  <2>4. Reserve(r, sui)
    BY <2>3 DEF Reserve
  <2>5. Shortage(r, wal, Landed(pending, lost))
    BY <2>1, <2>3, LandedType, Product, WalAssumption DEF Shortage
  <2>6. inFlight = c
    BY <1>2, <1>5 DEF readWal
  <2> QED BY <1>5, <2>2, <2>3, <2>4, <2>5, <2>6, RunMoves DEF readWal
<1>6. CASE readSui(c) /\ ~ Settled(c)
  <2> DEFINE r == [topUp[c] EXCEPT !.pc = "swap"]
  <2>1. /\ Swappable(topUp[c].wal, sui) \/ Swappable(topUp[c].wal, NoReading)
        /\ topUp' = [topUp EXCEPT ![c].pc = "swap"] /\ inFlight' = inFlight
    BY <1>6 DEF readSui
  <2>2. topUp[c].wal < WalFloor /\ sui >= SwapSui + SuiReserve
    BY <2>1 DEF Swappable, NoReading
  <2>3. topUp' = [topUp EXCEPT ![c] = r]
    BY <1>1, <2>1
  <2>4. r \in Runs /\ r.pc = "swap" /\ r.gone \in Nat
    BY <1>1 DEF Runs
  <2> HIDE DEF r
  <2>5. Reserve(r, sui)
    BY <2>2, <2>4, WalAssumption DEF Reserve, WalInv, WalTypes
  <2>6. topUp[c].pc = "readSui"
    BY <1>6 DEF readSui
  <2>7. Shortage(r, wal, Landed(pending, lost))
    BY <2>2, <2>6 DEF Shortage, WalInv
  <2>8. inFlight = c
    BY <1>2, <2>6
  <2> QED BY <1>6, <2>1, <2>3, <2>4, <2>5, <2>7, <2>8, RunMoves DEF readSui
<1>7. SwapFails(c) \/ Confirm(c) => Settled(c) /\ ~ ensureWal(c)
  BY DEF SwapFails, Confirm, ensureWal
<1> QED BY <1>3, <1>4, <1>5, <1>6, <1>7

LEMMA SwapStep ==
    ASSUME WalInv, NEW c \in WalCallers, swapSuiForWal(c)
    PROVE  WalInv'
<1> DEFINE r == [topUp[c] EXCEPT !.pc = "confirm"]
           t == [topUp EXCEPT ![c] = r]
<1>1. /\ topUp[c] \in Runs /\ topUp \in [WalCallers -> Runs] /\ sui \in Nat /\ wal \in Nat
      /\ pending \in BOOLEAN /\ lost \in Nat
  BY DEF WalInv, WalTypes
<1>2. r \in Runs /\ r.pc = "confirm"
  BY <1>1 DEF Runs
<1>3. topUp[c].pc = "swap" /\ Spend(SwapSui, t) /\ wal' = wal + SwapSui /\ UNCHANGED <<inFlight, pending, lost>>
  BY <1>1 DEF swapSuiForWal
<1> HIDE DEF r
<1>4. t \in [WalCallers -> Runs] /\ \A d \in WalCallers : t[d] = IF d = c THEN r ELSE topUp[d]
  BY <1>1, <1>2
<1> HIDE DEF t
<1>5. /\ sui' \in Nat /\ topUp' \in [WalCallers -> Runs]
      /\ \A d \in WalCallers : topUp'[d].pc = t[d].pc
  BY <1>1, <1>3, <1>4, SpendKeeps, WalAssumption
<1>6. inFlight = c
  BY <1>3 DEF WalInv, OneRun
<1>7. \A d \in WalCallers : topUp'[d].pc \notin {"readWal", "readSui", "swap"}
  BY <1>2, <1>4, <1>5, <1>6 DEF WalInv, OneRun
<1>8. \A d \in WalCallers : Shortage(topUp'[d], wal', Landed(pending', lost')) /\ Reserve(topUp'[d], sui')
  BY <1>7 DEF Shortage, Reserve
<1>9. PICK n \in Nat : n = Landed(pending, lost)
  BY LandedType
<1>10. wal < WalFloor + SwapSui * n
  BY <1>3, <1>9 DEF WalInv, Shortage
<1>11. wal' < WalFloor + SwapSui * (1 + n)
  BY <1>1, <1>3, <1>10, Product, WalAssumption
<1>12. OneRun'
  BY <1>2, <1>3, <1>4, <1>5, <1>6 DEF WalInv, OneRun
<1>13. WalTypes'
  BY <1>1, <1>3, <1>5, WalAssumption DEF WalInv, WalTypes
<1> QED BY <1>3, <1>8, <1>9, <1>11, <1>12, <1>13 DEF WalInv

\* wal-topup.service.ts: however many stores find WAL low at once, and whichever answers are
\* lost, one shortage is bought for once, and a swap about to be made leaves the gas reserve.
THEOREM TopUpsAreJustified == WalSpec => []SwapsAreJustified
<1>1. WalInit => WalInv
  <2> SUFFICES ASSUME WalInit PROVE WalInv
    OBVIOUS
  <2>1. Resting \in Runs /\ Resting.pc = "idle"
    BY DEF Resting, Runs, NoReading
  <2>2. WalTypes /\ OneRun
    <3>1. wal \in Nat /\ sui \in Nat /\ lost \in Nat /\ inFlight = NoRun
      BY WalAssumption DEF WalInit
    <3>2. pending \in BOOLEAN
      BY DEF WalInit
    <3>3. topUp \in [WalCallers -> Runs] /\ \A c \in WalCallers : topUp[c] = Resting
      BY <2>1 DEF WalInit
    <3> QED BY <2>1, <3>1, <3>2, <3>3 DEF WalTypes, OneRun
  <2>3. Landed(pending, lost) = 0 /\ pending = FALSE
    BY DEF WalInit, Landed
  <2>4. wal < WalFloor + SwapSui * (1 + 0)
    BY WalAssumption DEF WalInit
  <2>5. \A c \in WalCallers : Shortage(topUp[c], wal, 0) /\ Reserve(topUp[c], sui)
    BY <2>1 DEF WalInit, Shortage, Reserve
  <2> QED BY <2>2, <2>3, <2>4, <2>5 DEF WalInv
<1>2. WalInv /\ [WalNext]_walVars => WalInv'
  <2> SUFFICES ASSUME WalInv, [WalNext]_walVars PROVE WalInv'
    OBVIOUS
  <2>1. CASE WalNext
    BY <2>1, Payments, RunSteps, SwapStep DEF WalNext
  <2>2. CASE UNCHANGED walVars
    BY <2>2 DEF walVars, WalInv, WalTypes, OneRun
  <2> QED BY <2>1, <2>2
<1>3. WalInv => SwapsAreJustified
  <2> SUFFICES ASSUME WalInv PROVE SwapsAreJustified
    OBVIOUS
  <2>1. PICK n \in Nat : n = Landed(pending, lost) /\ n <= lost
    BY LandedType
  <2>2. wal \in Nat /\ lost \in Nat /\ wal < WalFloor + SwapSui * (1 + n)
    BY <2>1 DEF WalInv, WalTypes
  <2>3. SwapSui * (1 + n) <= SwapSui * (1 + lost)
    BY <2>1, <2>2, WalAssumption
  <2>4. SwapSui * (1 + n) \in Nat /\ SwapSui * (1 + lost) \in Nat
    BY <2>2, WalAssumption
  <2>5. wal < WalFloor + SwapSui * (1 + lost)
    BY <2>2, <2>3, <2>4, WalAssumption
  <2> QED BY <2>5 DEF SwapsAreJustified, WalInv, Reserve
<1> QED BY <1>1, <1>2, <1>3, PTL DEF WalSpec

-----------------------------------------------------------------------------
(* The canary.                                                             *)

CanaryTypes ==
    /\ probe \in [Chains -> {"idle", "preflight", "submit", "upload", "await"}]
    /\ owed \in [Chains -> Int]
    /\ outcome \in [Chains -> {"none", "skip", "success", "failure"}]
    /\ landed \in [Chains -> BOOLEAN]

CanaryInv == CanaryTypes /\ OutcomesAreTrue

\* Chain c's round trip moves on.
LEMMA TripGoes ==
    ASSUME CanaryInv, NEW c \in Chains, NEW stage \in {"submit", "upload", "await"},
           Goes(c, stage), probe[c] # "idle",
           \/ landed' = landed /\ (stage = "submit" => probe[c] = "preflight")
           \/ landed' = [landed EXCEPT ![c] = FALSE] /\ stage = "upload"
    PROVE  CanaryInv'
<1>1. probe' = [probe EXCEPT ![c] = stage] /\ owed' = owed /\ outcome' = outcome
  BY DEF Goes
<1>2. CanaryTypes'
  BY <1>1 DEF CanaryInv, CanaryTypes
<1>3. \A d \in Chains : probe'[d] = (IF d = c THEN stage ELSE probe[d])
                        /\ (d # c \/ stage # "upload" => landed'[d] = landed[d])
  BY <1>1 DEF CanaryInv, CanaryTypes
<1>4. ASSUME NEW d \in Chains
      PROVE  /\ owed'[d] = (IF probe'[d] = "idle" THEN 0 ELSE 1)
             /\ outcome'[d] = "success" /\ probe'[d] \notin {"upload", "await"} => landed'[d]
  BY <1>1, <1>3 DEF CanaryInv, OutcomesAreTrue
<1> QED BY <1>2, <1>4 DEF CanaryInv, OutcomesAreTrue

\* ... or ends with an outcome.
LEMMA TripEnds ==
    ASSUME CanaryInv, NEW c \in Chains, NEW result \in {"skip", "success", "failure"},
           Ends(c, result), probe[c] # "idle", landed' = landed, result = "success" => landed[c]
    PROVE  CanaryInv'
<1>1. /\ probe' = [probe EXCEPT ![c] = "idle"] /\ owed' = [owed EXCEPT ![c] = @ - 1]
      /\ outcome' = [outcome EXCEPT ![c] = result]
  BY DEF Ends, record
<1>2. CanaryTypes'
  BY <1>1 DEF CanaryInv, CanaryTypes
<1>3. \A d \in Chains \ {c} : probe'[d] = probe[d] /\ owed'[d] = owed[d] /\ outcome'[d] = outcome[d]
  BY <1>1 DEF CanaryInv, CanaryTypes
<1>4. probe'[c] = "idle" /\ owed'[c] = owed[c] - 1 /\ outcome'[c] = result
  BY <1>1 DEF CanaryInv, CanaryTypes
<1>5. owed[c] = 1
  BY DEF CanaryInv, OutcomesAreTrue
<1>6. owed'[c] = 0
  BY <1>4, <1>5
<1>7. ASSUME NEW d \in Chains
      PROVE  /\ owed'[d] = (IF probe'[d] = "idle" THEN 0 ELSE 1)
             /\ outcome'[d] = "success" /\ probe'[d] \notin {"upload", "await"} => landed'[d]
  <2>1. CASE d = c
    BY <1>4, <1>6, <2>1
  <2>2. CASE d # c
    BY <1>3, <2>2 DEF CanaryInv, OutcomesAreTrue
  <2> QED BY <2>1, <2>2
<1> QED BY <1>2, <1>7 DEF CanaryInv, OutcomesAreTrue

LEMMA ScheduleStep ==
    ASSUME CanaryInv, NEW c \in Chains, scheduleChain(c)
    PROVE  CanaryInv'
<1>1. /\ probe[c] = "idle" /\ probe' = [probe EXCEPT ![c] = "preflight"]
      /\ owed' = [owed EXCEPT ![c] = @ + 1] /\ outcome' = outcome /\ landed' = landed
  BY DEF scheduleChain, network
<1>2. CanaryTypes'
  BY <1>1 DEF CanaryInv, CanaryTypes
<1>3. \A d \in Chains \ {c} : probe'[d] = probe[d] /\ owed'[d] = owed[d]
  BY <1>1 DEF CanaryInv, CanaryTypes
<1>4. probe'[c] = "preflight" /\ owed'[c] = owed[c] + 1
  BY <1>1 DEF CanaryInv, CanaryTypes
<1>5. owed[c] = 0
  BY <1>1 DEF CanaryInv, OutcomesAreTrue
<1>6. owed'[c] = 1
  BY <1>4, <1>5
<1>7. ASSUME NEW d \in Chains
      PROVE  /\ owed'[d] = (IF probe'[d] = "idle" THEN 0 ELSE 1)
             /\ outcome'[d] = "success" /\ probe'[d] \notin {"upload", "await"} => landed'[d]
  <2>1. CASE d = c
    BY <1>1, <1>4, <1>6, <2>1 DEF CanaryInv, OutcomesAreTrue
  <2>2. CASE d # c
    BY <1>1, <1>3, <2>2 DEF CanaryInv, OutcomesAreTrue
  <2> QED BY <2>1, <2>2
<1> QED BY <1>2, <1>7 DEF CanaryInv, OutcomesAreTrue

LEMMA TripSteps ==
    ASSUME CanaryInv, NEW c \in Chains, runCycle(c) \/ submit(c) \/ uploadWithRetry(c) \/ awaitProof(c)
    PROVE  CanaryInv'
<1>1. CASE runCycle(c)
  BY <1>1, TripGoes, TripEnds DEF runCycle, network
<1>2. CASE submit(c)
  <2>1. CASE Ends(c, "failure") /\ UNCHANGED network
    BY <1>2, <2>1, TripEnds DEF submit, network
  <2>2. CASE Goes(c, "upload") /\ landed' = [landed EXCEPT ![c] = FALSE]
    BY <1>2, <2>2, TripGoes DEF submit
  <2> QED BY <1>2, <2>1, <2>2 DEF submit
<1>3. CASE uploadWithRetry(c)
  BY <1>3, TripGoes, TripEnds DEF uploadWithRetry, network
<1>4. CASE awaitProof(c)
  BY <1>4, TripEnds DEF awaitProof, network
<1> QED BY <1>1, <1>2, <1>3, <1>4

\* The rest leaves the round trips alone, and a proof that landed stays.
LEMMA NetworkSteps ==
    ASSUME CanaryInv, UNCHANGED trip,
           landed' = landed \/ \E c \in Chains : landed' = [landed EXCEPT ![c] = TRUE]
    PROVE  CanaryInv'
<1>1. probe' = probe /\ owed' = owed /\ outcome' = outcome
  BY DEF trip
<1>2. CanaryTypes'
  BY <1>1 DEF CanaryInv, CanaryTypes
<1>3. \A d \in Chains : landed[d] => landed'[d]
  BY DEF CanaryInv, CanaryTypes
<1> QED BY <1>1, <1>2, <1>3 DEF CanaryInv, OutcomesAreTrue

\* canary main.ts: every tick that starts a round trip is recorded once, on whichever path it
\* ends, and a success is of an intent whose own proof came back.
THEOREM CanaryReportsAreTrue == CanarySpec => []OutcomesAreTrue
<1>1. CanaryInit => CanaryInv
  BY DEF CanaryInit, CanaryInv, CanaryTypes, OutcomesAreTrue
<1>2. CanaryInv /\ [CanaryNext]_canaryVars => CanaryInv'
  <2> SUFFICES ASSUME CanaryInv, [CanaryNext]_canaryVars PROVE CanaryInv'
    OBVIOUS
  <2>1. CASE \E c \in Chains : Probing(c)
    BY <2>1, ScheduleStep, TripSteps DEF Probing
  <2>2. CASE buildProbes \/ Restart \/ GasMoves
    BY <2>2, NetworkSteps DEF buildProbes, Restart, GasMoves, network
  <2>3. ASSUME NEW c \in Chains, Register(c) \/ Land(c) \/ Refill(c)
        PROVE  CanaryInv'
    BY <2>3, NetworkSteps DEF Register, Land, Refill
  <2>4. CASE UNCHANGED canaryVars
    BY <2>4, NetworkSteps DEF canaryVars, trip
  <2>5. ASSUME NEW c \in Chains, Hangs(c)
        PROVE  CanaryInv'
    BY <2>5, NetworkSteps DEF Hangs, network
  <2> QED BY <2>1, <2>2, <2>3, <2>4, <2>5 DEF CanaryNext
<1>3. CanaryInv => OutcomesAreTrue
  BY DEF CanaryInv
<1> QED BY <1>1, <1>2, <1>3, PTL DEF CanarySpec

-----------------------------------------------------------------------------
(* The cached Solana LayerZero fee.                                        *)

FeeTypes ==
    /\ now \in Nat /\ fee \in Fees /\ liveUntil \in [Fees -> Int]
    /\ cached \in [fee : Fees \union {NoFee}, at : Int]
    /\ inflight \in [pc : {"none", "asked", "read"}, fee : Fees \union {NoFee}, at : Int]
    /\ failure \in Int /\ ended \in [at : Int, ok : BOOLEAN]
    /\ caller \in [Callers -> Int]

\* A fee is live up to the moment it is replaced; one that was read was live no earlier than
\* it was asked for, and an answer takes at most MaxLatency.
LiveFee == liveUntil[fee] = now /\ \A f \in Fees : liveUntil[f] <= now

AskedFee ==
    /\ inflight.pc # "none" => inflight.at <= now /\ now - inflight.at <= MaxLatency
    /\ inflight.pc = "read" => inflight.fee \in Fees /\ liveUntil[inflight.fee] >= inflight.at

CachedFee ==
    cached.at # NoTime => cached.fee \in Fees /\ liveUntil[cached.fee] >= cached.at - MaxLatency

\* The last simulation left its answer in the cache, or its failure to be repeated.
LastEnd ==
    ended.at # NoTime => /\ ended.ok => cached.at = ended.at
                         /\ ~ ended.ok => failure = ended.at + RetryAfter

FeeInv == FeeTypes /\ LiveFee /\ AskedFee /\ CachedFee /\ LastEnd

LEMMA FeeConstants ==
    /\ MaxAge \in Nat /\ RetryAfter \in Nat /\ MaxLatency \in Nat
    /\ Fees = {1, 2} /\ NoTime = -1 /\ NoFee = 0 /\ Waiting = -1 /\ Unavailable = -2
  BY QuotesAssumption DEF Fees, NoTime, NoFee, Waiting, Unavailable

LEMMA FeeInit == Init => FeeInv
<1> SUFFICES ASSUME Init PROVE FeeInv
  OBVIOUS
<1>1. FeeTypes
  BY FeeConstants DEF Init, FeeTypes
<1>2. LiveFee
  BY FeeConstants DEF Init, LiveFee
<1>3. AskedFee /\ CachedFee /\ LastEnd
  BY DEF Init, AskedFee, CachedFee, LastEnd
<1> QED BY <1>1, <1>2, <1>3 DEF FeeInv

\* The clock and the fee move on: what was live at some moment still was.
LEMMA FeeWorldSteps ==
    ASSUME FeeInv, Tick \/ FeeMoves
    PROVE  FeeInv'
<1>1. UNCHANGED <<cached, inflight, failure, ended, caller>>
  BY DEF Tick, FeeMoves, lzFee
<1>2. now \in Nat /\ fee \in Fees /\ liveUntil \in [Fees -> Int] /\ inflight.at \in Int
  BY DEF FeeInv, FeeTypes
<1>3. /\ now' \in Nat /\ fee' \in Fees /\ liveUntil' \in [Fees -> Int] /\ LiveFee'
      /\ \A f \in Fees : liveUntil'[f] >= liveUntil[f]
  <2>1. CASE Tick
    <3>1. now' = now + 1 /\ fee' = fee /\ liveUntil' = [liveUntil EXCEPT ![fee] = now + 1]
      BY <2>1 DEF Tick
    <3> QED BY <1>2, <3>1 DEF FeeInv, LiveFee
  <2>2. CASE FeeMoves
    <3>1. now' = now /\ fee' = 3 - fee /\ liveUntil' = [liveUntil EXCEPT ![fee'] = now]
      BY <2>2 DEF FeeMoves
    <3>2. fee' \in Fees
      BY <1>2, <3>1, FeeConstants
    <3> QED BY <1>2, <3>1, <3>2 DEF FeeInv, LiveFee
  <2> QED BY <2>1, <2>2
<1>4. inflight.pc # "none" => inflight.at <= now' /\ now' - inflight.at <= MaxLatency
  BY <1>2, FeeConstants DEF FeeInv, AskedFee, Tick, FeeMoves, Idle
<1>5. FeeTypes' /\ LastEnd'
  BY <1>1, <1>3 DEF FeeInv, FeeTypes, LastEnd
<1>6. AskedFee'
  BY <1>1, <1>2, <1>3, <1>4 DEF FeeInv, AskedFee
<1>7. CachedFee'
  <2>1. cached.at \in Int
    BY DEF FeeInv, FeeTypes
  <2> QED BY <1>1, <1>2, <1>3, <2>1, FeeConstants DEF FeeInv, CachedFee
<1> QED BY <1>3, <1>5, <1>6, <1>7 DEF FeeInv

LEMMA FeeAskStep ==
    ASSUME FeeInv, NEW c \in Callers, Ask(c)
    PROVE  FeeInv'
<1>1. UNCHANGED <<now, fee, liveUntil, cached, failure, ended>>
  BY DEF Ask, solanaFee, world
<1>2. inflight' = inflight \/ inflight' = [pc |-> "asked", fee |-> NoFee, at |-> now]
  BY DEF Ask, solanaFee
<1>3. caller' \in [Callers -> Int]
  <2>1. cached.fee \in Int
    BY FeeConstants DEF FeeInv, FeeTypes
  <2> QED BY <2>1, FeeConstants DEF Ask, solanaFee, FeeInv, FeeTypes
<1>4. inflight' \in [pc : {"none", "asked", "read"}, fee : Fees \union {NoFee}, at : Int]
  BY <1>2 DEF FeeInv, FeeTypes
<1>5. AskedFee'
  <2>1. CASE inflight' = inflight
    BY <1>1, <2>1 DEF FeeInv, AskedFee
  <2>2. CASE inflight' = [pc |-> "asked", fee |-> NoFee, at |-> now]
    <3>1. inflight'.at <= now' /\ now' - inflight'.at = 0 /\ inflight'.pc = "asked"
      BY <1>1, <2>2 DEF FeeInv, FeeTypes
    <3> QED BY <3>1, FeeConstants DEF AskedFee
  <2> QED BY <1>2, <2>1, <2>2
<1> QED BY <1>1, <1>3, <1>4, <1>5 DEF FeeInv, FeeTypes, LiveFee, CachedFee, LastEnd

LEMMA FeeReadStep ==
    ASSUME FeeInv, quoteSolanaLzFeeLamports
    PROVE  FeeInv'
<1>1. UNCHANGED <<now, fee, liveUntil, cached, failure, ended, caller>>
  BY DEF quoteSolanaLzFeeLamports, world
<1>2. inflight.pc = "asked" /\ inflight' = [inflight EXCEPT !.pc = "read", !.fee = fee]
  BY DEF quoteSolanaLzFeeLamports
<1>3. fee \in Fees /\ inflight.at \in Int /\ now \in Nat
  BY DEF FeeInv, FeeTypes
<1>4. inflight' \in [pc : {"none", "asked", "read"}, fee : Fees \union {NoFee}, at : Int]
  BY <1>2, <1>3 DEF FeeInv, FeeTypes
<1>5. inflight'.fee = fee /\ inflight'.at = inflight.at /\ inflight'.pc = "read"
  BY <1>2 DEF FeeInv, FeeTypes
<1>6. inflight.at <= now /\ now - inflight.at <= MaxLatency
  BY <1>2 DEF FeeInv, AskedFee
<1>7. AskedFee'
  BY <1>1, <1>3, <1>5, <1>6 DEF AskedFee, FeeInv, LiveFee
<1> QED BY <1>1, <1>4, <1>7 DEF FeeInv, FeeTypes, LiveFee, CachedFee, LastEnd

LEMMA FeeEndSteps ==
    ASSUME FeeInv, simulate \/ refresh
    PROVE  FeeInv'
<1>1. UNCHANGED <<now, fee, liveUntil>> /\ now \in Nat /\ inflight.at \in Int
  BY DEF simulate, refresh, world, FeeInv, FeeTypes
<1>2. inflight' = [pc |-> "none", fee |-> NoFee, at |-> NoTime]
  BY DEF simulate, refresh, Settle
<1>3. inflight' \in [pc : {"none", "asked", "read"}, fee : Fees \union {NoFee}, at : Int] /\ AskedFee'
  BY <1>2, FeeConstants DEF AskedFee
<1>4. caller' \in [Callers -> Int]
  <2>1. \E answer \in Int : Settle(answer)
    BY FeeConstants DEF simulate, refresh, FeeInv, FeeTypes, AskedFee
  <2> QED BY <2>1 DEF Settle, FeeInv, FeeTypes
<1>5. CASE simulate
  <2>1. /\ cached' = [fee |-> inflight.fee, at |-> now] /\ failure' = NoTime
        /\ ended' = [at |-> now, ok |-> TRUE]
    BY <1>5 DEF simulate
  <2>2. /\ inflight.fee \in Fees /\ liveUntil[inflight.fee] >= inflight.at
        /\ now - inflight.at <= MaxLatency
    BY <1>5 DEF simulate, FeeInv, AskedFee
  <2>3. liveUntil[inflight.fee] \in Int
    BY <2>2 DEF FeeInv, FeeTypes
  <2>4. CachedFee'
    BY <1>1, <2>1, <2>2, <2>3, FeeConstants DEF CachedFee
  <2>5. LastEnd'
    BY <2>1 DEF LastEnd
  <2>6. cached' \in [fee : Fees \union {NoFee}, at : Int] /\ ended' \in [at : Int, ok : BOOLEAN] /\ failure' \in Int
    BY <1>1, <2>1, <2>2, FeeConstants
  <2> QED BY <1>1, <1>3, <1>4, <2>4, <2>5, <2>6 DEF FeeInv, FeeTypes, LiveFee
<1>6. CASE refresh
  <2>1. cached' = cached /\ failure' = now + RetryAfter /\ ended' = [at |-> now, ok |-> FALSE]
    BY <1>6 DEF refresh
  <2>2. LastEnd'
    BY <2>1 DEF LastEnd
  <2>3. ended' \in [at : Int, ok : BOOLEAN] /\ failure' \in Int
    BY <1>1, <2>1, FeeConstants
  <2> QED BY <1>1, <1>3, <1>4, <2>1, <2>2, <2>3 DEF FeeInv, FeeTypes, LiveFee, CachedFee
<1> QED BY <1>5, <1>6

\* Every other step leaves the fee service and what it reads alone.
LEMMA OtherQuoteSteps ==
    ASSUME Next
    PROVE  \/ Tick \/ FeeMoves \/ quoteSolanaLzFeeLamports \/ simulate \/ refresh
           \/ \E c \in Callers : Ask(c)
           \/ UNCHANGED <<now, fee, liveUntil, lzFee>>
<1>1. \A t, p : MarketMoves(t, p) => UNCHANGED <<now, fee, liveUntil, lzFee>>
  BY DEF MarketMoves
<1>2. \A s : Publish(s) => UNCHANGED <<now, fee, liveUntil, lzFee>>
  BY DEF Publish
<1>3. \A s, t, pct : Glitch(s, t, pct) => UNCHANGED <<now, fee, liveUntil, lzFee>>
  BY DEF Glitch
<1>4. \A w, r : ChainMoves(w, r) => UNCHANGED <<now, fee, liveUntil, lzFee>>
  BY DEF ChainMoves
<1>5. \A e : getQuote(e) => UNCHANGED <<now, fee, liveUntil, lzFee>>
  BY DEF getQuote, world
<1>6. CheckBreakEven \/ RejectEpochs => UNCHANGED <<now, fee, liveUntil, lzFee>>
  BY DEF CheckBreakEven, RejectEpochs, world
<1> QED BY <1>1, <1>2, <1>3, <1>4, <1>5, <1>6, Zenon DEF Next

LEMMA FeeStep == FeeInv /\ [Next]_vars => FeeInv'
<1> SUFFICES ASSUME FeeInv, [Next]_vars PROVE FeeInv'
  OBVIOUS
<1>1. CASE UNCHANGED <<now, fee, liveUntil, lzFee>>
  BY <1>1 DEF lzFee, FeeInv, FeeTypes, LiveFee, AskedFee, CachedFee, LastEnd
<1>2. CASE UNCHANGED vars
  BY <1>1, <1>2 DEF vars, world
<1>3. CASE Next
  BY <1>1, <1>3, OtherQuoteSteps, FeeWorldSteps, FeeAskStep, FeeReadStep, FeeEndSteps
<1> QED BY <1>2, <1>3

\* solana-lz-fee.service.ts: a fee that is served was the chain's fee within the cache's age
\* and the time an answer may take, however many callers share a simulation.
THEOREM ServedFeeIsRecent == Spec => FeeIsRecent
<1>1. FeeInv /\ [Next]_vars =>
         [\A c \in Callers : caller'[c] \in Fees /\ caller'[c] # caller[c] =>
             liveUntil[caller'[c]] >= now - MaxAge - MaxLatency]_vars
  <2> SUFFICES ASSUME FeeInv, Next, NEW c \in Callers, caller'[c] \in Fees, caller'[c] # caller[c]
               PROVE  liveUntil[caller'[c]] >= now - MaxAge - MaxLatency
    OBVIOUS
  <2>1. now \in Nat /\ \A f \in Fees : liveUntil[f] \in Int
    BY DEF FeeInv, FeeTypes
  <2>2. ASSUME NEW d \in Callers, Ask(d)
        PROVE  liveUntil[caller'[c]] >= now - MaxAge - MaxLatency
    <3>1. d = c /\ cached.at # NoTime /\ now - cached.at < MaxAge /\ caller'[c] = cached.fee
      BY <2>2, FeeConstants DEF Ask, solanaFee, FeeInv, FeeTypes
    <3>2. cached.at \in Int
      BY DEF FeeInv, FeeTypes
    <3>3. cached.fee \in Fees /\ liveUntil[cached.fee] >= cached.at - MaxLatency
      BY <3>1 DEF FeeInv, CachedFee
    <3>4. liveUntil[cached.fee] >= now - MaxAge - MaxLatency
      BY <2>1, <3>1, <3>2, <3>3, FeeConstants
    <3> QED BY <3>1, <3>4
  <2>3. CASE simulate
    <3>1. caller'[c] = inflight.fee /\ inflight.pc = "read"
      BY <2>3 DEF simulate, Settle, FeeInv, FeeTypes
    <3>2. inflight.at \in Int
      BY DEF FeeInv, FeeTypes
    <3>3. /\ inflight.fee \in Fees /\ liveUntil[inflight.fee] >= inflight.at
          /\ now - inflight.at <= MaxLatency
      BY <3>1 DEF FeeInv, AskedFee
    <3>4. liveUntil[inflight.fee] >= now - MaxAge - MaxLatency
      BY <2>1, <3>2, <3>3, FeeConstants
    <3> QED BY <3>1, <3>4
  <2>4. CASE refresh
    BY <2>4, FeeConstants DEF refresh, Settle, FeeInv, FeeTypes
  <2>5. CASE caller' = caller
    BY <2>5
  <2>6. Tick \/ FeeMoves \/ quoteSolanaLzFeeLamports \/ UNCHANGED <<now, fee, liveUntil, lzFee>> =>
           caller' = caller
    BY DEF Tick, FeeMoves, quoteSolanaLzFeeLamports, lzFee
  <2> QED BY <2>2, <2>3, <2>4, <2>5, <2>6, OtherQuoteSteps
<1> QED BY <1>1, FeeInit, FeeStep, PTL DEF Spec, FeeIsRecent

\* ... and a simulation is started only when the last one is old enough: MaxAge after an
\* answer, RetryAfter after a failure.
THEOREM SimulationsAreRare == Spec => SimulationsAreSpaced
<1>1. FeeInv /\ [Next]_vars =>
         [Idle /\ inflight'.pc = "asked" /\ ended.at # NoTime =>
             now - ended.at >= (IF ended.ok THEN MaxAge ELSE RetryAfter)]_vars
  <2> SUFFICES ASSUME FeeInv, Next, Idle, inflight'.pc = "asked", ended.at # NoTime
               PROVE  now - ended.at >= (IF ended.ok THEN MaxAge ELSE RetryAfter)
    OBVIOUS
  <2>1. now \in Nat /\ cached.at \in Int /\ failure \in Int /\ ended.at \in Int /\ ended.ok \in BOOLEAN
    BY DEF FeeInv, FeeTypes
  <2>2. ASSUME NEW c \in Callers, Ask(c)
        PROVE  now - ended.at >= (IF ended.ok THEN MaxAge ELSE RetryAfter)
    <3>1. caller'[c] = Waiting
      BY <2>2 DEF Ask, solanaFee, Idle
    <3>2. ~ (cached.at # NoTime /\ now - cached.at < MaxAge) /\ ~ (now < failure)
      <4>1. caller'[c] = IF cached.at # NoTime /\ now - cached.at < MaxAge THEN cached.fee
                         ELSE IF now < failure THEN Unavailable ELSE Waiting
        BY <2>2 DEF Ask, solanaFee, FeeInv, FeeTypes
      <4>2. cached.fee \in {0, 1, 2}
        BY FeeConstants DEF FeeInv, FeeTypes
      <4>3. Waiting # Unavailable /\ Waiting \notin {0, 1, 2}
        BY DEF Waiting, Unavailable
      <4>4. CASE cached.at # NoTime /\ now - cached.at < MaxAge
        <5>1. caller'[c] = cached.fee
          BY <4>1, <4>4
        <5> QED BY <3>1, <4>2, <4>3, <5>1
      <4>5. CASE ~ (cached.at # NoTime /\ now - cached.at < MaxAge) /\ now < failure
        <5>1. caller'[c] = Unavailable
          BY <4>1, <4>5
        <5> QED BY <3>1, <4>3, <5>1
      <4> QED BY <4>4, <4>5
    <3>3. (ended.ok => cached.at = ended.at) /\ (~ ended.ok => failure = ended.at + RetryAfter)
      BY DEF FeeInv, LastEnd
    <3> QED BY <2>1, <3>2, <3>3, FeeConstants
  <2>3. inflight'.pc # inflight.pc
    BY DEF Idle
  <2>4. Tick \/ FeeMoves \/ UNCHANGED <<now, fee, liveUntil, lzFee>> => inflight' = inflight
    BY DEF Tick, FeeMoves, lzFee
  <2>5. ~ simulate /\ ~ quoteSolanaLzFeeLamports /\ ~ refresh
    BY DEF simulate, quoteSolanaLzFeeLamports, refresh, Idle
  <2> QED BY <2>2, <2>3, <2>4, <2>5, OtherQuoteSteps
<1> QED BY <1>1, FeeInit, FeeStep, PTL DEF Spec, SimulationsAreSpaced

-----------------------------------------------------------------------------
(* Quotes and the check made against them.                                 *)

LEMMA Division ==
    ASSUME NEW n \in Nat, NEW d \in Nat \ {0}
    PROVE  /\ n \div d \in Nat /\ (n \div d) * d <= n /\ n < (n \div d) * d + d
  OBVIOUS

\* usdToNative rounds up.
LEMMA RoundedUp ==
    ASSUME NEW usd \in Nat, NEW price \in Nat \ {0}
    PROVE  /\ usdToNative(usd, price) \in Nat
           /\ usdToNative(usd, price) * (price * 1000000) >= usd
<1>1. PICK d \in Nat \ {0} : d = price * 1000000
  BY SMT
<1>2. PICK n \in Nat : n = usd + d - 1
  BY <1>1, SMT
<1>3. usdToNative(usd, price) = n \div d
  BY <1>1, <1>2, SMT DEF usdToNative
<1>4. PICK q \in Nat : q = n \div d /\ q * d <= n /\ n < q * d + d
  BY Division, SMT
<1>5. q * d >= usd
  BY <1>2, <1>4, SMT
<1> QED BY <1>1, <1>3, <1>4, <1>5, SMT

LEMMA BufferedIs ==
    ASSUME NEW w \in Nat, NEW p \in [Tokens -> Nat]
    PROVE  /\ Buffered(w, p) = w * p["WAL"] * 11000 + ReturnLzFee * p["SUI"] * 12600 + SuiGas * p["SUI"] * 12600
           /\ Buffered(w, p) \in Nat
<1>1. p["WAL"] \in Nat /\ p["SUI"] \in Nat /\ ReturnLzFee \in Nat /\ SuiGas \in Nat
  BY QuotesAssumption, SMT DEF Tokens
<1>2. /\ engineConfig.wal = 10 /\ engineConfig.returnLeg = 20 /\ engineConfig.suiGas = 20
      /\ engineConfig.crossRate = 5
  BY SMT DEF engineConfig
<1>3. Buffered(w, p) = w * p["WAL"] * 110 * 100 + ReturnLzFee * p["SUI"] * 120 * 105 + SuiGas * p["SUI"] * 120 * 105
  BY <1>1, <1>2, SMT DEF Buffered, amountToUsd, Plus
<1> QED BY <1>1, <1>3, SMT

\* The escrow a quote asks for covers the buffered costs with the margin.
LEMMA EscrowCovers ==
    ASSUME NEW w \in Nat, NEW p \in [Tokens -> Nat \ {0}]
    PROVE  /\ escrowNative(w, p) \in Nat
           /\ escrowNative(w, p) * (p[Origin] * 1000000) >= Buffered(w, p) * 115
<1>1. p[Origin] \in Nat \ {0} /\ p \in [Tokens -> Nat]
  BY SMT DEF Origin, Tokens
<1>2. PICK b \in Nat : b = Buffered(w, p)
  BY <1>1, BufferedIs, SMT
<1>3. PICK u \in Nat : u = IF b < MinCharge * 10000 THEN MinCharge * 10000 ELSE b
  BY QuotesAssumption, SMT
<1>4. u >= b
  BY <1>3, QuotesAssumption, SMT
<1>5. PICK v \in Nat : v = u * 115
  BY SMT
<1>9. PICK x \in Nat \ {0} : x = p[Origin]
  BY <1>1, Zenon
<1>6. escrowNative(w, p) = usdToNative(v, x)
  <2>1. Plus(engineConfig.margin) = 115
    BY SMT DEF Plus, engineConfig
  <2> QED BY <1>2, <1>3, <1>5, <1>9, <2>1, SMT DEF escrowNative
<1>10. usdToNative(v, x) \in Nat /\ usdToNative(v, x) * (x * 1000000) >= v
  BY RoundedUp, SMT
<1>7. PICK e \in Nat : e = usdToNative(v, x) /\ e * (x * 1000000) >= v
  BY <1>10, SMT
<1>8. e * (x * 1000000) >= b * 115
  BY <1>4, <1>5, <1>7, SMT
<1> QED BY <1>2, <1>5, <1>6, <1>7, <1>8, <1>9, SMT

LEMMA Scaled ==
    ASSUME NEW k \in Nat, NEW x \in Nat, NEW y \in Nat, x <= y
    PROVE  k * x <= k * y
  BY SMT

LEMMA Cancelled ==
    ASSUME NEW k \in Nat \ {0}, NEW x \in Nat, NEW y \in Nat, x * k <= y * k
    PROVE  x <= y
  BY SMT

\* An escrow e that covers the buffered costs at the quote's prices (q: the origin token's, a:
\* the WAL cost, s: SUI's) breaks even at prices that rose within the buffers (d, x, t).
LEMMA BuffersSuffice ==
    ASSUME NEW e \in Nat, NEW a \in Nat, NEW s \in Nat, NEW q \in Nat \ {0}, NEW n \in Nat,
           NEW x \in Nat, NEW t \in Nat, NEW d \in Nat,
           e * (q * 1000000) >= (a * 11000 + n * s * 12600) * 115,
           11000 * (x * q) <= 12650 * (a * d),
           11000 * (t * q) <= 14490 * (s * d)
    PROVE  100 * (e * d) >= 110 * (x + n * t)
<1>1. PICK eq \in Nat, ad \in Nat, nsd \in Nat, xq \in Nat, ntq \in Nat :
         /\ eq = e * d * q /\ ad = a * d /\ nsd = n * (s * d) /\ xq = x * q /\ ntq = n * (t * q)
  BY SMT
<1>2. 1000000 * eq >= 1265000 * ad + 1449000 * nsd
  <2>1. PICK l \in Nat, r \in Nat : l = e * (q * 1000000) /\ r = (a * 11000 + n * s * 12600) * 115
    BY SMT
  <2>2. d * r <= d * l
    BY <2>1, Scaled, SMT
  <2>3. d * l = 1000000 * eq
    BY <1>1, <2>1, SMT
  <2>4. d * r = 1265000 * ad + 1449000 * nsd
    BY <1>1, <2>1, SMT
  <2> QED BY <2>2, <2>3, <2>4, SMT
<1>3. 11000 * xq <= 12650 * ad
  BY <1>1, SMT
<1>4. 11000 * ntq <= 14490 * nsd
  <2>1. PICK l \in Nat, r \in Nat : l = 11000 * (t * q) /\ r = 14490 * (s * d)
    BY SMT
  <2>2. n * l <= n * r
    BY <2>1, Scaled, SMT
  <2>3. n * l = 11000 * ntq
    BY <1>1, <2>1, SMT
  <2>4. n * r = 14490 * nsd
    BY <1>1, <2>1, SMT
  <2> QED BY <2>2, <2>3, <2>4, SMT
<1>5. 110 * (xq + ntq) <= 100 * eq
  BY <1>2, <1>3, <1>4, SMT
<1>6. PICK l \in Nat, r \in Nat : l = 110 * (x + n * t) /\ r = 100 * (e * d)
  BY SMT
<1>7. l * q = 110 * (xq + ntq) /\ r * q = 100 * eq
  BY <1>1, <1>6, SMT
<1>8. l <= r
  BY <1>5, <1>7, Cancelled, SMT
<1> QED BY <1>6, <1>8, SMT

\* What breaks even at prices p is worth a known share at prices h that are within 15%.
LEMMA DeviationCosts ==
    ASSUME NEW e \in Nat, NEW w \in Nat, NEW n \in Nat,
           NEW pe \in Nat, NEW he \in Nat, 100 * pe <= 115 * he,
           NEW pw \in Nat, NEW hw \in Nat, 100 * hw <= 115 * pw,
           NEW ps \in Nat, NEW hs \in Nat, 100 * hs <= 115 * ps,
           100 * (e * pe) >= 110 * (w * pw + n * ps)
    PROVE  115 * 115 * (e * he) >= 110 * 100 * (w * hw + n * hs)
<1>1. ASSUME NEW k \in Nat, NEW x \in Nat, NEW y \in Nat, 100 * x <= 115 * y
      PROVE  100 * (k * x) <= 115 * (k * y)
  <2>1. k * (100 * x) <= k * (115 * y)
    BY <1>1, Scaled, SMT
  <2> QED BY <2>1, SMT
<1>2. PICK epe \in Nat, ehe \in Nat, wpw \in Nat, whw \in Nat, nps \in Nat, nhs \in Nat :
         /\ epe = e * pe /\ ehe = e * he /\ wpw = w * pw /\ whw = w * hw /\ nps = n * ps /\ nhs = n * hs
  BY SMT
<1>3. 100 * epe <= 115 * ehe /\ 100 * whw <= 115 * wpw /\ 100 * nhs <= 115 * nps
  BY <1>1, <1>2, SMT
<1>4. 100 * epe >= 110 * (wpw + nps)
  BY <1>2, SMT
<1>5. 115 * 115 * ehe >= 110 * 100 * (whw + nhs)
  BY <1>3, <1>4, SMT
<1> QED BY <1>2, <1>5, SMT

PriceTypes ==
    /\ now \in Nat /\ market \in PriceSet
    /\ feed \in [Sources -> [Tokens -> [usd : Nat, at : Int]]]
    /\ walrus \in [price : Nat, ahead : Nat]

\* What reconcile() answers with is positive and, when another feed is fresh, within 15% of it.
LEMMA Reconciled ==
    ASSUME PriceTypes, NEW answers, NEW t \in Tokens, reconcile(t, answers) # {}
    PROVE  LET usd == CHOOSE x \in reconcile(t, answers) : TRUE
           IN  /\ usd \in Nat \ {0}
               /\ \A s \in Points(t, answers) : /\ 100 * usd <= 115 * feed[s][t].usd
                                                /\ 100 * feed[s][t].usd <= 115 * usd
<1>1. PICK fresh : fresh = Points(t, answers)
  OBVIOUS
<1>2. PICK from : from = IF "pyth" \in fresh THEN "pyth" ELSE "coingecko"
  OBVIOUS
<1>3. PICK usd : usd = feed[from][t].usd
  OBVIOUS
<1>4. /\ fresh # {} /\ assertSane(usd) /\ reconcile(t, answers) = {usd}
      /\ ~ (fresh = Sources /\ Deviates(feed["pyth"][t].usd, feed["coingecko"][t].usd))
  BY <1>1, <1>2, <1>3 DEF reconcile
<1>5. (CHOOSE x \in reconcile(t, answers) : TRUE) = usd
  <2>1. (CHOOSE x \in {usd} : TRUE) = usd
    BY Zenon
  <2> QED BY <1>4, <2>1, Zenon
<1>6. fresh \subseteq Sources /\ Sources = {"pyth", "coingecko"}
  BY <1>1 DEF Points, Sources
<1>7. \A s \in Sources : feed[s][t].usd \in Nat
  BY DEF PriceTypes
<1>8. from \in fresh
  BY <1>2, <1>4, <1>6
<1>9. usd \in Nat \ {0}
  BY <1>3, <1>4, <1>6, <1>7, <1>8 DEF assertSane
<1>10. ASSUME NEW s \in fresh
       PROVE  /\ 100 * usd <= 115 * feed[s][t].usd
              /\ 100 * feed[s][t].usd <= 115 * usd
  <2>1. CASE s = from
    BY <1>3, <1>9, <2>1, SMT
  <2>2. CASE s # from
    <3>1. s = "coingecko" /\ from = "pyth" /\ fresh = Sources
      BY <1>2, <1>6, <1>8, <1>10, <2>2
    <3>2. PICK c \in Nat : c = feed["coingecko"][t].usd
      BY <1>6, <1>7
    <3>3. ~ Deviates(usd, c)
      BY <1>3, <1>4, <3>1, <3>2
    <3>4. 100 * usd <= 115 * c /\ 100 * c <= 115 * usd
      BY <1>9, <3>3, SMT DEF Deviates
    <3> QED BY <3>1, <3>2, <3>4, SMT
  <2> QED BY <2>1, <2>2
<1> QED BY <1>1, <1>5, <1>9, <1>10

LEMMA PricesAgree ==
    ASSUME PriceTypes, NEW answers, Priced(answers)
    PROVE  /\ getPrices(answers) \in [Tokens -> Nat \ {0}]
           /\ \A s \in Witness(answers), t \in Tokens :
                 /\ 100 * getPrices(answers)[t] <= 115 * feed[s][t].usd
                 /\ 100 * feed[s][t].usd <= 115 * getPrices(answers)[t]
<1>1. ASSUME NEW t \in Tokens
      PROVE  /\ getPrices(answers)[t] \in Nat \ {0}
             /\ \A s \in Points(t, answers) : /\ 100 * getPrices(answers)[t] <= 115 * feed[s][t].usd
                                              /\ 100 * feed[s][t].usd <= 115 * getPrices(answers)[t]
  <2>1. reconcile(t, answers) # {}
    BY DEF Priced
  <2>2. getPrices(answers)[t] = CHOOSE x \in reconcile(t, answers) : TRUE
    BY DEF getPrices
  <2> QED BY <2>1, <2>2, Reconciled
<1>2. \A s \in Witness(answers), t \in Tokens : s \in Points(t, answers)
  BY DEF Witness
<1>3. getPrices(answers) \in [Tokens -> Nat \ {0}]
  BY <1>1 DEF getPrices
<1> QED BY <1>1, <1>2, <1>3

QuoteOk(q) ==
    /\ q.epochs \in Epochs /\ Quotable(q.epochs) /\ q.prices \in [Tokens -> Nat \ {0}]
    /\ q.wal \in Nat /\ q.escrow \in Nat
    /\ q.escrow * (q.prices[Origin] * 1000000) >= Buffered(q.wal, q.prices) * 115

\* A quote is honoured at prices that rose within the buffers.
LEMMA QuoteSuffices ==
    ASSUME NEW q, QuoteOk(q), NEW d, d.wal \in Nat, d.prices \in [Tokens -> Nat \ {0}],
           WithinBuffers(q, d)
    PROVE  evaluateBreakEven(q.escrow, d.wal, ReturnLzFee, d.prices)
<1>1. /\ q.prices["WAL"] \in Nat /\ q.prices["SUI"] \in Nat /\ q.prices[Origin] \in Nat \ {0}
      /\ d.prices["WAL"] \in Nat /\ d.prices["SUI"] \in Nat /\ d.prices[Origin] \in Nat
      /\ q.prices \in [Tokens -> Nat] /\ q.wal \in Nat
  BY SMT DEF QuoteOk, Tokens, Origin
<1>2. q.escrow \in Nat /\ ReturnLzFee \in Nat /\ SuiGas \in Nat
  BY QuotesAssumption, SMT DEF QuoteOk
<1>3. PICK e \in Nat, wq \in Nat, wd \in Nat : e = q.escrow /\ wq = q.wal /\ wd = d.wal
  BY <1>1, <1>2, Zenon
<1>4. PICK pw \in Nat, s \in Nat : pw = q.prices["WAL"] /\ s = q.prices["SUI"]
  BY <1>1, Zenon
<1>5. PICK dw \in Nat, t \in Nat : dw = d.prices["WAL"] /\ t = d.prices["SUI"]
  BY <1>1, Zenon
<1>6. PICK n \in Nat : n = ReturnLzFee + SuiGas
  BY <1>2
<1>7. /\ e = q.escrow /\ wq = q.wal /\ pw = q.prices["WAL"] /\ s = q.prices["SUI"]
      /\ n = ReturnLzFee + SuiGas /\ dw = d.prices["WAL"] /\ t = d.prices["SUI"] /\ wd = d.wal
  BY <1>3, <1>4, <1>5, <1>6
<1>8. PICK o \in Nat \ {0} : o = q.prices[Origin]
  BY <1>1, Zenon
<1>9. PICK p \in Nat : p = d.prices[Origin]
  BY <1>1, Zenon
<1>10. PICK a \in Nat, x \in Nat : a = wq * pw /\ x = wd * dw
  BY SMT
<1>11. Buffered(q.wal, q.prices) = a * 11000 + n * s * 12600
  <2>1. Buffered(q.wal, q.prices) = q.wal * q.prices["WAL"] * 11000 + ReturnLzFee * q.prices["SUI"] * 12600
                                       + SuiGas * q.prices["SUI"] * 12600
    BY <1>1, BufferedIs, SMT
  <2>2. PICK rf \in Nat, g \in Nat : rf = ReturnLzFee /\ g = SuiGas
    BY QuotesAssumption
  <2>3. Buffered(q.wal, q.prices) = wq * pw * 11000 + rf * s * 12600 + g * s * 12600
    BY <1>7, <2>1, <2>2, SMT
  <2>4. n = rf + g
    BY <1>7, <2>2
  <2>5. wq * pw * 11000 + rf * s * 12600 + g * s * 12600 = a * 11000 + n * s * 12600
    BY <1>10, <2>4, SMT
  <2> QED BY <2>3, <2>5, SMT
<1>12. e * (o * 1000000) >= (a * 11000 + n * s * 12600) * 115
  BY <1>7, <1>8, <1>11, SMT DEF QuoteOk
<1>13. /\ Plus(MinMargin) = 110 /\ Plus(engineConfig.margin) = 115 /\ Plus(engineConfig.wal) = 110
  BY SMT DEF Plus, MinMargin, engineConfig
<1>14. /\ 110 * 100 * wd * dw * o <= 115 * 110 * wq * pw * p
      /\ 110 * 100 * t * o <= 115 * 126 * s * p
  BY <1>7, <1>8, <1>9, <1>13, SMT DEF WithinBuffers
<1>15. 11000 * (x * o) <= 12650 * (a * p) /\ 11000 * (t * o) <= 14490 * (s * p)
  BY <1>10, <1>14, SMT
<1>16. 100 * (e * p) >= 110 * (x + n * t)
  BY <1>12, <1>15, BuffersSuffice, SMT
<1>17. 100 * (e * p) >= 110 * (wd * dw + n * t)
  BY <1>10, <1>16, SMT
<1> QED BY <1>7, <1>9, <1>13, <1>17, SMT DEF evaluateBreakEven, CostUsd, amountToUsd

LEMMA LossShare ==
    ASSUME NEW e \in Nat, NEW w \in Nat, NEW p \in [Tokens -> Nat \ {0}], NEW h \in [Tokens -> Nat],
           evaluateBreakEven(e, w, ReturnLzFee, p),
           \A t \in Tokens : 100 * p[t] <= 115 * h[t] /\ 100 * h[t] <= 115 * p[t]
    PROVE  115 * 115 * amountToUsd(e, h[Origin])
              >= Plus(MinMargin) * 100 * CostUsd(w, ReturnLzFee, h)
<1>1. /\ p["WAL"] \in Nat /\ p["SUI"] \in Nat /\ p[Origin] \in Nat
      /\ h["WAL"] \in Nat /\ h["SUI"] \in Nat /\ h[Origin] \in Nat
      /\ {"WAL", "SUI", Origin} \subseteq Tokens
  BY DEF Tokens, Origin
<1>2. PICK pw \in Nat, ps \in Nat, pe \in Nat, hw \in Nat, hs \in Nat, he \in Nat :
         /\ pw = p["WAL"] /\ ps = p["SUI"] /\ pe = p[Origin]
         /\ hw = h["WAL"] /\ hs = h["SUI"] /\ he = h[Origin]
  BY <1>1
<1>3. 100 * pe <= 115 * he /\ 100 * hw <= 115 * pw /\ 100 * hs <= 115 * ps
  BY <1>1, <1>2, SMT
<1>4. PICK n \in Nat : n = ReturnLzFee + SuiGas
  BY QuotesAssumption
<1>5. Plus(MinMargin) = 110
  BY SMT DEF Plus, MinMargin
<1>6. 100 * (e * pe) >= 110 * (w * pw + n * ps)
  BY <1>2, <1>4, <1>5, SMT DEF evaluateBreakEven, CostUsd, amountToUsd
<1>7. 115 * 115 * (e * he) >= 110 * 100 * (w * hw + n * hs)
  BY <1>3, <1>6, DeviationCosts, SMT
<1> QED BY <1>2, <1>4, <1>5, <1>7, SMT DEF CostUsd, amountToUsd

LEMMA WalCost ==
    ASSUME PriceTypes, NEW e, e = None \/ e \in Nat
    PROVE  estimateWalCostFrost(e) \in Nat
<1>1. PICK n \in Nat : n = IF e = None THEN StoreEpochs ELSE e
  BY QuotesAssumption
<1>2. PICK p \in Nat : p = walrus.price
  BY DEF PriceTypes
<1> QED BY <1>1, <1>2 DEF estimateWalCostFrost, computeWalCost

\* Every quote is QuoteOk, and a check follows a quote.  The first property needs the
\* default duration to be one the relayer sells.
QuoteInv ==
    /\ PriceTypes
    /\ quote = <<>> => check = <<>>
    /\ quote # <<>> => \E q : quote = <<q>> /\ QuoteOk(q)
    /\ StoreEpochs <= MaxEpochs => QuoteIsHonoured
    /\ LossIsBounded

LEMMA QuoteInit == Init => QuoteInv
<1> SUFFICES ASSUME Init PROVE QuoteInv
  OBVIOUS
<1>1. PriceTypes
  BY QuotesAssumption DEF Init, PriceTypes, PriceSet
<1> QED BY <1>1 DEF Init, QuoteInv, QuoteIsHonoured, LossIsBounded

\* Once the check is made, what it was made on stays.
LEMMA CheckIsLast ==
    ASSUME QuoteInv, check # <<>>, Next
    PROVE  UNCHANGED <<quote, check, walrus>>
<1> USE DEF world
<1>1. quote # <<>>
  BY DEF QuoteInv
<1>2. CASE Tick
  BY <1>2 DEF Tick
<1>3. CASE \E t \in Tokens : \E p \in Levels[t] : MarketMoves(t, p)
  BY <1>3 DEF MarketMoves, Move
<1>4. CASE \E s \in Sources : Publish(s)
  BY <1>4 DEF Publish
<1>5. CASE \E s \in Sources, t \in Tokens, pct \in {50, 115, 200} : Glitch(s, t, pct)
  BY <1>5 DEF Glitch, Move
<1>6. CASE \E w \in WalrusStates, r \in {ReturnLzFee, 2 * ReturnLzFee} : ChainMoves(w, r)
  BY <1>6 DEF ChainMoves, Move
<1>7. CASE FeeMoves
  BY <1>7 DEF FeeMoves, Move
<1>8. CASE \E c \in Callers : Ask(c)
  BY <1>8 DEF Ask
<1>9. CASE quoteSolanaLzFeeLamports
  BY <1>9 DEF quoteSolanaLzFeeLamports
<1>10. CASE simulate
  BY <1>10 DEF simulate
<1>11. CASE refresh
  BY <1>11 DEF refresh
<1>12. CASE \E epochs \in Epochs : getQuote(epochs)
  BY <1>1, <1>12 DEF getQuote
<1>13. CASE CheckBreakEven
  BY <1>13 DEF CheckBreakEven
<1>14. CASE RejectEpochs
  BY <1>14 DEF RejectEpochs
<1> QED BY <1>2, <1>3, <1>4, <1>5, <1>6, <1>7, <1>8, <1>9, <1>10, <1>11, <1>12, <1>13, <1>14
        DEF Next

LEMMA PricesKept ==
    ASSUME PriceTypes, Next
    PROVE  PriceTypes'
<1> USE DEF PriceTypes, world
<1>1. CASE Tick
  BY <1>1 DEF Tick
<1>2. CASE \E t \in Tokens : \E p \in Levels[t] : MarketMoves(t, p)
  BY <1>2, QuotesAssumption DEF MarketMoves, PriceSet
<1>3. CASE \E s \in Sources : Publish(s)
  <2>1. PICK s \in Sources : Publish(s)
    BY <1>3
  <2>2. PICK row : row = [t \in Tokens |-> [usd |-> market[t], at |-> now]]
    BY Zenon
  <2>3. row \in [Tokens -> [usd : Nat, at : Int]]
    BY <2>2 DEF PriceSet
  <2>4. feed' = [feed EXCEPT ![s] = row]
    BY <2>1, <2>2 DEF Publish
  <2>5. feed' \in [Sources -> [Tokens -> [usd : Nat, at : Int]]]
    BY <2>3, <2>4
  <2> QED BY <2>1, <2>5 DEF Publish
<1>4. CASE \E s \in Sources, t \in Tokens, pct \in {50, 115, 200} : Glitch(s, t, pct)
  <2>1. PICK s \in Sources, t \in Tokens, pct \in {50, 115, 200} : Glitch(s, t, pct)
    BY <1>4
  <2>2. PICK m \in Nat : m = market[t]
    BY DEF PriceSet
  <2>3. PICK u \in Nat : u = (m * pct) \div 100
    <3>1. PICK x \in Nat : x = m * pct
      <4>1. pct = 50 \/ pct = 115 \/ pct = 200
        OBVIOUS
      <4>2. m * 50 \in Nat /\ m * 115 \in Nat /\ m * 200 \in Nat
        OBVIOUS
      <4> QED BY <4>1, <4>2, Zenon
    <3>2. x \div 100 \in Nat
      OBVIOUS
    <3> QED BY <3>1, <3>2
  <2> DEFINE row == [usd |-> u, at |-> now]
  <2>4. row \in [usd : Nat, at : Int]
    <3>1. u \in Nat /\ now \in Int
      OBVIOUS
    <3> QED BY <3>1, Zenon
  <2>5. feed' = [feed EXCEPT ![s][t] = row]
    BY <2>1, <2>2, <2>3, Zenon DEF Glitch
  <2> HIDE DEF row
  <2>6. feed' \in [Sources -> [Tokens -> [usd : Nat, at : Int]]]
    BY <2>4, <2>5
  <2> QED BY <2>1, <2>6 DEF Glitch
<1>5. CASE \E w \in WalrusStates, r \in {ReturnLzFee, 2 * ReturnLzFee} : ChainMoves(w, r)
  BY <1>5, QuotesAssumption DEF ChainMoves, WalrusStates
<1>6. CASE FeeMoves
  BY <1>6 DEF FeeMoves
<1>7. CASE \E c \in Callers : Ask(c)
  BY <1>7 DEF Ask
<1>8. CASE quoteSolanaLzFeeLamports
  BY <1>8 DEF quoteSolanaLzFeeLamports
<1>9. CASE simulate
  BY <1>9 DEF simulate
<1>10. CASE refresh
  BY <1>10 DEF refresh
<1>11. CASE \E epochs \in Epochs : getQuote(epochs)
  BY <1>11 DEF getQuote
<1>12. CASE CheckBreakEven
  BY <1>12 DEF CheckBreakEven
<1>13. CASE RejectEpochs
  BY <1>13 DEF RejectEpochs
<1> QED BY <1>1, <1>2, <1>3, <1>4, <1>5, <1>6, <1>7, <1>8, <1>9, <1>10, <1>11, <1>12, <1>13
        DEF Next

\* POST /quote leaves a quote the check can rely on.
LEMMA QuotedOk ==
    ASSUME PriceTypes, NEW epochs \in Epochs, getQuote(epochs)
    PROVE  \E q : quote' = <<q>> /\ QuoteOk(q)
<1>1. PICK answers \in Answers :
         /\ Priced(answers)
         /\ LET prices == getPrices(answers)
                cost   == estimateWalCostFrost(QuotedEpochs(epochs))
                escrow == escrowNative(cost, prices)
            IN  quote' = <<[epochs |-> epochs, prices |-> prices, wal |-> cost,
                            escrow |-> escrow]>>
  BY DEF getQuote
<1>2. PICK p : p = getPrices(answers)
  OBVIOUS
<1>3. PICK w : w = estimateWalCostFrost(QuotedEpochs(epochs))
  OBVIOUS
<1>4. PICK e : e = escrowNative(w, p)
  OBVIOUS
<1>5. p \in [Tokens -> Nat \ {0}]
  BY <1>1, <1>2, PricesAgree
<1>6. w \in Nat
  <2>1. QuotedEpochs(epochs) = None \/ QuotedEpochs(epochs) \in Nat
    BY QuotesAssumption DEF QuotedEpochs
  <2> QED BY <1>3, <2>1, WalCost
<1>7. e \in Nat /\ e * (p[Origin] * 1000000) >= Buffered(w, p) * 115
  BY <1>4, <1>5, <1>6, EscrowCovers, SMT
<1>8. PICK q : q = [epochs |-> epochs, prices |-> p, wal |-> w, escrow |-> e]
  OBVIOUS
<1>9. quote' = <<q>>
  BY <1>1, <1>2, <1>3, <1>4, <1>8
<1>10. q.epochs = epochs /\ q.prices = p /\ q.wal = w /\ q.escrow = e
  BY <1>8
<1>11. Quotable(epochs)
  BY DEF getQuote
<1>12. QuoteOk(q)
  BY <1>5, <1>6, <1>7, <1>10, <1>11, SMT DEF QuoteOk
<1> QED BY <1>9, <1>12

LEMMA CheckKeeps ==
    ASSUME QuoteInv, CheckBreakEven
    PROVE  QuoteIsHonoured' /\ LossIsBounded'
<1>1. PICK q : quote = <<q>> /\ QuoteOk(q)
  BY DEF QuoteInv, CheckBreakEven
<1>2. quote[1] = q /\ quote'[1] = q
  BY <1>1 DEF CheckBreakEven
<1>3. PICK answers \in Answers :
         /\ Priced(answers)
         /\ LET prices == getPrices(answers)
                cost   == estimateWalCostFrost(Resolved(quote[1].epochs))
            IN  check' = <<[proceed |-> evaluateBreakEven(quote[1].escrow, cost, ReturnLzFee,
                                                          prices),
                            stored |-> TRUE, prices |-> prices, wal |-> cost,
                            honest |-> {[t \in Tokens |-> feed[s][t].usd] :
                                           s \in Witness(answers)}]>>
  BY DEF CheckBreakEven
<1>4. PICK p : p = getPrices(answers)
  OBVIOUS
<1>5. PICK w : w = estimateWalCostFrost(Resolved(q.epochs))
  OBVIOUS
<1>6. PICK go : go = evaluateBreakEven(q.escrow, w, ReturnLzFee, p)
  OBVIOUS
<1>7. PICK hs : hs = {[t \in Tokens |-> feed[s][t].usd] : s \in Witness(answers)}
  OBVIOUS
<1>8. PICK d : d = [proceed |-> go, stored |-> TRUE, prices |-> p, wal |-> w, honest |-> hs]
  OBVIOUS
<1>9. check' = <<d>>
  BY <1>2, <1>3, <1>4, <1>5, <1>6, <1>7, <1>8, Zenon
<1>10. /\ d.proceed = go /\ d.stored = TRUE /\ d.prices = p /\ d.wal = w /\ d.honest = hs
       /\ check'[1] = d
  BY <1>8, <1>9
<1>11. PriceTypes /\ q.escrow \in Nat
  BY <1>1, SMT DEF QuoteInv, QuoteOk
<1>12. p \in [Tokens -> Nat \ {0}]
  BY <1>3, <1>4, <1>11, PricesAgree
<1>13. w \in Nat
  <2>1. q.epochs \in Epochs
    BY <1>1, SMT DEF QuoteOk
  <2>2. Resolved(q.epochs) \in Nat
    BY <2>1, QuotesAssumption DEF Resolved, QuotedEpochs
  <2> QED BY <1>5, <1>11, <2>2, WalCost
<1>14. QuoteIsHonoured'
  <2>1. WithinBuffers(q, d) => go
    <3>1. WithinBuffers(q, d) => evaluateBreakEven(q.escrow, d.wal, ReturnLzFee, d.prices)
      BY <1>1, <1>10, <1>12, <1>13, QuoteSuffices
    <3> QED BY <1>6, <1>10, <3>1
  <2> QED BY <1>2, <1>10, <2>1 DEF QuoteIsHonoured
<1>15. LossIsBounded'
  <2> SUFFICES ASSUME go, NEW h \in hs
               PROVE  115 * 115 * amountToUsd(q.escrow, h[Origin])
                         >= Plus(MinMargin) * 100 * CostUsd(w, ReturnLzFee, h)
    BY <1>2, <1>10 DEF LossIsBounded
  <2>1. PICK s \in Witness(answers) : h = [t \in Tokens |-> feed[s][t].usd]
    BY <1>7
  <2>2. h \in [Tokens -> Nat]
    BY <1>11, <2>1 DEF PriceTypes, Witness
  <2>3. \A t \in Tokens : 100 * p[t] <= 115 * h[t] /\ 100 * h[t] <= 115 * p[t]
    <3>1. \A t \in Tokens : h[t] = feed[s][t].usd
      BY <2>1
    <3>2. \A t \in Tokens : /\ 100 * p[t] <= 115 * feed[s][t].usd
                            /\ 100 * feed[s][t].usd <= 115 * p[t]
      BY <1>3, <1>4, <1>11, PricesAgree
    <3> QED BY <3>1, <3>2
  <2>4. evaluateBreakEven(q.escrow, w, ReturnLzFee, p)
    BY <1>6
  <2> QED BY <1>11, <1>12, <1>13, <2>2, <2>3, <2>4, LossShare
<1> QED BY <1>14, <1>15

LEMMA RejectKeeps ==
    ASSUME QuoteInv, RejectEpochs
    PROVE  /\ StoreEpochs <= MaxEpochs => QuoteIsHonoured'
           /\ LossIsBounded'
<1>1. PICK q : quote = <<q>> /\ QuoteOk(q)
  BY DEF QuoteInv, RejectEpochs
<1>2. quote[1] = q /\ quote'[1] = q
  BY <1>1 DEF RejectEpochs
<1>3. check'[1].proceed = FALSE /\ check'[1].stored = FALSE
  BY DEF RejectEpochs
<1>4. PICK n \in Nat : n = IF q.epochs = None THEN StoreEpochs ELSE q.epochs
  <2>1. q.epochs \in Epochs
    BY <1>1, SMT DEF QuoteOk
  <2> QED BY <2>1, QuotesAssumption
<1>5. StoreEpochs <= MaxEpochs => n <= MaxEpochs
  <2>1. Quotable(q.epochs)
    BY <1>1, SMT DEF QuoteOk
  <2> QED BY <1>4, <2>1 DEF Quotable
<1>6. PICK a \in Nat : a = walrus.ahead /\ a = walrus'.ahead
  BY DEF QuoteInv, PriceTypes, RejectEpochs, world
<1>7. ~ (n <= IF a < MaxEpochs THEN a ELSE MaxEpochs)
  BY <1>2, <1>4, <1>6 DEF RejectEpochs, Storable, maxEpochsAhead
<1>8. StoreEpochs <= MaxEpochs => n > a
  BY <1>5, <1>7, QuotesAssumption
<1> QED BY <1>2, <1>3, <1>4, <1>6, <1>8 DEF QuoteIsHonoured, LossIsBounded

LEMMA QuoteStep ==
    ASSUME QuoteInv, Next
    PROVE  QuoteInv'
<1>1. PriceTypes'
  BY PricesKept DEF QuoteInv
<1>2. CASE check # <<>>
  <2>1. UNCHANGED <<quote, check, walrus>>
    BY <1>2, CheckIsLast
  <2>2. (StoreEpochs <= MaxEpochs => QuoteIsHonoured') /\ LossIsBounded'
    BY <2>1 DEF QuoteInv, QuoteIsHonoured, LossIsBounded
  <2>3. quote # <<>>
    BY <1>2 DEF QuoteInv
  <2>4. PICK q : quote = <<q>> /\ QuoteOk(q)
    BY <2>3 DEF QuoteInv
  <2> QED BY <1>1, <2>1, <2>2, <2>3, <2>4 DEF QuoteInv
<1>3. CASE check = <<>> /\ CheckBreakEven
  <2>1. quote # <<>> /\ quote' = quote
    BY <1>3 DEF CheckBreakEven
  <2>2. PICK q : quote = <<q>> /\ QuoteOk(q)
    BY <2>1 DEF QuoteInv
  <2>3. QuoteIsHonoured' /\ LossIsBounded'
    BY <1>3, CheckKeeps
  <2> QED BY <1>1, <2>1, <2>2, <2>3 DEF QuoteInv
<1>4. CASE check = <<>> /\ RejectEpochs
  <2>1. quote # <<>> /\ quote' = quote
    BY <1>4 DEF RejectEpochs
  <2>2. PICK q : quote = <<q>> /\ QuoteOk(q)
    BY <2>1 DEF QuoteInv
  <2>3. (StoreEpochs <= MaxEpochs => QuoteIsHonoured') /\ LossIsBounded'
    BY <1>4, RejectKeeps
  <2> QED BY <1>1, <2>1, <2>2, <2>3 DEF QuoteInv
<1>5. CASE check = <<>> /\ \E epochs \in Epochs : getQuote(epochs)
  <2>1. PICK epochs \in Epochs : getQuote(epochs)
    BY <1>5
  <2>2. check' = <<>>
    BY <1>5, <2>1 DEF getQuote
  <2>3. PICK q : quote' = <<q>> /\ QuoteOk(q)
    BY <2>1, QuotedOk DEF QuoteInv
  <2> QED BY <1>1, <2>2, <2>3 DEF QuoteInv, QuoteIsHonoured, LossIsBounded
<1>6. CASE check = <<>> /\ check' = <<>> /\ quote' = quote
  <2>1. QuoteIsHonoured' /\ LossIsBounded'
    BY <1>6 DEF QuoteIsHonoured, LossIsBounded
  <2>2. quote # <<>> => \E q : quote' = <<q>> /\ QuoteOk(q)
    BY <1>6 DEF QuoteInv
  <2> QED BY <1>1, <1>6, <2>1, <2>2 DEF QuoteInv
<1>7. ASSUME check = <<>>, ~ CheckBreakEven, ~ RejectEpochs,
             ~ \E epochs \in Epochs : getQuote(epochs)
      PROVE  check' = <<>> /\ quote' = quote
  BY <1>7 DEF Next, Tick, MarketMoves, Publish, Glitch, ChainMoves, FeeMoves, Ask,
              quoteSolanaLzFeeLamports, simulate, refresh
<1> QED BY <1>2, <1>3, <1>4, <1>5, <1>6, <1>7

LEMMA QuoteInvariant == Spec => []QuoteInv
<1>1. QuoteInv /\ [Next]_vars => QuoteInv'
  <2> SUFFICES ASSUME QuoteInv, [Next]_vars PROVE QuoteInv'
    OBVIOUS
  <2>1. CASE Next
    BY <2>1, QuoteStep
  <2>2. CASE UNCHANGED vars
    <3>1. UNCHANGED <<quote, check, walrus, now, market, feed>>
      BY <2>2 DEF vars, world
    <3>2. PriceTypes'
      BY <3>1 DEF QuoteInv, PriceTypes
    <3>3. (StoreEpochs <= MaxEpochs => QuoteIsHonoured') /\ LossIsBounded'
      BY <3>1 DEF QuoteInv, QuoteIsHonoured, LossIsBounded
    <3>4. quote' # <<>> => \E q : quote' = <<q>> /\ QuoteOk(q)
      BY <3>1 DEF QuoteInv
    <3> QED BY <3>1, <3>2, <3>3, <3>4 DEF QuoteInv
  <2> QED BY <2>1, <2>2
<1> QED BY QuoteInit, <1>1, PTL DEF Spec

\* A client that pays what it was quoted is stored, for all prices, fees, charges and
\* durations, provided the relayer's default duration is one it sells: the refusals of
\* intent.processor.ts are a rise beyond quote-engine.ts's buffers and a duration that
\* Walrus itself no longer sells.
THEOREM QuotesAreHonoured ==
    ASSUME StoreEpochs <= MaxEpochs
    PROVE  Spec => []QuoteIsHonoured
<1>1. QuoteInv => QuoteIsHonoured
  BY DEF QuoteInv
<1> QED BY <1>1, QuoteInvariant, PTL

\* However wrong one feed is, a spend that break-even-guard.service.ts allows while the
\* other is fresh loses at most the share that price-oracle.ts's deviation leaves.
THEOREM WrongFeedCostsAShare == Spec => []LossIsBounded
<1>1. QuoteInv => LossIsBounded
  BY DEF QuoteInv
<1> QED BY <1>1, QuoteInvariant, PTL

-----------------------------------------------------------------------------
(* The rate limiter.  Its sweep and its counts are folds over sequences.   *)

\* Induction over the natural numbers.
LEMMA NatInduct ==
    ASSUME NEW P, 0 \in P, \A n \in Nat : n \in P => n + 1 \in P
    PROVE  Nat \subseteq P
<1> DEFINE misfits == Nat \ P
<1>1. SUFFICES ASSUME misfits # {} PROVE FALSE
  OBVIOUS
<1>2. PICK n \in misfits : \A m \in misfits : ~(<<m, n>> \in OpToRel(<, Nat))
  <2>1. misfits \subseteq Nat
    OBVIOUS
  <2> QED BY <1>1, <2>1, NatLessThanWellFounded, WFMin, Zenon
<1>3. n \in Nat /\ n # 0 /\ n - 1 \in Nat /\ n = (n - 1) + 1
  OBVIOUS
<1>4. n - 1 \notin P
  BY <1>3
<1> DEFINE k == n - 1
<1>5. k \in Nat /\ n \in Nat /\ k < n
  BY <1>3
<1> HIDE DEF k
<1>6. <<k, n>> \in {p \in Nat \X Nat : p[1] < p[2]}
  BY <1>5
<1>7. OpToRel(<, Nat) = {p \in Nat \X Nat : p[1] < p[2]}
  BY Zenon DEF OpToRel
<1>8. <<k, n>> \in OpToRel(<, Nat)
  BY <1>6, <1>7, Zenon
<1>9. k \in misfits
  BY <1>4, <1>5 DEF k
<1> QED BY <1>2, <1>8, <1>9, Zenon

\* Every set of positions has a last one.
LEMMA LastOf ==
    ASSUME NEW n \in Nat, NEW t \in SUBSET (1..n), t # {}
    PROVE  Max(t) \in t /\ \A i \in t : i <= Max(t)
<1> DEFINE P == {m \in Nat : \A u \in SUBSET (1..m) : u # {} => \E x \in u : \A y \in u : x >= y}
<1>1. 0 \in P
  <2>1. \A u \in SUBSET (1..0) : u = {}
    OBVIOUS
  <2> QED BY <2>1
<1>2. ASSUME NEW m \in Nat, m \in P PROVE m + 1 \in P
  <2> SUFFICES ASSUME NEW u \in SUBSET (1..(m + 1)), u # {}
               PROVE  \E x \in u : \A y \in u : x >= y
    OBVIOUS
  <2>1. CASE m + 1 \in u
    BY <2>1
  <2>2. CASE m + 1 \notin u
    <3>1. u \in SUBSET (1..m)
      BY <2>2
    <3> QED BY <1>2, <3>1
  <2> QED BY <2>1, <2>2
<1>3. Nat \subseteq P
  <2> HIDE DEF P
  <2> QED BY <1>1, <1>2, NatInduct
<1>4. \E x \in t : \A y \in t : x >= y
  BY <1>3
<1>5. Max(t) \in t /\ \A y \in t : Max(t) >= y
  BY <1>4, Zenon DEF Max
<1> QED BY <1>5

\* g folds the first positions of a sequence, F[i] being what the element at i does.
IsFold(g, F, base, n) ==
    \A t \in SUBSET (1..n) : g[t] = IF t = {} THEN base ELSE F[Max(t)][g[t \ {Max(t)}]]

\* Such a fold exists whatever the steps are.
LEMMA FoldExists ==
    ASSUME NEW X, NEW base \in X, NEW n \in Nat, NEW F \in [1..n -> [X -> X]]
    PROVE  \E g \in [SUBSET (1..n) -> X] : IsFold(g, F, base, n)
<1> DEFINE D(m) == SUBSET (1..m)
           Good(m, g) == \A t \in D(m) : g[t] = IF t = {} THEN base ELSE F[Max(t)][g[t \ {Max(t)}]]
           P == {m \in Nat : m <= n => \E g \in [D(m) -> X] : Good(m, g)}
<1>1. 0 \in P
  <2> DEFINE g == [t \in D(0) |-> base]
  <2>1. g \in [D(0) -> X] /\ Good(0, g)
    <3>1. \A t \in D(0) : t = {}
      OBVIOUS
    <3> HIDE DEF D
    <3> QED BY <3>1, Zenon
  <2> QED BY <2>1
<1>2. ASSUME NEW m \in Nat, m \in P PROVE m + 1 \in P
  <2>0. m + 1 \in Nat
    OBVIOUS
  <2> SUFFICES ASSUME m + 1 <= n PROVE \E h \in [D(m + 1) -> X] : Good(m + 1, h)
    BY <2>0, Zenon
  <2>1. PICK g \in [D(m) -> X] : Good(m, g)
    BY <1>2, m <= n
  <2> DEFINE k == m + 1
             h == [t \in D(k) |-> IF k \in t THEN F[k][g[t \ {k}]] ELSE g[t]]
  <2>2. \A t \in D(k) : t \ {k} \in D(m) /\ (k \notin t => t \in D(m)) /\ k \in 1..n
    OBVIOUS
  <2>3. h \in [D(k) -> X]
    <3> SUFFICES ASSUME NEW t \in D(k)
               PROVE  (IF k \in t THEN F[k][g[t \ {k}]] ELSE g[t]) \in X
      BY Zenon
    <3>1. g[t \ {k}] \in X /\ (k \notin t => g[t] \in X) /\ F[k] \in [X -> X]
      BY <2>2, Zenon
    <3> HIDE DEF k, D
    <3> QED BY <3>1, Zenon
  <2>4. ASSUME NEW t \in D(k) PROVE h[t] = IF t = {} THEN base ELSE F[Max(t)][h[t \ {Max(t)}]]
    <3>1. \A u \in D(m) : u \in D(k) /\ k \notin u
      OBVIOUS
    <3>2. \A u \in D(m) : h[u] = g[u]
      <4> HIDE DEF k, D
      <4> QED BY <3>1, Zenon
    <3>3. CASE k \in t
      <4>1. Max(t) = k
        <5>1. k \in Nat /\ t # {}
          BY <3>3
        <5>2. Max(t) \in t /\ \A i \in t : i <= Max(t)
          BY <5>1, LastOf
        <5>3. Max(t) \in 1..k /\ k <= Max(t)
          BY <3>3, <5>2
        <5> QED BY <5>3
      <4>2. h[t] = F[k][g[t \ {k}]] /\ t # {}
        <5> HIDE DEF k, D
        <5> QED BY <3>3, Zenon
      <4>3. h[t \ {k}] = g[t \ {k}]
        BY <2>2, <3>2, Zenon
      <4> QED BY <4>1, <4>2, <4>3, Zenon
    <3>4. CASE k \notin t
      <4>1. t \in D(m) /\ h[t] = g[t]
        BY <2>2, <3>2, <3>4, Zenon
      <4>2. CASE t = {}
        BY <2>1, <4>1, <4>2, Zenon
      <4>3. CASE t # {}
        <5>1. t \ {Max(t)} \in D(m)
          BY <4>1
        <5> QED BY <2>1, <3>2, <4>1, <4>3, <5>1, Zenon
      <4> QED BY <4>2, <4>3, Zenon
    <3> QED BY <3>3, <3>4, Zenon
  <2>5. Good(k, h)
    <3> HIDE DEF h, k, D
    <3> QED BY <2>4, Zenon
  <2> HIDE DEF h, Good, D
  <2> QED BY <2>3, <2>5, Zenon DEF k
<1>3. Nat \subseteq P
  <2> HIDE DEF P
  <2> QED BY <1>1, <1>2, NatInduct
<1>4. n <= n /\ (n <= n => \E g \in [D(n) -> X] : Good(n, g))
  <2>1. n <= n
    OBVIOUS
  <2> QED BY <1>3, <2>1, Zenon
<1> HIDE DEF D
<1>5. PICK g \in [D(n) -> X] : Good(n, g)
  BY <1>4, Zenon
<1> QED BY <1>5, Zenon DEF D, IsFold

LEMMA Prefix ==
    ASSUME NEW i \in Nat \ {0}
    PROVE  1..i # {} /\ Max(1..i) = i /\ (1..i) \ {i} = 1..(i - 1)
<1>1. 1..i # {} /\ 1..i \in SUBSET (1..i) /\ i \in Nat /\ (1..i) \ {i} = 1..(i - 1)
  OBVIOUS
<1> DEFINE m == Max(1..i)
<1>2. m \in 1..i /\ \A j \in 1..i : j <= m
  BY <1>1, LastOf, Zenon
<1> HIDE DEF m
<1>3. m = i
  BY <1>2
<1> QED BY <1>1, <1>3 DEF m

-----------------------------------------------------------------------------
(* The hits of the last window.                                            *)

\* c counts the hits of the moments 1 to i of r, for every i.
Counts(r, c) == c \in [0..windowMs -> Nat] /\ c[0] = 0 /\ \A i \in 1..windowMs : c[i] = c[i - 1] + r[i]

LEMMA CountsExist ==
    ASSUME LimitAssumption, NEW r \in [1..windowMs -> Nat]
    PROVE  \E c : Counts(r, c) /\ FoldLeft(+, 0, r) = c[windowMs]
<1> DEFINE n == windowMs
           Add == [i \in 1..n |-> [y \in Nat |-> y + r[i]]]
           Body(g) == [t \in SUBSET DOMAIN r |-> IF t = {} THEN 0
                                                 ELSE LET x == Max(t) IN g[t \ {x}] + r[x]]
<1>1. n \in Nat /\ n >= 1 /\ 0 \in Nat /\ DOMAIN r = 1..n
  BY DEF LimitAssumption
<1>2. Add \in [1..n -> [Nat -> Nat]]
  OBVIOUS
<1>3. FoldLeft(+, 0, r) = (CHOOSE g : g = Body(g))[DOMAIN r]
  BY Zenon DEF FoldLeft, MapThenFoldSet
<1>20. r \in [1..n -> Nat]
  OBVIOUS
<1> HIDE DEF n
<1>4. ASSUME NEW g \in [SUBSET (1..n) -> Nat], NEW t \in SUBSET (1..n), t # {}
      PROVE  Add[Max(t)][g[t \ {Max(t)}]] = g[t \ {Max(t)}] + r[Max(t)]
  <2>1. Max(t) \in 1..n
    BY <1>1, <1>4, LastOf, Zenon
  <2>2. g[t \ {Max(t)}] \in Nat
    <3>1. t \ {Max(t)} \in SUBSET (1..n)
      BY Zenon
    <3> QED BY <3>1, Zenon
  <2> QED BY <2>1, <2>2, Zenon
<1> HIDE DEF Add
<1>5. PICK h \in [SUBSET (1..n) -> Nat] : IsFold(h, Add, 0, n)
  BY <1>1, <1>2, FoldExists, Zenon
<1>6. \A t \in SUBSET (1..n) : h[t] = IF t = {} THEN 0 ELSE Add[Max(t)][h[t \ {Max(t)}]]
  BY <1>5, Zenon DEF IsFold
<1>7. h = Body(h)
  <2>1. \A t \in SUBSET (1..n) :
           h[t] = IF t = {} THEN 0 ELSE LET x == Max(t) IN h[t \ {x}] + r[x]
    BY <1>4, <1>6, Zenon
  <2> QED BY <1>1, <2>1, Zenon
<1>8. PICK g : g = CHOOSE f : f = Body(f)
  <2> HIDE DEF Body
  <2> QED BY Zenon
<1>9. g = Body(g)
  <2> HIDE DEF Body
  <2> QED BY <1>7, <1>8, Zenon
<1> DEFINE c == [i \in 0..n |-> g[1..i]]
<1>10. c[0] = 0
  <2>1. 1..0 = {} /\ 0 \in 0..n /\ {} \in SUBSET DOMAIN r
    BY <1>1
  <2>2. c[0] = g[{}]
    BY <2>1, Zenon
  <2> QED BY <1>9, <2>1, <2>2, Zenon
<1>11. ASSUME NEW i \in 1..n PROVE c[i] = c[i - 1] + r[i]
  <2>1. 1..i \in SUBSET DOMAIN r /\ i \in 0..n /\ i - 1 \in 0..n /\ i \in Nat \ {0}
    BY <1>1
  <2>2. c[i] = g[1..i] /\ c[i - 1] = g[1..(i - 1)]
    BY <2>1, Zenon
  <2>3. 1..i # {} /\ Max(1..i) = i /\ (1..i) \ {i} = 1..(i - 1)
    BY <2>1, Prefix
  <2>4. g[1..i] = g[(1..i) \ {i}] + r[i]
    BY <1>9, <2>1, <2>3, Zenon
  <2> QED BY <2>2, <2>3, <2>4, Zenon
<1>12. c[n] = FoldLeft(+, 0, r)
  <2>1. n \in 0..n
    BY <1>1
  <2>2. c[n] = g[1..n]
    BY <2>1, Zenon
  <2> HIDE DEF Body
  <2> QED BY <1>1, <1>3, <1>8, <2>2, Zenon
<1> HIDE DEF c
<1>13. \A i \in 0..n : c[i] \in Nat
  <2> DEFINE P == {i \in Nat : i <= n => c[i] \in Nat}
  <2>1. 0 \in P
    BY <1>10
  <2>2. ASSUME NEW i \in Nat, i \in P PROVE i + 1 \in P
    <3> SUFFICES ASSUME i + 1 <= n PROVE c[i + 1] \in Nat
      OBVIOUS
    <3>1. i + 1 \in 1..n /\ i <= n /\ (i + 1) - 1 = i
      BY <1>1
    <3>2. c[i + 1] = c[i] + r[i + 1]
      BY <1>11, <3>1
    <3>3. c[i] \in Nat /\ r[i + 1] \in Nat
      BY <2>2, <3>1, <1>20
    <3> QED BY <3>2, <3>3
  <2>3. Nat \subseteq P
    <3> HIDE DEF P
    <3> QED BY <2>1, <2>2, NatInduct
  <2> QED BY <1>1, <2>3
<1>14. c \in [0..n -> Nat]
  <2>1. c = [i \in 0..n |-> c[i]]
    BY DEF c
  <2> QED BY <1>13, <2>1, Zenon
<1>15. Counts(r, c)
  BY <1>10, <1>11, <1>14, Zenon DEF Counts, n
<1> QED BY <1>12, <1>15, Zenon DEF n

-----------------------------------------------------------------------------
(* The windows.                                                            *)

Windows == [key : Keys, count : Nat, resetAt : Nat]

\* No key has two windows.
Distinct(ws) == \A i, j \in DOMAIN ws : ws[i].key = ws[j].key => i = j

LEMMA AppendWindow ==
    ASSUME NEW s \in Seq(Windows), Distinct(s), NEW w \in Windows,
           \A x \in ToSet(s) : x.key # w.key
    PROVE  Append(s, w) \in Seq(Windows) /\ Distinct(Append(s, w))
           /\ ToSet(Append(s, w)) = ToSet(s) \union {w}
<1> DEFINE t == Append(s, w)
<1>1. t \in Seq(Windows) /\ DOMAIN t = 1..(Len(s) + 1) /\ DOMAIN s = 1..Len(s) /\ Len(s) \in Nat
  OBVIOUS
<1>2. t[Len(s) + 1] = w /\ \A i \in 1..Len(s) : t[i] = s[i]
  OBVIOUS
<1> HIDE DEF t
<1>3. \A i \in 1..Len(s) : t[i].key # w.key
  BY <1>1, <1>2, Zenon DEF ToSet
<1>4. Distinct(t)
  <2> SUFFICES ASSUME NEW i \in DOMAIN t, NEW j \in DOMAIN t, t[i].key = t[j].key PROVE i = j
    BY Zenon DEF Distinct
  <2>1. i \in 1..Len(s) \/ i = Len(s) + 1
    BY <1>1
  <2>2. j \in 1..Len(s) \/ j = Len(s) + 1
    BY <1>1
  <2> QED BY <1>1, <1>2, <1>3, <2>1, <2>2, Zenon DEF Distinct
<1>5. ToSet(t) = ToSet(s) \union {w}
  <2>1. \A x : (\E i \in DOMAIN t : t[i] = x) <=> x = w \/ \E i \in DOMAIN s : s[i] = x
    <3>1. \A i \in DOMAIN t : i \in 1..Len(s) \/ i = Len(s) + 1
      BY <1>1
    <3>2. 1..Len(s) \subseteq DOMAIN t /\ Len(s) + 1 \in DOMAIN t
      BY <1>1
    <3> QED BY <1>1, <1>2, <3>1, <3>2, Zenon
  <2>2. \A x : (x \in ToSet(t)) <=> (x \in ToSet(s) \union {w})
    <3>1. \A x : (x \in ToSet(t) <=> \E i \in DOMAIN t : t[i] = x)
                 /\ (x \in ToSet(s) <=> \E i \in DOMAIN s : s[i] = x)
      BY Zenon DEF ToSet
    <3> QED BY <2>1, <3>1
  <2> QED BY <2>2
<1> QED BY <1>1, <1>4, <1>5, Zenon DEF t

\* A sweep drops the windows that are over and no other.
LEMMA SweepEffect ==
    ASSUME NEW ws \in Seq(Windows), Distinct(ws)
    PROVE  sweep(ws) \in Seq(Windows) /\ Distinct(sweep(ws))
           /\ ToSet(sweep(ws)) = {w \in ToSet(ws) : ~Over(w)}
<1> DEFINE n == Len(ws)
           S == Seq(Windows)
           Keep == [i \in 1..n |-> [s \in S |-> IF Over(ws[i]) THEN s ELSE Append(s, ws[i])]]
           Body(g) == [t \in SUBSET DOMAIN ws |->
                         IF t = {} THEN <<>>
                         ELSE LET x == Max(t)
                              IN  IF Over(ws[x]) THEN g[t \ {x}] ELSE Append(g[t \ {x}], ws[x])]
<1>1. n \in Nat /\ <<>> \in S /\ DOMAIN ws = 1..n /\ \A i \in 1..n : ws[i] \in Windows
  OBVIOUS
<1>2. Keep \in [1..n -> [S -> S]]
  <2>1. \A i \in 1..n : \A s \in S : (IF Over(ws[i]) THEN s ELSE Append(s, ws[i])) \in S
    OBVIOUS
  <2> QED BY <2>1, Zenon
<1>3. sweep(ws) = (CHOOSE g : g = Body(g))[DOMAIN ws]
  BY Zenon DEF sweep, FoldLeft, MapThenFoldSet
<1> HIDE DEF n, S
<1>4. ASSUME NEW g \in [SUBSET (1..n) -> S], NEW t \in SUBSET (1..n), t # {}
      PROVE  Keep[Max(t)][g[t \ {Max(t)}]] =
                IF Over(ws[Max(t)]) THEN g[t \ {Max(t)}] ELSE Append(g[t \ {Max(t)}], ws[Max(t)])
  <2>1. Max(t) \in 1..n
    BY <1>1, <1>4, LastOf, Zenon
  <2>2. g[t \ {Max(t)}] \in S
    <3>1. t \ {Max(t)} \in SUBSET (1..n)
      BY Zenon
    <3> QED BY <3>1, Zenon
  <2> QED BY <2>1, <2>2, Zenon
<1> HIDE DEF Keep
<1>5. PICK h \in [SUBSET (1..n) -> S] : IsFold(h, Keep, <<>>, n)
  BY <1>1, <1>2, FoldExists, Zenon
<1>6. \A t \in SUBSET (1..n) : h[t] = IF t = {} THEN <<>> ELSE Keep[Max(t)][h[t \ {Max(t)}]]
  BY <1>5, Zenon DEF IsFold
<1>7. h = Body(h)
  <2>1. \A t \in SUBSET (1..n) :
           h[t] = IF t = {} THEN <<>>
                  ELSE LET x == Max(t)
                       IN  IF Over(ws[x]) THEN h[t \ {x}] ELSE Append(h[t \ {x}], ws[x])
    BY <1>4, <1>6, Zenon
  <2> QED BY <1>1, <2>1, Zenon
<1>8. PICK g : g = CHOOSE f : f = Body(f)
  <2> HIDE DEF Body
  <2> QED BY Zenon
<1>9. g = Body(g)
  <2> HIDE DEF Body
  <2> QED BY <1>7, <1>8, Zenon
<1> DEFINE c == [i \in 0..n |-> g[1..i]]
<1>10. c[0] = <<>>
  <2>1. 1..0 = {} /\ 0 \in 0..n /\ {} \in SUBSET DOMAIN ws
    BY <1>1
  <2>2. c[0] = g[{}]
    BY <2>1, Zenon
  <2> QED BY <1>9, <2>1, <2>2, Zenon
<1>11. ASSUME NEW i \in 1..n
       PROVE  c[i] = IF Over(ws[i]) THEN c[i - 1] ELSE Append(c[i - 1], ws[i])
  <2>1. 1..i \in SUBSET DOMAIN ws /\ i \in 0..n /\ i - 1 \in 0..n /\ i \in Nat \ {0}
    BY <1>1
  <2>2. c[i] = g[1..i] /\ c[i - 1] = g[1..(i - 1)]
    BY <2>1, Zenon
  <2>3. 1..i # {} /\ Max(1..i) = i /\ (1..i) \ {i} = 1..(i - 1)
    BY <2>1, Prefix
  <2>4. g[1..i] = IF Over(ws[i]) THEN g[(1..i) \ {i}] ELSE Append(g[(1..i) \ {i}], ws[i])
    BY <1>9, <2>1, <2>3, Zenon
  <2> QED BY <2>2, <2>3, <2>4, Zenon
<1>12. c[n] = sweep(ws)
  <2>1. n \in 0..n
    BY <1>1
  <2>2. c[n] = g[1..n]
    BY <2>1, Zenon
  <2> HIDE DEF Body
  <2> QED BY <1>1, <1>3, <1>8, <2>2, Zenon
<1> HIDE DEF c
<1> DEFINE Kept(i) == {w \in {ws[j] : j \in 1..i} : ~Over(w)}
           Good(i) == c[i] \in Seq(Windows) /\ Distinct(c[i]) /\ ToSet(c[i]) = Kept(i)
<1>13. Good(0)
  <2>1. <<>> \in Seq(Windows) /\ DOMAIN <<>> = {} /\ 1..0 = {}
    OBVIOUS
  <2>2. Distinct(<<>>) /\ ToSet(<<>>) = Kept(0)
    BY <2>1, Zenon DEF Distinct, ToSet
  <2> QED BY <1>10, <2>1, <2>2, Zenon
<1>14. ASSUME NEW i \in Nat, i + 1 \in 1..n, Good(i) PROVE Good(i + 1)
  <2> DEFINE m == i + 1
  <2>1. m \in 1..n /\ m - 1 = i /\ m \notin 1..i /\ 1..m = 1..i \union {m} /\ 1..m \subseteq DOMAIN ws
    BY <1>1, <1>14
  <2> HIDE DEF m
  <2>2. c[m] = IF Over(ws[m]) THEN c[i] ELSE Append(c[i], ws[m])
    BY <1>11, <2>1, Zenon
  <2>3. CASE Over(ws[m])
    <3>1. Kept(m) = Kept(i)
      BY <2>1, <2>3, Zenon
    <3> HIDE DEF Kept
    <3>2. Good(m)
      BY <1>14, <2>2, <2>3, <3>1, Zenon
    <3> QED BY <3>2 DEF m
  <2>4. CASE ~Over(ws[m])
    <3>1. Kept(m) = Kept(i) \union {ws[m]}
      BY <2>1, <2>4, Zenon
    <3>2. \A x \in ToSet(c[i]) : x.key # ws[m].key
      <4> SUFFICES ASSUME NEW j \in 1..i PROVE ws[j].key # ws[m].key
        BY <1>14, Zenon
      <4> QED BY <2>1, Zenon DEF Distinct
    <3>3. ws[m] \in Windows
      BY <1>1, <2>1
    <3> HIDE DEF Kept
    <3>4. c[i] \in Seq(Windows) /\ Distinct(c[i]) /\ ToSet(c[i]) = Kept(i)
      BY <1>14, Zenon
    <3>5. PICK u : u = c[i]
      BY Zenon
    <3>6. PICK x : x = ws[m]
      BY Zenon
    <3>7. u \in Seq(Windows) /\ Distinct(u) /\ x \in Windows /\ \A y \in ToSet(u) : y.key # x.key
      BY <3>2, <3>3, <3>4, <3>5, <3>6, Zenon
    <3>8. /\ Append(u, x) \in Seq(Windows) /\ Distinct(Append(u, x))
          /\ ToSet(Append(u, x)) = ToSet(u) \union {x}
      BY ONLY <3>7, AppendWindow
    <3>9. c[m] = Append(u, x)
      BY <2>2, <2>4, <3>5, <3>6, Zenon
    <3>10. Good(m)
      BY <3>1, <3>4, <3>5, <3>6, <3>8, <3>9, Zenon
    <3> QED BY <3>10 DEF m
  <2> QED BY <2>3, <2>4
<1>15. Good(n)
  <2> DEFINE P == {i \in Nat : i <= n => Good(i)}
  <2>1. 0 \in P
    BY <1>13
  <2>2. ASSUME NEW i \in Nat, i \in P PROVE i + 1 \in P
    <3> HIDE DEF Good
    <3>1. i + 1 \in Nat /\ (i + 1 <= n => i + 1 \in 1..n /\ i <= n)
      BY <1>1
    <3>2. i + 1 <= n => Good(i + 1)
      BY <1>14, <2>2, <3>1, Zenon
    <3> QED BY <3>1, <3>2, Zenon
  <2> HIDE DEF Good
  <2>3. Nat \subseteq P
    <3> HIDE DEF P
    <3> QED BY <2>1, <2>2, NatInduct
  <2>4. n <= n
    BY <1>1
  <2> QED BY <1>1, <2>3, <2>4, Zenon
<1>16. Kept(n) = {w \in ToSet(ws) : ~Over(w)}
  BY <1>1, Zenon DEF ToSet
<1> HIDE DEF Kept
<1> QED BY <1>12, <1>15, <1>16, Zenon

\* Every set of positions has a first one.
LEMMA FirstOf ==
    ASSUME NEW n \in Nat, NEW t \in SUBSET (1..n), t # {}
    PROVE  Min(t) \in t
<1> DEFINE P == {m \in Nat : \A u \in SUBSET (1..m) : u # {} => \E x \in u : \A y \in u : x <= y}
<1>1. 0 \in P
  <2>1. \A u \in SUBSET (1..0) : u = {}
    OBVIOUS
  <2> QED BY <2>1
<1>2. ASSUME NEW m \in Nat, m \in P PROVE m + 1 \in P
  <2> SUFFICES ASSUME NEW u \in SUBSET (1..(m + 1)), u # {}
               PROVE  \E x \in u : \A y \in u : x <= y
    OBVIOUS
  <2> DEFINE v == u \cap (1..m)
  <2>1. CASE v = {}
    <3>1. \A x, y \in u : x <= y
      BY <2>1
    <3> QED BY <3>1, Zenon
  <2>2. CASE v # {}
    <3>1. v \in SUBSET (1..m)
      OBVIOUS
    <3>2. PICK x \in v : \A y \in v : x <= y
      <4> HIDE DEF v
      <4> QED BY <1>2, <2>2, <3>1
    <3>3. \A y \in u : y \in v \/ y = m + 1
      OBVIOUS
    <3>4. x \in u /\ \A y \in u : x <= y
      BY <3>2, <3>3
    <3> QED BY <3>4
  <2> QED BY <2>1, <2>2
<1>3. Nat \subseteq P
  <2> HIDE DEF P
  <2> QED BY <1>1, <1>2, NatInduct
<1>4. \E x \in t : \A y \in t : x <= y
  BY <1>3
<1> QED BY <1>4, Zenon DEF Min

LEMMA PositionIs ==
    ASSUME NEW ws \in Seq(Windows), NEW key
    PROVE  /\ Position(ws, key) = 0 <=> \A w \in ToSet(ws) : w.key # key
           /\ Position(ws, key) # 0 =>
                 Position(ws, key) \in DOMAIN ws /\ ws[Position(ws, key)].key = key
<1> DEFINE I == {i \in 1..Len(ws) : ws[i].key = key}
<1>1. Position(ws, key) = IF I # {} THEN Min(I) ELSE 0
  BY Zenon DEF Position, SelectInSeq
<1>2. Len(ws) \in Nat /\ DOMAIN ws = 1..Len(ws) /\ I \in SUBSET (1..Len(ws))
  OBVIOUS
<1>3. I = {} <=> \A w \in ToSet(ws) : w.key # key
  BY <1>2, Zenon DEF ToSet
<1>4. CASE I = {}
  BY <1>1, <1>3, <1>4, Zenon
<1>5. CASE I # {}
  <2>1. Min(I) \in I
    <3> HIDE DEF I
    <3> QED BY <1>2, <1>5, FirstOf, Zenon
  <2>2. Min(I) # 0 /\ Min(I) \in DOMAIN ws /\ ws[Min(I)].key = key
    BY <1>2, <2>1
  <2> QED BY <1>1, <1>3, <1>5, <2>2, Zenon
<1> QED BY <1>4, <1>5

\* Room is made by dropping windows.
LEMMA EvictEffect ==
    ASSUME LimitAssumption, NEW ws \in Seq(Windows), Distinct(ws)
    PROVE  Evict(ws) \in Seq(Windows) /\ Distinct(Evict(ws)) /\ ToSet(Evict(ws)) \subseteq ToSet(ws)
<1> DEFINE live == sweep(ws)
           over == Len(live) - (maxKeys - 1)
<1>1. live \in Seq(Windows) /\ Distinct(live) /\ ToSet(live) \subseteq ToSet(ws)
  BY SweepEffect
<1>2. maxKeys \in Nat /\ maxKeys >= 1
  BY DEF LimitAssumption
<1> HIDE DEF live
<1>3. CASE Len(ws) < maxKeys
  BY <1>3, Zenon DEF Evict
<1>4. CASE ~(Len(ws) < maxKeys) /\ over <= 0
  BY <1>1, <1>4, Zenon DEF Evict, live
<1>5. CASE ~(Len(ws) < maxKeys) /\ ~(over <= 0)
  <2> DEFINE t == SubSeq(live, over + 1, Len(live))
  <2>1. Evict(ws) = t
    BY <1>5, Zenon DEF Evict, live
  <2>2. t \in Seq(Windows) /\ DOMAIN t = 1..Len(t) /\ Len(t) = Len(live) - over
    <3>1. Len(live) \in Nat /\ over \in Nat /\ over + 1 >= 1 /\ over <= Len(live)
      BY <1>1, <1>2, <1>5
    <3> HIDE DEF over
    <3>2. t \in Seq(Windows) /\ Len(t) = Len(live) - over
      BY <1>1, <3>1
    <3> QED BY <3>2
  <2>3. over \in Nat /\ Len(live) \in Nat /\ over <= Len(live)
    BY <1>1, <1>2, <1>5
  <2>4. \A i \in DOMAIN t : i + over \in DOMAIN live /\ t[i] = live[i + over]
    <3> HIDE DEF over
    <3>1. DOMAIN t = 1..(Len(live) - over) /\ DOMAIN live = 1..Len(live)
      BY <1>1, <2>2, <2>3
    <3>2. \A i \in 1..(Len(live) - over) : t[i] = live[i + over]
      BY <1>1, <2>3
    <3>3. \A i \in 1..(Len(live) - over) : i + over \in 1..Len(live)
      BY <2>3
    <3> HIDE DEF t
    <3> QED BY <3>1, <3>2, <3>3, Zenon
  <2> HIDE DEF t, over
  <2>5. Distinct(t)
    <3> SUFFICES ASSUME NEW i \in DOMAIN t, NEW j \in DOMAIN t, t[i].key = t[j].key PROVE i = j
      BY Zenon DEF Distinct
    <3>1. i + over = j + over
      BY <1>1, <2>4, Zenon DEF Distinct
    <3>2. DOMAIN t \subseteq Nat
      BY <2>2
    <3> HIDE DEF Distinct
    <3> QED BY <2>3, <3>1, <3>2
  <2>6. ToSet(t) \subseteq ToSet(live)
    BY <2>4, Zenon DEF ToSet
  <2> QED BY <1>1, <2>1, <2>2, <2>5, <2>6, Zenon
<1> QED BY <1>3, <1>4, <1>5

\* vs is ws with the window at one place replaced by w.
Replaced(ws, at, w, vs) == vs = [ws EXCEPT ![at] = w]

LEMMA ReplaceWindow ==
    ASSUME NEW s \in Seq(Windows), Distinct(s), NEW at \in DOMAIN s, NEW w \in Windows,
           w.key = s[at].key, NEW t, Replaced(s, at, w, t)
    PROVE  t \in Seq(Windows) /\ Distinct(t) /\ ToSet(t) = (ToSet(s) \ {s[at]}) \union {w}
<1>1. t \in Seq(Windows) /\ DOMAIN t = DOMAIN s
  BY DEF Replaced
<1>2. t[at] = w /\ \A i \in DOMAIN s : i # at => t[i] = s[i]
  BY DEF Replaced
<1>3. \A i \in DOMAIN s : t[i].key = s[i].key
  BY <1>2
<1>4. Distinct(t)
  BY <1>1, <1>3, Zenon DEF Distinct
<1>5. \A i \in DOMAIN s : s[i] = s[at] => i = at
  BY Zenon DEF Distinct
<1>6. ToSet(t) = (ToSet(s) \ {s[at]}) \union {w}
  <2>1. \A x : (x \in ToSet(t) <=> \E i \in DOMAIN t : t[i] = x)
               /\ (x \in ToSet(s) <=> \E i \in DOMAIN s : s[i] = x)
    BY Zenon DEF ToSet
  <2>2. \A x : (\E i \in DOMAIN t : t[i] = x) <=> x = w \/ ((\E i \in DOMAIN s : s[i] = x) /\ x # s[at])
    BY <1>1, <1>2, <1>5, Zenon
  <2> QED BY <2>1, <2>2
<1> QED BY <1>1, <1>4, <1>6, Zenon

-----------------------------------------------------------------------------
(* A hit.                                                                  *)

\* The window of k that is not over, if it has one.
LiveOf(k, ws) == {w \in ToSet(ws) : w.key = k /\ ~Over(w)}

Fresh(k) == [key |-> k, count |-> 0, resetAt |-> clock + windowMs]

\* The windows when hit() counts: swept if it is time, with one for the key.
Swept(l) == IF l.hitsSinceSweep + 1 >= sweepEvery THEN sweep(l.windows) ELSE l.windows

Renewed(ws, key) ==
    LET old == Position(ws, key)
    IN  IF old = 0 THEN Append(Evict(ws), Fresh(key))
        ELSE IF Over(ws[old]) THEN [ws EXCEPT ![old] = Fresh(key)] ELSE ws

Lost(ws, vs) == {w.key : w \in {x \in ToSet(ws) : ~Over(x) /\ Position(vs, x.key) = 0}}

\* The key was charged: a window that had room took the hit, a new one if it had none.
Spent(k, ws, vs) ==
    \/ LiveOf(k, ws) = {} /\ LiveOf(k, vs) = {[Fresh(k) EXCEPT !.count = 1]}
    \/ \E w \in Windows : /\ LiveOf(k, ws) = {w} /\ w.count < limit(k)
                          /\ LiveOf(k, vs) = {[w EXCEPT !.count = @ + 1]}

LEMMA LimitType ==
    ASSUME LimitAssumption
    PROVE  /\ \A k \in Keys : limit(k) \in Nat \ {0}
           /\ windowMs \in Nat \ {0} /\ sweepEvery \in Nat \ {0} /\ maxKeys \in Nat \ {0}
<1>1. {perIp, encodePerIp, windowMs, sweepEvery, maxKeys} \subseteq Nat \ {0} /\ perApp \in Nat
  BY DEF LimitAssumption
<1>2. ASSUME NEW k \in Keys PROVE limit(k) \in Nat \ {0}
  <2>1. CASE k \in {"ip"} \X Ips
    BY <1>1, <2>1 DEF limit
  <2>2. CASE k \in {"encode"} \X Ips
    BY <1>1, <2>2 DEF limit
  <2>3. CASE k \in {"app"} \X {app \in Apps : perApp > 0}
    <3>1. k[1] = "app" /\ perApp > 0
      BY <2>3
    <3> QED BY <1>1, <3>1 DEF limit
  <2> QED BY <2>1, <2>2, <2>3 DEF Keys
<1> QED BY <1>1, <1>2

LEMMA FreshType ==
    ASSUME LimitAssumption, clock \in Nat, NEW k \in Keys
    PROVE  Fresh(k) \in Windows /\ ~Over(Fresh(k)) /\ Fresh(k).key = k /\ Fresh(k).count = 0
<1>1. windowMs \in Nat \ {0}
  BY LimitType
<1> QED BY <1>1 DEF Fresh, Windows, Over

LEMMA SweptEffect ==
    ASSUME NEW l, l.windows \in Seq(Windows), Distinct(l.windows)
    PROVE  /\ Swept(l) \in Seq(Windows) /\ Distinct(Swept(l))
           /\ \A k : LiveOf(k, Swept(l)) = LiveOf(k, l.windows)
<1>1. CASE l.hitsSinceSweep + 1 >= sweepEvery
  <2>1. Swept(l) = sweep(l.windows)
    BY <1>1, Zenon DEF Swept
  <2>2. /\ sweep(l.windows) \in Seq(Windows) /\ Distinct(sweep(l.windows))
        /\ ToSet(sweep(l.windows)) = {w \in ToSet(l.windows) : ~Over(w)}
    BY SweepEffect
  <2>3. \A k : LiveOf(k, sweep(l.windows)) = LiveOf(k, l.windows)
    BY <2>2 DEF LiveOf
  <2> QED BY <2>1, <2>2, <2>3, Zenon
<1>2. CASE ~(l.hitsSinceSweep + 1 >= sweepEvery)
  BY <1>2, Zenon DEF Swept
<1> QED BY <1>1, <1>2

\* No two windows of a set share their key.
LEMMA OneEach ==
    ASSUME NEW ws, Distinct(ws)
    PROVE  \A v, w \in ToSet(ws) : v.key = w.key => v = w
  BY Zenon DEF Distinct, ToSet

RenewedTo(ws, key, vs) == vs = Renewed(ws, key)

\* Other keys keep their window or lose it to the cap; the key has one, that it had before or
\* that is fresh.
Renewal(ws, key, vs) ==
    /\ vs \in Seq(Windows) /\ Distinct(vs)
    /\ \A k \in Keys \ {key} : k \in Lost(ws, vs) \/ LiveOf(k, vs) = LiveOf(k, ws)
    /\ Lost(ws, vs) \subseteq Keys
    /\ \E w \in Windows : /\ LiveOf(key, vs) = {w} /\ w.key = key
                          /\ LiveOf(key, ws) = {w} \/ (LiveOf(key, ws) = {} /\ w = Fresh(key))

LEMMA RenewedEffect ==
    ASSUME LimitAssumption, clock \in Nat, NEW ws \in Seq(Windows), Distinct(ws), NEW key \in Keys,
           NEW vs, RenewedTo(ws, key, vs)
    PROVE  Renewal(ws, key, vs)
<1> DEFINE old == Position(ws, key)
           f == Fresh(key)
<1>1. f \in Windows /\ ~Over(f) /\ f.key = key
  BY FreshType
<1>2. /\ old = 0 <=> \A w \in ToSet(ws) : w.key # key
      /\ old # 0 => old \in DOMAIN ws /\ ws[old].key = key
  BY PositionIs
<1>3. \A v, w \in ToSet(ws) : v.key = w.key => v = w
  BY OneEach
<1>4. Lost(ws, vs) \subseteq Keys
  <2>1. \A w \in ToSet(ws) : w.key \in Keys
    <3>1. \A i \in DOMAIN ws : ws[i] \in Windows
      OBVIOUS
    <3> QED BY <3>1 DEF ToSet, Windows
  <2> QED BY <2>1, Zenon DEF Lost
<1> HIDE DEF f, old
<1>5. vs = IF old = 0 THEN Append(Evict(ws), f)
           ELSE IF Over(ws[old]) THEN [ws EXCEPT ![old] = f] ELSE ws
  BY Zenon DEF RenewedTo, Renewed, f, old
\* What is common to a window added and one renewed.
<1>6. ASSUME vs \in Seq(Windows), Distinct(vs), NEW T, T \subseteq ToSet(ws),
             ToSet(vs) = T \union {f}, LiveOf(key, ws) = {}
      PROVE  /\ \A k \in Keys \ {key} : k \in Lost(ws, vs) \/ LiveOf(k, vs) = LiveOf(k, ws)
             /\ LiveOf(key, vs) = {f}
  <2>1. LiveOf(key, vs) = {f}
    BY <1>1, <1>6 DEF LiveOf
  <2>2. ASSUME NEW k \in Keys \ {key}, k \notin Lost(ws, vs)
        PROVE  LiveOf(k, vs) = LiveOf(k, ws)
    <3>1. LiveOf(k, vs) \subseteq LiveOf(k, ws)
      BY <1>1, <1>6 DEF LiveOf
    <3>2. ASSUME NEW w \in LiveOf(k, ws) PROVE w \in ToSet(vs)
      <4>1. w \in ToSet(ws) /\ w.key = k /\ ~Over(w)
        BY DEF LiveOf
      <4>2. Position(vs, k) # 0
        BY <2>2, <4>1, Zenon DEF Lost
      <4>3. PICK v \in ToSet(vs) : v.key = k
        BY <1>6, <4>2, PositionIs, Zenon
      <4>4. v \in ToSet(ws)
        BY <1>1, <1>6, <4>3, Zenon
      <4> QED BY <1>3, <4>1, <4>3, <4>4, Zenon
    <3> QED BY <3>1, <3>2 DEF LiveOf
  <2> QED BY <2>1, <2>2, Zenon
<1>7. CASE old = 0
  <2>1. Evict(ws) \in Seq(Windows) /\ Distinct(Evict(ws)) /\ ToSet(Evict(ws)) \subseteq ToSet(ws)
    BY EvictEffect
  <2>2. \A w \in ToSet(Evict(ws)) : w.key # f.key
    BY <1>1, <1>2, <1>7, <2>1, Zenon
  <2>3. vs = Append(Evict(ws), f)
    BY <1>5, <1>7, Zenon
  <2>4. vs \in Seq(Windows) /\ Distinct(vs) /\ ToSet(vs) = ToSet(Evict(ws)) \union {f}
    BY <1>1, <2>1, <2>2, <2>3, AppendWindow, Zenon
  <2>5. LiveOf(key, ws) = {}
    BY <1>2, <1>7, Zenon DEF LiveOf
  <2>6. /\ \A k \in Keys \ {key} : k \in Lost(ws, vs) \/ LiveOf(k, vs) = LiveOf(k, ws)
        /\ LiveOf(key, vs) = {f}
    BY <1>6, <2>1, <2>4, <2>5, Zenon
  <2> QED BY <1>1, <1>4, <2>4, <2>5, <2>6, Zenon DEF f, Renewal
<1>8. CASE old # 0 /\ Over(ws[old])
  <2>1. vs = [ws EXCEPT ![old] = f] /\ old \in DOMAIN ws /\ ws[old].key = key
    BY <1>2, <1>5, <1>8, Zenon
  <2>2. vs \in Seq(Windows) /\ Distinct(vs) /\ ToSet(vs) = (ToSet(ws) \ {ws[old]}) \union {f}
    <3>1. f.key = ws[old].key
      BY <1>1, <2>1, Zenon
    <3>2. Replaced(ws, old, f, vs)
      BY <2>1, Zenon DEF Replaced
    <3> QED BY <1>1, <2>1, <3>1, <3>2, ReplaceWindow, Zenon
  <2>3. LiveOf(key, ws) = {}
    <3>1. ws[old] \in ToSet(ws)
      BY <2>1, Zenon DEF ToSet
    <3>2. \A w \in ToSet(ws) : w.key = key => w = ws[old]
      BY <1>3, <2>1, <3>1, Zenon
    <3> QED BY <1>8, <3>2, Zenon DEF LiveOf
  <2>4. ToSet(ws) \ {ws[old]} \subseteq ToSet(ws)
    OBVIOUS
  <2>5. /\ \A k \in Keys \ {key} : k \in Lost(ws, vs) \/ LiveOf(k, vs) = LiveOf(k, ws)
        /\ LiveOf(key, vs) = {f}
    BY <1>6, <2>2, <2>3, <2>4, Zenon
  <2> QED BY <1>1, <1>4, <2>2, <2>3, <2>5, Zenon DEF f, Renewal
<1>9. CASE old # 0 /\ ~Over(ws[old])
  <2>1. vs = ws /\ old \in DOMAIN ws /\ ws[old].key = key
    BY <1>2, <1>5, <1>9, Zenon
  <2>2. ws[old] \in ToSet(ws) /\ ws[old] \in Windows
    <3>1. ws[old] \in Windows
      BY <2>1
    <3> QED BY <2>1, <3>1, Zenon DEF ToSet
  <2>3. LiveOf(key, ws) = {ws[old]}
    <3>1. \A w \in ToSet(ws) : w.key = key => w = ws[old]
      BY <1>3, <2>1, <2>2, Zenon
    <3> QED BY <1>9, <2>1, <2>2, <3>1 DEF LiveOf
  <2> QED BY <1>4, <2>1, <2>2, <2>3, Zenon DEF Renewal
<1> QED BY <1>7, <1>8, <1>9

LEMMA CountedWindow ==
    ASSUME NEW w \in Windows, NEW v, v = [w EXCEPT !.count = @ + 1]
    PROVE  v \in Windows /\ v.key = w.key /\ v.resetAt = w.resetAt /\ v.count = w.count + 1
<1>1. /\ w = [key |-> w.key, count |-> w.count, resetAt |-> w.resetAt]
      /\ w.key \in Keys /\ w.count \in Nat /\ w.resetAt \in Nat
  BY DEF Windows
<1>2. v = [key |-> w.key, count |-> w.count + 1, resetAt |-> w.resetAt]
  BY <1>1
<1>3. w.count + 1 \in Nat
  BY <1>1
<1> QED BY <1>1, <1>2, <1>3 DEF Windows

\* What hit() returns, in these terms.
LEMMA HitIs ==
    ASSUME NEW l, NEW key
    PROVE  hit(l, key) =
             LET ws == Renewed(Swept(l), key)
                 at == Position(ws, key)
                 ok == ws[at].count < limit(key)
             IN  [windows |-> IF ok THEN [ws EXCEPT ![at].count = @ + 1] ELSE ws,
                  hitsSinceSweep |->
                     IF l.hitsSinceSweep + 1 >= sweepEvery
                        \/ (Position(Swept(l), key) = 0 /\ Len(Swept(l)) >= maxKeys)
                     THEN 0 ELSE l.hitsSinceSweep + 1,
                  allowed |-> ok,
                  charged |-> IF ok THEN l.charged \union {key} ELSE l.charged,
                  evicted |-> l.evicted \union Lost(Swept(l), ws)]
  BY Zenon DEF hit, Swept, Renewed, Lost, Fresh

LEMMA HitEffect ==
    ASSUME LimitAssumption, clock \in Nat, NEW l, l.windows \in Seq(Windows), Distinct(l.windows),
           NEW key \in Keys, NEW h, h = hit(l, key)
    PROVE  /\ h.windows \in Seq(Windows) /\ Distinct(h.windows)
           /\ l.evicted \subseteq h.evicted /\ h.evicted \subseteq l.evicted \union Keys
           /\ \A k \in Keys \ {key} :
                 k \in h.evicted \/ LiveOf(k, h.windows) = LiveOf(k, l.windows)
           /\ \/ /\ h.charged = l.charged \union {key}
                 /\ Spent(key, l.windows, h.windows)
              \/ /\ h.charged = l.charged
                 /\ LiveOf(key, h.windows) = LiveOf(key, l.windows)
<1>1. PICK ws : ws = Renewed(Swept(l), key)
  BY Zenon
<1>2. PICK at : at = Position(ws, key)
  BY Zenon
<1>3. /\ Swept(l) \in Seq(Windows) /\ Distinct(Swept(l))
      /\ \A k : LiveOf(k, Swept(l)) = LiveOf(k, l.windows)
  BY SweptEffect, Zenon
<1>4. /\ ws \in Seq(Windows) /\ Distinct(ws)
      /\ \A k \in Keys \ {key} : k \in Lost(Swept(l), ws) \/ LiveOf(k, ws) = LiveOf(k, l.windows)
      /\ Lost(Swept(l), ws) \subseteq Keys
      /\ \E w \in Windows :
            /\ LiveOf(key, ws) = {w} /\ w.key = key
            /\ LiveOf(key, l.windows) = {w} \/ (LiveOf(key, l.windows) = {} /\ w = Fresh(key))
  <2>1. PICK s : s = Swept(l)
    BY Zenon
  <2>2. s \in Seq(Windows) /\ Distinct(s) /\ RenewedTo(s, key, ws)
    BY <1>1, <1>3, <2>1, Zenon DEF RenewedTo
  <2>3. \A k : LiveOf(k, s) = LiveOf(k, l.windows)
    BY <1>3, <2>1, Zenon
  <2>4. /\ ws \in Seq(Windows) /\ Distinct(ws)
        /\ \A k \in Keys \ {key} : k \in Lost(s, ws) \/ LiveOf(k, ws) = LiveOf(k, s)
        /\ Lost(s, ws) \subseteq Keys
        /\ \E w \in Windows : /\ LiveOf(key, ws) = {w} /\ w.key = key
                              /\ LiveOf(key, s) = {w} \/ (LiveOf(key, s) = {} /\ w = Fresh(key))
    <3>1. Renewal(s, key, ws)
      BY <2>2, RenewedEffect
    <3> QED BY <3>1, Zenon DEF Renewal
  <2> QED BY <2>1, <2>3, <2>4, Zenon
<1>5. PICK w \in Windows :
            /\ LiveOf(key, ws) = {w} /\ w.key = key
            /\ LiveOf(key, l.windows) = {w} \/ (LiveOf(key, l.windows) = {} /\ w = Fresh(key))
  BY <1>4, Zenon
<1>6. at \in DOMAIN ws /\ ws[at] = w
  <2>1. w \in ToSet(ws)
    BY <1>5, Zenon DEF LiveOf
  <2>2. at # 0
    BY <1>2, <1>4, <1>5, <2>1, PositionIs, Zenon
  <2>3. at \in DOMAIN ws /\ ws[at].key = key
    BY <1>2, <1>4, <2>2, PositionIs, Zenon
  <2>4. ws[at] \in ToSet(ws)
    BY <2>3, Zenon DEF ToSet
  <2> QED BY <1>4, <1>5, <2>1, <2>3, <2>4, OneEach, Zenon
<1>7. /\ h.windows = IF w.count < limit(key) THEN [ws EXCEPT ![at].count = @ + 1] ELSE ws
      /\ h.charged = IF w.count < limit(key) THEN l.charged \union {key} ELSE l.charged
      /\ h.evicted = l.evicted \union Lost(Swept(l), ws)
  <2>1. /\ hit(l, key).windows = IF ws[at].count < limit(key) THEN [ws EXCEPT ![at].count = @ + 1]
                                                               ELSE ws
        /\ hit(l, key).charged = IF ws[at].count < limit(key) THEN l.charged \union {key}
                                                               ELSE l.charged
        /\ hit(l, key).evicted = l.evicted \union Lost(Swept(l), ws)
    BY <1>1, <1>2, HitIs, Zenon
  <2> QED BY <1>6, <2>1, Zenon
<1>8. CASE ~(w.count < limit(key))
  <2>1. LiveOf(key, l.windows) = {w}
    <3>1. limit(key) \in Nat \ {0}
      BY LimitType
    <3>2. Fresh(key).count = 0
      BY FreshType
    <3> QED BY <1>5, <1>8, <3>1, <3>2
  <2>2. h.windows = ws /\ h.charged = l.charged
    BY <1>7, <1>8, Zenon
  <2> QED BY <1>4, <1>5, <1>7, <2>1, <2>2
<1>9. CASE w.count < limit(key)
  <2> DEFINE v == [w EXCEPT !.count = @ + 1]
  <2>1. v \in Windows /\ v.key = w.key /\ v.resetAt = w.resetAt /\ w.count \in Nat
    <3>1. w.count \in Nat
      BY DEF Windows
    <3> QED BY <3>1, CountedWindow
  <2>2. [ws EXCEPT ![at].count = @ + 1] = [ws EXCEPT ![at] = v]
    BY <1>4, <1>6
  <2>3. h.windows = [ws EXCEPT ![at] = v] /\ h.charged = l.charged \union {key}
    BY <1>7, <1>9, <2>2, Zenon
  <2> HIDE DEF v
  <2>4. /\ h.windows \in Seq(Windows) /\ Distinct(h.windows)
        /\ ToSet(h.windows) = (ToSet(ws) \ {w}) \union {v}
    <3>1. PICK u : u = h.windows
      BY Zenon
    <3>2. Replaced(ws, at, v, u) /\ v.key = ws[at].key
      BY <1>6, <2>1, <2>3, <3>1, Zenon DEF Replaced
    <3>3. at \in DOMAIN ws
      BY <1>6
    <3>4. u \in Seq(Windows) /\ Distinct(u) /\ ToSet(u) = (ToSet(ws) \ {ws[at]}) \union {v}
      <4>1. /\ ws \in Seq(Windows) /\ Distinct(ws) /\ at \in DOMAIN ws
            /\ v \in Windows /\ v.key = ws[at].key
        BY <1>4, <2>1, <3>2, <3>3, Zenon
      <4> QED BY <3>2, <4>1, ReplaceWindow
    <3> QED BY <1>6, <3>1, <3>4, Zenon
  <2>5. ~Over(v)
    <3>1. ~Over(w)
      BY <1>5, Zenon DEF LiveOf
    <3> QED BY <2>1, <3>1, Zenon DEF Over
  <2>6. \A k \in Keys \ {key} : LiveOf(k, h.windows) = LiveOf(k, ws)
    BY <1>5, <2>1, <2>4 DEF LiveOf
  <2>7. LiveOf(key, h.windows) = {v}
    BY <1>5, <2>1, <2>4, <2>5 DEF LiveOf
  <2>8. Spent(key, l.windows, h.windows)
    <3>1. CASE LiveOf(key, l.windows) = {w}
      BY <1>9, <2>7, <3>1, Zenon DEF Spent, v
    <3>2. CASE LiveOf(key, l.windows) = {} /\ w = Fresh(key)
      <4>1. v = [Fresh(key) EXCEPT !.count = 1]
        <5>1. Fresh(key).count = 0
          BY FreshType
        <5> QED BY <3>2, <5>1 DEF v, Fresh
      <4> QED BY <2>7, <3>2, <4>1, Zenon DEF Spent
    <3> QED BY <1>5, <3>1, <3>2
  <2> QED BY <1>4, <1>7, <2>3, <2>4, <2>6, <2>8
<1> QED BY <1>8, <1>9

\* What the hits of a request have done so far, of those made for the keys in done.
Charged(l, done) ==
    /\ l.windows \in Seq(Windows) /\ Distinct(l.windows)
    /\ l.charged \subseteq done
    /\ evicted \subseteq l.evicted /\ l.evicted \subseteq Keys
    /\ \A k \in Keys \ l.evicted :
          IF k \in l.charged THEN Spent(k, limiter.windows, l.windows)
          ELSE LiveOf(k, l.windows) = LiveOf(k, limiter.windows)

LEMMA HitCharges ==
    ASSUME LimitAssumption, clock \in Nat, NEW l, NEW done, Charged(l, done),
           NEW key \in Keys, key \notin done
    PROVE  Charged(hit(l, key), done \union {key})
<1>1. PICK h : h = hit(l, key)
  BY Zenon
<1>2. l.windows \in Seq(Windows) /\ Distinct(l.windows)
  BY Zenon DEF Charged
<1>3. /\ h.windows \in Seq(Windows) /\ Distinct(h.windows)
      /\ l.evicted \subseteq h.evicted /\ h.evicted \subseteq l.evicted \union Keys
      /\ \A k \in Keys \ {key} :
            k \in h.evicted \/ LiveOf(k, h.windows) = LiveOf(k, l.windows)
      /\ \/ /\ h.charged = l.charged \union {key}
            /\ Spent(key, l.windows, h.windows)
         \/ /\ h.charged = l.charged
            /\ LiveOf(key, h.windows) = LiveOf(key, l.windows)
  BY <1>1, <1>2, HitEffect
<1>4. ASSUME NEW k \in Keys \ h.evicted
      PROVE  IF k \in h.charged THEN Spent(k, limiter.windows, h.windows)
             ELSE LiveOf(k, h.windows) = LiveOf(k, limiter.windows)
  <2>1. /\ k \in Keys \ l.evicted
        /\ IF k \in l.charged THEN Spent(k, limiter.windows, l.windows)
           ELSE LiveOf(k, l.windows) = LiveOf(k, limiter.windows)
    BY <1>3, Zenon DEF Charged
  <2>2. CASE k = key
    <3>1. LiveOf(key, l.windows) = LiveOf(key, limiter.windows) /\ key \notin l.charged
      BY <2>1, <2>2, Zenon DEF Charged
    <3>2. Spent(key, l.windows, h.windows) => Spent(key, limiter.windows, h.windows)
      BY <3>1, Zenon DEF Spent
    <3> QED BY <1>3, <2>2, <3>1, <3>2
  <2>3. CASE k # key
    <3>1. LiveOf(k, h.windows) = LiveOf(k, l.windows) /\ (k \in h.charged <=> k \in l.charged)
      BY <1>3, <2>3
    <3>2. Spent(k, limiter.windows, l.windows) => Spent(k, limiter.windows, h.windows)
      BY <3>1, Zenon DEF Spent
    <3> QED BY <2>1, <3>1, <3>2, Zenon
  <2> QED BY <2>2, <2>3
<1>5. h.charged \subseteq done \union {key}
  BY <1>3 DEF Charged
<1>6. evicted \subseteq h.evicted /\ h.evicted \subseteq Keys
  BY <1>3 DEF Charged
<1>7. Charged(h, done \union {key})
  BY <1>3, <1>4, <1>5, <1>6, Zenon DEF Charged
<1> QED BY <1>1, <1>7

-----------------------------------------------------------------------------
(* The invariant.                                                          *)

LimitTypes ==
    /\ clock \in Nat
    /\ limiter.windows \in Seq(Windows) /\ Distinct(limiter.windows)
    /\ evicted \subseteq Keys
    /\ recent \in [Keys -> [1..windowMs -> Nat]]

\* How long ago, counting the present moment, a window was opened.
Age(w, moment) == moment + windowMs - w.resetAt + 1

\* c counts the hits of k.  Those since its window was opened, the first one at the time of
\* opening, are at most what the window has counted; those before it are fewer than the
\* budget; and so are all of them while k has no window.
Frugal(k, r, c, live, moment) ==
    /\ live = {} => r[1] = 0 /\ c[windowMs] < limit(k)
    /\ \A w \in live :
          /\ w.resetAt <= moment + windowMs
          /\ w.count <= limit(k) /\ c[Age(w, moment)] <= w.count
          /\ r[Age(w, moment)] >= 1
          /\ c[windowMs] - c[Age(w, moment)] < limit(k)

LimitInv ==
    /\ LimitTypes
    /\ \A k \in Keys \ evicted : \E c :
          Counts(recent[k], c) /\ Frugal(k, recent[k], c, LiveOf(k, limiter.windows), clock)

\* A count is determined by what it counts.
LEMMA CountsUnique ==
    ASSUME LimitAssumption, NEW r \in [1..windowMs -> Nat], NEW c, Counts(r, c), NEW d, Counts(r, d)
    PROVE  c = d
<1>1. windowMs \in Nat
  BY LimitType
<1>2. /\ c \in [0..windowMs -> Nat] /\ c[0] = 0 /\ \A i \in 1..windowMs : c[i] = c[i - 1] + r[i]
      /\ d \in [0..windowMs -> Nat] /\ d[0] = 0 /\ \A i \in 1..windowMs : d[i] = d[i - 1] + r[i]
  BY Zenon DEF Counts
<1> DEFINE P == {i \in Nat : i <= windowMs => c[i] = d[i]}
<1>3. 0 \in P
  BY <1>2
<1>4. ASSUME NEW i \in Nat, i \in P PROVE i + 1 \in P
  <2> SUFFICES ASSUME i + 1 <= windowMs PROVE c[i + 1] = d[i + 1]
    OBVIOUS
  <2>1. i + 1 \in 1..windowMs /\ i <= windowMs /\ (i + 1) - 1 = i
    BY <1>1
  <2>2. c[i + 1] = c[i] + r[i + 1] /\ d[i + 1] = d[i] + r[i + 1]
    BY <1>2, <2>1
  <2> QED BY <1>4, <2>1, <2>2
<1>5. Nat \subseteq P
  <2> HIDE DEF P
  <2> QED BY <1>3, <1>4, NatInduct
<1>6. \A i \in 0..windowMs : c[i] = d[i]
  BY <1>1, <1>5
<1> QED BY <1>2, <1>6

OneMore(r, s) ==
    /\ r \in [1..windowMs -> Nat] /\ s \in [1..windowMs -> Nat]
    /\ s[1] = r[1] + 1 /\ \A i \in 1..windowMs : i # 1 => s[i] = r[i]

Higher(c, d) == \A i \in 1..windowMs : d[i] = c[i] + 1

\* One more hit at present raises every count by one.
LEMMA CountsHit ==
    ASSUME LimitAssumption, NEW r, NEW s, OneMore(r, s), NEW c, Counts(r, c)
    PROVE  \E d : Counts(s, d) /\ Higher(c, d)
<1>1. windowMs \in Nat /\ 1 \in 1..windowMs
  BY LimitType
<1>2. c \in [0..windowMs -> Nat] /\ c[0] = 0 /\ \A i \in 1..windowMs : c[i] = c[i - 1] + r[i]
  BY Zenon DEF Counts
<1>4. /\ r \in [1..windowMs -> Nat] /\ s \in [1..windowMs -> Nat]
      /\ s[1] = r[1] + 1 /\ \A i \in 1..windowMs : i # 1 => s[i] = r[i]
  BY Zenon DEF OneMore
<1> DEFINE d == [i \in 0..windowMs |-> IF i = 0 THEN 0 ELSE c[i] + 1]
<1>5. d \in [0..windowMs -> Nat] /\ d[0] = 0 /\ \A i \in 1..windowMs : d[i] = c[i] + 1
  <2>1. \A i \in 0..windowMs : (IF i = 0 THEN 0 ELSE c[i] + 1) \in Nat
    BY <1>2
  <2>2. d \in [0..windowMs -> Nat]
    BY <2>1, Zenon
  <2> QED BY <1>1, <2>2
<1> HIDE DEF d
<1>6. ASSUME NEW i \in 1..windowMs PROVE d[i] = d[i - 1] + s[i]
  <2>1. CASE i = 1
    <3>1. d[1] = c[1] + 1 /\ c[1] = c[0] + r[1] /\ r[1] \in Nat
      <4>1. 1 - 1 = 0
        OBVIOUS
      <4>2. c[1] = c[0] + r[1] /\ d[1] = c[1] + 1
        BY <1>1, <1>2, <1>5, <4>1, Zenon
      <4> QED BY <1>1, <1>4, <4>2
    <3> QED BY <1>2, <1>4, <1>5, <2>1, <3>1
  <2>2. CASE i # 1
    <3>1. i - 1 \in 1..windowMs /\ i - 1 \in 0..windowMs
      BY <1>1, <2>2
    <3>2. d[i] = c[i] + 1 /\ d[i - 1] = c[i - 1] + 1 /\ c[i] = c[i - 1] + r[i] /\ s[i] = r[i]
      BY <1>2, <1>4, <1>5, <2>2, <3>1
    <3>3. c[i - 1] \in Nat /\ r[i] \in Nat
      BY <1>2, <1>4, <3>1
    <3> QED BY <3>2, <3>3
  <2> QED BY <2>1, <2>2
<1>7. Counts(s, d)
  BY <1>5, <1>6, Zenon DEF Counts
<1> QED BY <1>5, <1>7, Zenon DEF Higher

Later(r, s) ==
    /\ r \in [1..windowMs -> Nat]
    /\ s = [t \in 1..windowMs |-> IF t = 1 THEN 0 ELSE r[t - 1]]

Older(c, d) == \A i \in 1..windowMs : d[i] = c[i - 1]

\* What was counted is a moment older.
LEMMA CountsShift ==
    ASSUME LimitAssumption, NEW r, NEW s, Later(r, s), NEW c, Counts(r, c)
    PROVE  \E d : Counts(s, d) /\ Older(c, d)
<1>1. windowMs \in Nat /\ 1 \in 1..windowMs
  BY LimitType
<1>2. c \in [0..windowMs -> Nat] /\ c[0] = 0 /\ \A i \in 1..windowMs : c[i] = c[i - 1] + r[i]
  BY Zenon DEF Counts
<1>3. r \in [1..windowMs -> Nat] /\ s = [t \in 1..windowMs |-> IF t = 1 THEN 0 ELSE r[t - 1]]
  BY Zenon DEF Later
<1>4. s[1] = 0 /\ \A i \in 1..windowMs : i # 1 => s[i] = r[i - 1]
  BY <1>1, <1>3
<1> DEFINE d == [i \in 0..windowMs |-> IF i = 0 THEN 0 ELSE c[i - 1]]
<1>5. d \in [0..windowMs -> Nat] /\ d[0] = 0 /\ \A i \in 1..windowMs : d[i] = c[i - 1]
  <2>1. \A i \in 0..windowMs : (IF i = 0 THEN 0 ELSE c[i - 1]) \in Nat
    BY <1>1, <1>2
  <2>2. d \in [0..windowMs -> Nat]
    BY <2>1, Zenon
  <2> QED BY <1>1, <2>2
<1> HIDE DEF d
<1>6. ASSUME NEW i \in 1..windowMs PROVE d[i] = d[i - 1] + s[i]
  <2>1. CASE i = 1
    BY <1>1, <1>2, <1>4, <1>5, <2>1
  <2>2. CASE i # 1
    <3> DEFINE j == i - 1
    <3>1. j \in 1..windowMs
      BY <1>1, <2>2
    <3>2. d[i] = c[j] /\ d[j] = c[j - 1] /\ c[j] = c[j - 1] + r[j] /\ s[i] = r[j]
      BY <1>2, <1>4, <1>5, <2>2, <3>1
    <3> QED BY <3>2
  <2> QED BY <2>1, <2>2
<1>7. Counts(s, d)
  BY <1>5, <1>6, Zenon DEF Counts
<1> QED BY <1>5, <1>7, Zenon DEF Older

LEMMA CountsNone ==
    ASSUME LimitAssumption
    PROVE  \E c : Counts([t \in 1..windowMs |-> 0], c) /\ c[windowMs] = 0
<1>1. windowMs \in Nat /\ windowMs \in 0..windowMs
  BY LimitType
<1> DEFINE c == [i \in 0..windowMs |-> 0]
<1>2. Counts([t \in 1..windowMs |-> 0], c) /\ c[windowMs] = 0
  BY <1>1 DEF Counts
<1> QED BY <1>2, Zenon

LEMMA AgeRange ==
    ASSUME LimitAssumption, clock \in Nat, NEW w \in Windows, ~Over(w), w.resetAt <= clock + windowMs
    PROVE  Age(w, clock) \in 1..windowMs /\ w.count \in Nat
<1>1. windowMs \in Nat \ {0}
  BY LimitType
<1>2. w.resetAt \in Nat /\ w.count \in Nat /\ w.resetAt > clock
  BY DEF Windows, Over
<1> QED BY <1>1, <1>2 DEF Age

LEMMA LiveType ==
    ASSUME NEW ws \in Seq(Windows), Distinct(ws), NEW k
    PROVE  /\ \A w \in LiveOf(k, ws) : w \in Windows /\ ~Over(w)
           /\ \A v, w \in LiveOf(k, ws) : v = w
<1>1. \A w \in ToSet(ws) : w \in Windows
  <2>1. \A i \in DOMAIN ws : ws[i] \in Windows
    OBVIOUS
  <2> QED BY <2>1, Zenon DEF ToSet
<1> QED BY <1>1, OneEach, Zenon DEF LiveOf

LEMMA BurstFollows == LimitAssumption /\ LimitInv => BurstIsBounded
<1> SUFFICES ASSUME LimitAssumption, LimitInv, NEW k \in Keys \ evicted
             PROVE  FoldLeft(+, 0, recent[k]) < 2 * limit(k)
  BY Zenon DEF BurstIsBounded
<1> DEFINE r == recent[k]
           live == LiveOf(k, limiter.windows)
<1>1. limit(k) \in Nat \ {0} /\ windowMs \in Nat \ {0}
  BY LimitType
<1>2. r \in [1..windowMs -> Nat] /\ clock \in Nat
  BY DEF LimitInv, LimitTypes
<1>3. PICK c : Counts(r, c) /\ Frugal(k, r, c, live, clock)
  BY Zenon DEF LimitInv
<1>4. FoldLeft(+, 0, r) = c[windowMs]
  <2>1. PICK d : Counts(r, d) /\ FoldLeft(+, 0, r) = d[windowMs]
    BY <1>2, CountsExist, Zenon
  <2>2. d = c
    BY <1>2, <1>3, <2>1, CountsUnique, Zenon
  <2> QED BY <2>1, <2>2, Zenon
<1>5. c[windowMs] \in Nat /\ \A i \in 1..windowMs : c[i] \in Nat
  BY <1>1, <1>3 DEF Counts
<1>6. ASSUME live = {} PROVE c[windowMs] < 2 * limit(k)
  <2>1. c[windowMs] < limit(k)
    BY <1>3, <1>6, Zenon DEF Frugal
  <2> HIDE DEF live, r
  <2> QED BY <1>1, <1>5, <2>1
<1>7. ASSUME NEW w \in live PROVE c[windowMs] < 2 * limit(k)
  <2>1. /\ w.resetAt <= clock + windowMs
        /\ w.count <= limit(k) /\ c[Age(w, clock)] <= w.count /\ c[windowMs] - c[Age(w, clock)] < limit(k)
    BY <1>3, <1>7, Zenon DEF Frugal
  <2>2. Age(w, clock) \in 1..windowMs /\ w.count \in Nat
    <3>1. w \in Windows /\ ~Over(w)
      BY <1>7, LiveType, Zenon DEF LimitInv, LimitTypes
    <3> QED BY <1>2, <2>1, <3>1, AgeRange, Zenon
  <2>3. c[Age(w, clock)] \in Nat
    BY <1>5, <2>2, Zenon
  <2> QED BY <1>1, <1>5, <2>1, <2>2, <2>3
<1> HIDE DEF live, r
<1>8. c[windowMs] < 2 * limit(k)
  BY <1>6, <1>7, Zenon
<1> QED BY <1>4, <1>8, Zenon DEF r

\* Taking a hit.
LEMMA FrugalHit ==
    ASSUME LimitAssumption, clock \in Nat, NEW k \in Keys, NEW r, NEW s, OneMore(r, s), NEW ws, NEW vs,
           NEW c, Counts(r, c), Frugal(k, r, c, LiveOf(k, ws), clock), Spent(k, ws, vs)
    PROVE  \E d : Counts(s, d) /\ Frugal(k, s, d, LiveOf(k, vs), clock)
<1>1. limit(k) \in Nat \ {0} /\ windowMs \in Nat \ {0}
  BY LimitType
<1>2. PICK d : Counts(s, d) /\ Higher(c, d)
  BY CountsHit, Zenon
<1>3. Counts(s, d) /\ \A i \in 1..windowMs : d[i] = c[i] + 1
  BY <1>2, Zenon DEF Higher
<1>4. c[0] = 0 /\ \A i \in 1..windowMs : c[i] \in Nat /\ c[i] = c[i - 1] + r[i] /\ r[i] \in Nat
  <2>1. c \in [0..windowMs -> Nat] /\ c[0] = 0 /\ \A i \in 1..windowMs : c[i] = c[i - 1] + r[i]
    BY Zenon DEF Counts
  <2>2. \A i \in 1..windowMs : i \in 0..windowMs
    BY <1>1
  <2>3. \A i \in 1..windowMs : c[i] \in Nat /\ r[i] \in Nat
    BY <2>1, <2>2, Zenon DEF OneMore
  <2> QED BY <2>1, <2>3, Zenon
<1>5. 1 \in 1..windowMs /\ windowMs \in 1..windowMs
  BY <1>1
<1>6. \A i \in 1..windowMs : s[i] >= r[i] /\ s[i] \in Nat
  <2>1. /\ s[1] = r[1] + 1 /\ \A i \in 1..windowMs : i # 1 => s[i] = r[i]
        /\ \A i \in 1..windowMs : r[i] \in Nat
    BY <1>4, Zenon DEF OneMore
  <2> QED BY <2>1
<1>8. c[1] = c[0] + r[1] /\ r[1] \in Nat
  <2>1. 1 - 1 = 0
    OBVIOUS
  <2> QED BY <1>4, <1>5, <2>1, Zenon
<1>7. Frugal(k, s, d, LiveOf(k, vs), clock)
  <2>1. CASE LiveOf(k, ws) = {} /\ LiveOf(k, vs) = {[Fresh(k) EXCEPT !.count = 1]}
    <3>1. r[1] = 0 /\ c[windowMs] < limit(k)
      BY <2>1, Zenon DEF Frugal
    <3>2. PICK v : v = [Fresh(k) EXCEPT !.count = 1]
      BY Zenon
    <3>3. v.count = 1 /\ v.resetAt = clock + windowMs
      BY <3>2 DEF Fresh
    <3>4. Age(v, clock) = 1
      BY <1>1, <3>3 DEF Age
    <3>5. d[1] = 1 /\ s[1] = 1 /\ d[windowMs] = c[windowMs] + 1
      <4>1. d[1] = c[1] + 1 /\ d[windowMs] = c[windowMs] + 1 /\ s[1] = r[1] + 1
        BY <1>3, <1>5, Zenon DEF OneMore
      <4> QED BY <1>4, <1>8, <3>1, <4>1
    <3>6. /\ v.resetAt <= clock + windowMs /\ v.count <= limit(k) /\ d[Age(v, clock)] <= v.count
          /\ s[Age(v, clock)] >= 1 /\ d[windowMs] - d[Age(v, clock)] < limit(k)
      BY <1>1, <1>4, <1>5, <3>1, <3>3, <3>4, <3>5
    <3> QED BY <2>1, <3>2, <3>6, Zenon DEF Frugal
  <2>2. ASSUME NEW w \in Windows, LiveOf(k, ws) = {w}, w.count < limit(k),
               LiveOf(k, vs) = {[w EXCEPT !.count = @ + 1]}
        PROVE  Frugal(k, s, d, LiveOf(k, vs), clock)
    <3>1. /\ w.resetAt <= clock + windowMs /\ c[Age(w, clock)] <= w.count
          /\ r[Age(w, clock)] >= 1 /\ c[windowMs] - c[Age(w, clock)] < limit(k)
      BY <2>2, Zenon DEF Frugal
    <3>2. ~Over(w)
      BY <2>2, Zenon DEF LiveOf
    <3>3. Age(w, clock) \in 1..windowMs /\ w.count \in Nat
      BY <3>1, <3>2, AgeRange, Zenon
    <3>4. PICK v : v = [w EXCEPT !.count = @ + 1]
      BY Zenon
    <3>5. v.count = w.count + 1 /\ v.resetAt = w.resetAt
      BY <3>4 DEF Windows
    <3>6. PICK a : a = Age(w, clock)
      BY Zenon
    <3>7. Age(v, clock) = a
      BY <3>5, <3>6, Zenon DEF Age
    <3>8. d[a] = c[a] + 1 /\ d[windowMs] = c[windowMs] + 1 /\ s[a] >= r[a] /\ a \in 1..windowMs
      BY <1>3, <1>5, <1>6, <3>3, <3>6, Zenon
    <3>9. c[a] \in Nat /\ r[a] \in Nat /\ s[a] \in Nat /\ c[windowMs] \in Nat
      BY <1>4, <1>5, <1>6, <3>8, Zenon
    <3>10. /\ v.resetAt <= clock + windowMs /\ v.count <= limit(k) /\ d[a] <= v.count
           /\ s[a] >= 1 /\ d[windowMs] - d[a] < limit(k)
      <4>1. c[a] <= w.count /\ r[a] >= 1 /\ c[windowMs] - c[a] < limit(k)
        BY <3>1, <3>6, Zenon
      <4>2. v.resetAt <= clock + windowMs
        BY <3>1, <3>5, Zenon
      <4>3. v.count <= limit(k)
        BY <1>1, <2>2, <3>3, <3>5
      <4>4. PICK x \in Nat : x = c[a]
        BY <3>9, Zenon
      <4>5. PICK y \in Nat : y = c[windowMs]
        BY <3>9, Zenon
      <4>6. PICK n \in Nat : n = w.count
        BY <3>3, Zenon
      <4>7. d[a] <= v.count
        <5>1. x <= n /\ d[a] = x + 1 /\ v.count = n + 1
          BY <3>5, <3>8, <4>1, <4>4, <4>6, Zenon
        <5> QED BY <5>1
      <4>8. d[windowMs] - d[a] < limit(k)
        <5>1. y - x < limit(k) /\ d[a] = x + 1 /\ d[windowMs] = y + 1
          BY <3>8, <4>1, <4>4, <4>5, Zenon
        <5> QED BY <5>1
      <4>9. s[a] >= 1
        <5>1. s[a] >= r[a] /\ r[a] >= 1 /\ s[a] \in Nat /\ r[a] \in Nat
          BY <3>8, <3>9, <4>1, Zenon
        <5> QED BY <5>1
      <4> QED BY <4>2, <4>3, <4>7, <4>8, <4>9
    <3> QED BY <2>2, <3>4, <3>7, <3>10, Zenon DEF Frugal
  <2> QED BY <2>1, <2>2, Zenon DEF Spent
<1> QED BY <1>3, <1>7, Zenon

Outlast(live, left, moment) ==
    /\ \A w \in live : w \in Windows /\ w.resetAt > moment
    /\ \A v, w \in live : v = w
    /\ left = {w \in live : w.resetAt > moment + 1}

\* A moment passing.
LEMMA FrugalElapse ==
    ASSUME LimitAssumption, NEW moment \in Nat, NEW k \in Keys, NEW r, NEW s, Later(r, s),
           NEW c, Counts(r, c), NEW live, Frugal(k, r, c, live, moment),
           NEW left, Outlast(live, left, moment)
    PROVE  \E d : Counts(s, d) /\ Frugal(k, s, d, left, moment + 1)
<1>1. limit(k) \in Nat \ {0} /\ windowMs \in Nat \ {0}
  BY LimitType
<1>2. PICK d : Counts(s, d) /\ Older(c, d)
  BY CountsShift, Zenon
<1>3. \A i \in 1..windowMs : d[i] = c[i - 1]
  BY <1>2, Zenon DEF Older
<1>4. c[0] = 0 /\ \A i \in 1..windowMs :
                     c[i] \in Nat /\ c[i - 1] \in Nat /\ c[i] = c[i - 1] + r[i] /\ r[i] \in Nat
  <2>1. c \in [0..windowMs -> Nat] /\ c[0] = 0 /\ \A i \in 1..windowMs : c[i] = c[i - 1] + r[i]
    BY Zenon DEF Counts
  <2>2. \A i \in 1..windowMs : i \in 0..windowMs /\ i - 1 \in 0..windowMs
    BY <1>1
  <2>3. \A i \in 1..windowMs : c[i] \in Nat /\ c[i - 1] \in Nat /\ r[i] \in Nat
    BY <2>1, <2>2, Zenon DEF Later
  <2> QED BY <2>1, <2>3, Zenon
<1>5. 1 \in 1..windowMs /\ windowMs \in 1..windowMs
  BY <1>1
<1>6. s[1] = 0 /\ \A i \in 1..windowMs : i # 1 => s[i] = r[i - 1]
  BY <1>1, <1>5 DEF Later
\* d counts one moment less than c.
<1>7. PICK m \in Nat : m = c[windowMs] /\ r[windowMs] \in Nat /\ r[windowMs] <= m
                       /\ d[windowMs] = m - r[windowMs]
  <2>1. c[windowMs] \in Nat /\ c[windowMs - 1] \in Nat /\ r[windowMs] \in Nat
        /\ c[windowMs] = c[windowMs - 1] + r[windowMs] /\ d[windowMs] = c[windowMs - 1]
    BY <1>3, <1>4, <1>5, Zenon
  <2> QED BY <2>1
<1>8. CASE live = {}
  <2>1. c[windowMs] < limit(k)
    BY <1>8, Zenon DEF Frugal
  <2>2. d[windowMs] < limit(k)
    BY <1>1, <1>7, <2>1
  <2>3. left = {}
    BY <1>8 DEF Outlast
  <2> QED BY <1>2, <1>6, <2>2, <2>3, Zenon DEF Frugal
<1>9. ASSUME NEW w \in live PROVE Frugal(k, s, d, left, moment + 1)
  <2>1. /\ w.resetAt <= moment + windowMs
        /\ w.count <= limit(k) /\ c[Age(w, moment)] <= w.count
        /\ r[Age(w, moment)] >= 1 /\ c[windowMs] - c[Age(w, moment)] < limit(k)
    BY <1>9, Zenon DEF Frugal
  <2>2. w.resetAt \in Nat /\ w.count \in Nat /\ w.resetAt > moment
    BY <1>9 DEF Windows, Outlast
  <2>3. PICK a : a = Age(w, moment)
    BY Zenon
  <2>4. a \in 1..windowMs /\ a = moment + windowMs - w.resetAt + 1 /\ Age(w, moment + 1) = a + 1
    BY <1>1, <2>1, <2>2, <2>3 DEF Age
  <2>5. PICK x \in Nat : x = c[a]
    BY <1>4, <2>4, Zenon
  <2>6. x <= w.count /\ r[a] >= 1 /\ m - x < limit(k)
    BY <1>7, <2>1, <2>3, <2>5, Zenon
  <2>7. CASE w.resetAt > moment + 1
    <3>1. left = {w}
      BY <1>9, <2>7 DEF Outlast
    <3>2. a + 1 \in 1..windowMs /\ a + 1 # 1 /\ (a + 1) - 1 = a
      BY <1>1, <2>2, <2>4, <2>7
    <3>3. d[a + 1] = x /\ s[a + 1] = r[a]
      BY <1>3, <1>6, <2>5, <3>2, Zenon
    <3>4. w.resetAt <= (moment + 1) + windowMs
      BY <1>1, <2>1, <2>2
    <3>5. d[windowMs] - d[a + 1] < limit(k)
      BY <1>1, <1>7, <2>6, <3>3
    <3>6. /\ w.count <= limit(k) /\ d[Age(w, moment + 1)] <= w.count /\ s[Age(w, moment + 1)] >= 1
          /\ d[windowMs] - d[Age(w, moment + 1)] < limit(k)
      BY <2>1, <2>4, <2>6, <3>3, <3>5, Zenon
    <3> QED BY <3>1, <3>4, <3>6, Zenon DEF Frugal
  <2>8. CASE ~(w.resetAt > moment + 1)
    <3>1. left = {}
      BY <1>9, <2>8 DEF Outlast
    <3>2. a = windowMs
      BY <1>1, <2>2, <2>4, <2>8
    <3>3. x = m /\ r[windowMs] >= 1
      BY <1>7, <2>5, <2>6, <3>2
    <3>4. d[windowMs] < limit(k)
      BY <1>1, <1>7, <2>1, <2>2, <2>6, <3>3
    <3> QED BY <1>6, <3>1, <3>4, Zenon DEF Frugal
  <2> QED BY <2>7, <2>8
<1> QED BY <1>2, <1>8, <1>9, Zenon

LEMMA LimitBegins == LimitAssumption /\ LimitInit => LimitInv
<1> SUFFICES ASSUME LimitAssumption, LimitInit PROVE LimitInv
  OBVIOUS
<1>1. \A k \in Keys : limit(k) \in Nat \ {0} /\ windowMs \in Nat \ {0}
  BY LimitType
<1>2. LimitTypes
  <2>1. limiter.windows = <<>> /\ clock = 0 /\ evicted = {}
        /\ recent = [k \in Keys |-> [t \in 1..windowMs |-> 0]]
    BY DEF LimitInit
  <2>2. <<>> \in Seq(Windows) /\ Distinct(<<>>)
    BY DEF Distinct
  <2>3. recent \in [Keys -> [1..windowMs -> Nat]]
    BY <2>1
  <2> QED BY <2>1, <2>2, <2>3 DEF LimitTypes
<1>3. ASSUME NEW k \in Keys \ evicted
      PROVE  \E c : Counts(recent[k], c)
                    /\ Frugal(k, recent[k], c, LiveOf(k, limiter.windows), clock)
  <2>1. LiveOf(k, limiter.windows) = {}
    BY DEF LimitInit, LiveOf, ToSet
  <2>2. PICK c : Counts([t \in 1..windowMs |-> 0], c) /\ c[windowMs] = 0
    BY CountsNone, Zenon
  <2>3. recent[k] = [t \in 1..windowMs |-> 0]
    BY DEF LimitInit
  <2>4. recent[k][1] = 0 /\ c[windowMs] < limit(k)
    BY <1>1, <2>2, <2>3
  <2>5. Frugal(k, recent[k], c, LiveOf(k, limiter.windows), clock)
    BY <2>1, <2>4, Zenon DEF Frugal
  <2> QED BY <2>2, <2>3, <2>5, Zenon
<1> QED BY <1>2, <1>3, Zenon DEF LimitInv

LEMMA ElapseKeeps ==
    ASSUME LimitAssumption, LimitInv, Elapse
    PROVE  LimitInv'
<1>1. /\ clock \in Nat /\ clock' = clock + 1 /\ limiter' = limiter /\ evicted' = evicted
      /\ recent' = [k \in Keys |-> [t \in 1..windowMs |-> IF t = 1 THEN 0 ELSE recent[k][t - 1]]]
  BY DEF Elapse, LimitInv, LimitTypes
<1>2. /\ limiter.windows \in Seq(Windows) /\ Distinct(limiter.windows)
      /\ recent \in [Keys -> [1..windowMs -> Nat]] /\ evicted \subseteq Keys
  BY DEF LimitInv, LimitTypes
<1>3. windowMs \in Nat \ {0}
  BY LimitType
<1>4. LimitTypes'
  <2>1. \A k \in Keys : [t \in 1..windowMs |-> IF t = 1 THEN 0 ELSE recent[k][t - 1]]
                           \in [1..windowMs -> Nat]
    BY <1>2, <1>3
  <2>2. recent' \in [Keys -> [1..windowMs -> Nat]]
    BY <1>1, <2>1, Zenon
  <2>3. clock' \in Nat
    BY <1>1
  <2> QED BY <1>1, <1>2, <2>2, <2>3, Zenon DEF LimitTypes
<1>5. ASSUME NEW k \in Keys \ evicted
      PROVE  \E d : Counts(recent'[k], d)
                    /\ Frugal(k, recent'[k], d, LiveOf(k, limiter.windows)', clock')
  <2>1. PICK c : /\ Counts(recent[k], c)
                 /\ Frugal(k, recent[k], c, LiveOf(k, limiter.windows), clock)
    BY Zenon DEF LimitInv
  <2>2. PICK r : r = recent[k]
    BY Zenon
  <2>3. PICK s : s = recent'[k]
    BY Zenon
  <2>4. PICK live : live = LiveOf(k, limiter.windows)
    BY Zenon
  <2>5. PICK left : left = LiveOf(k, limiter.windows)'
    BY Zenon
  <2>6. Later(r, s)
    BY <1>1, <1>2, <2>2, <2>3, Zenon DEF Later
  <2>7. \A w \in live : w \in Windows /\ w.resetAt > clock
    <3>1. \A w \in live : w \in Windows /\ ~Over(w)
      BY <1>2, <2>4, LiveType, Zenon
    <3> QED BY <1>1, <3>1 DEF Over, Windows
  <2>8. \A v, w \in live : v = w
    BY <1>2, <2>4, LiveType, Zenon
  <2>9. left = {w \in live : w.resetAt > clock + 1}
    <3>1. left = {w \in ToSet(limiter.windows) : w.key = k /\ ~(w.resetAt <= clock + 1)}
      BY <1>1, <2>5, Zenon DEF LiveOf, Over, ToSet
    <3>2. live = {w \in ToSet(limiter.windows) : w.key = k /\ ~(w.resetAt <= clock)}
      BY <2>4, Zenon DEF LiveOf, Over
    <3>3. \A w \in ToSet(limiter.windows) : w.resetAt \in Nat
      <4>1. \A i \in DOMAIN limiter.windows : limiter.windows[i] \in Windows
        BY <1>2
      <4> QED BY <4>1 DEF ToSet, Windows
    <3> QED BY <1>1, <3>1, <3>2, <3>3
  <2>10. Counts(r, c) /\ Frugal(k, r, c, live, clock)
    BY <2>1, <2>2, <2>4, Zenon
  <2>11. PICK moment \in Nat : moment = clock
    BY <1>1, Zenon
  <2>12. Outlast(live, left, moment) /\ Frugal(k, r, c, live, moment)
    BY <2>7, <2>8, <2>9, <2>10, <2>11, Zenon DEF Outlast
  <2>13. \E d : Counts(s, d) /\ Frugal(k, s, d, left, moment + 1)
    BY <2>6, <2>10, <2>12, FrugalElapse, Zenon
  <2> QED BY <1>1, <2>3, <2>5, <2>11, <2>13, Zenon
<1> QED BY <1>1, <1>4, <1>5, Zenon DEF LimitInv

\* What a request does to the windows, whichever budgets it is charged to.
LEMMA RequestCharges ==
    ASSUME LimitAssumption, LimitInv,
           NEW ip \in Ips, NEW encode \in BOOLEAN, NEW app \in Apps \union {NoApp},
           Request(ip, encode, app)
    PROVE  \E l : /\ Charged(l, Keys)
                  /\ limiter'.windows = l.windows /\ evicted' = l.evicted /\ clock' = clock
                  /\ recent' = [k \in Keys |-> IF k \in l.charged \ l.evicted
                                               THEN [recent[k] EXCEPT ![1] = @ + 1] ELSE recent[k]]
<1>1. PICK start : start = [windows |-> limiter.windows, hitsSinceSweep |-> limiter.hitsSinceSweep,
                            allowed |-> TRUE, charged |-> {}, evicted |-> evicted]
  BY Zenon
<1>2. PICK ipKey : ipKey = <<"ip", ip>>
  BY Zenon
<1>3. PICK encodeKey : encodeKey = <<"encode", ip>>
  BY Zenon
<1>4. PICK appKey : appKey = <<"app", app>>
  BY Zenon
<1>5. PICK afterIp : afterIp = hit(start, ipKey)
  BY Zenon
<1>6. PICK afterEncode : afterEncode = Charge(afterIp, encode, encodeKey)
  BY Zenon
<1>7. PICK after : after = Charge(afterEncode, app # NoApp /\ perApp > 0, appKey)
  BY Zenon
<1>8. /\ limiter' = [windows |-> after.windows, hitsSinceSweep |-> after.hitsSinceSweep]
      /\ recent' = [k \in Keys |-> IF k \in after.charged \ after.evicted
                                   THEN [recent[k] EXCEPT ![1] = @ + 1] ELSE recent[k]]
      /\ evicted' = after.evicted
      /\ clock' = clock
  BY <1>1, <1>2, <1>3, <1>4, <1>5, <1>6, <1>7, Zenon DEF Request, KeepCharges
<1>9. clock \in Nat
  BY DEF LimitInv, LimitTypes
<1>10. ipKey # encodeKey /\ ipKey # appKey /\ encodeKey # appKey
  BY <1>2, <1>3, <1>4
<1>11. ipKey \in Keys /\ encodeKey \in Keys /\ (app # NoApp /\ perApp > 0 => appKey \in Keys)
  BY <1>2, <1>3, <1>4 DEF Keys
<1>12. Charged(start, {})
  <2>1. /\ start.windows = limiter.windows /\ start.charged = {} /\ start.evicted = evicted
    BY <1>1
  <2>2. limiter.windows \in Seq(Windows) /\ Distinct(limiter.windows) /\ evicted \subseteq Keys
    BY Zenon DEF LimitInv, LimitTypes
  <2> QED BY <2>1, <2>2 DEF Charged
<1>13. \A l, done, more : Charged(l, done) /\ done \subseteq more => Charged(l, more)
  BY DEF Charged
<1>14. Charged(afterIp, {ipKey})
  <2>1. Charged(afterIp, {} \union {ipKey})
    BY <1>5, <1>9, <1>11, <1>12, HitCharges, Zenon
  <2> QED BY <1>13, <2>1
<1>15. Charged(afterEncode, {ipKey, encodeKey})
  <2>1. afterEncode = hit(afterIp, encodeKey) \/ afterEncode = afterIp
    BY <1>6, Zenon DEF Charge
  <2>2. CASE afterEncode = afterIp
    BY <1>13, <1>14, <2>2
  <2>3. CASE afterEncode = hit(afterIp, encodeKey)
    <3>1. Charged(afterEncode, {ipKey} \union {encodeKey})
      BY <1>9, <1>10, <1>11, <1>14, <2>3, HitCharges, Zenon
    <3> QED BY <1>13, <3>1
  <2> QED BY <2>1, <2>2, <2>3
<1>16. Charged(after, Keys)
  <2>1. (appKey \in Keys /\ after = hit(afterEncode, appKey)) \/ after = afterEncode
    BY <1>7, <1>11, Zenon DEF Charge
  <2>2. CASE after = afterEncode
    BY <1>11, <1>13, <1>15, <2>2
  <2>3. CASE appKey \in Keys /\ after = hit(afterEncode, appKey)
    <3>1. Charged(after, {ipKey, encodeKey} \union {appKey})
      BY <1>9, <1>10, <1>15, <2>3, HitCharges, Zenon
    <3> QED BY <1>11, <1>13, <2>3, <3>1
  <2> QED BY <2>1, <2>2, <2>3
<1>17. limiter'.windows = after.windows
  BY <1>8
<1> QED BY <1>8, <1>16, <1>17, Zenon

LEMMA RequestKeeps ==
    ASSUME LimitAssumption, LimitInv,
           NEW ip \in Ips, NEW encode \in BOOLEAN, NEW app \in Apps \union {NoApp},
           Request(ip, encode, app)
    PROVE  LimitInv'
<1>1. PICK l : /\ Charged(l, Keys)
               /\ limiter'.windows = l.windows /\ evicted' = l.evicted /\ clock' = clock
               /\ recent' = [k \in Keys |-> IF k \in l.charged \ l.evicted
                                            THEN [recent[k] EXCEPT ![1] = @ + 1] ELSE recent[k]]
  BY RequestCharges, Zenon
<1>2. /\ clock \in Nat /\ limiter.windows \in Seq(Windows) /\ Distinct(limiter.windows)
      /\ recent \in [Keys -> [1..windowMs -> Nat]]
  BY DEF LimitInv, LimitTypes
<1>3. windowMs \in Nat \ {0} /\ 1 \in 1..windowMs
  BY LimitType
<1>4. /\ l.windows \in Seq(Windows) /\ Distinct(l.windows)
      /\ evicted \subseteq l.evicted /\ l.evicted \subseteq Keys
      /\ \A k \in Keys \ l.evicted :
            IF k \in l.charged THEN Spent(k, limiter.windows, l.windows)
            ELSE LiveOf(k, l.windows) = LiveOf(k, limiter.windows)
  BY <1>1, Zenon DEF Charged
<1>5. \A r \in [1..windowMs -> Nat] : [r EXCEPT ![1] = @ + 1] \in [1..windowMs -> Nat]
  BY <1>3
<1>6. LimitTypes'
  <2>1. \A k \in Keys : (IF k \in l.charged \ l.evicted
                         THEN [recent[k] EXCEPT ![1] = @ + 1] ELSE recent[k])
                           \in [1..windowMs -> Nat]
    BY <1>2, <1>5, Zenon
  <2>2. recent' \in [Keys -> [1..windowMs -> Nat]]
    BY <1>1, <2>1, Zenon
  <2> QED BY <1>1, <1>2, <1>4, <2>2, Zenon DEF LimitTypes
<1>7. ASSUME NEW k \in Keys \ l.evicted
      PROVE  \E d : Counts(recent'[k], d)
                    /\ Frugal(k, recent'[k], d, LiveOf(k, limiter.windows)', clock')
  <2>1. LiveOf(k, limiter.windows)' = LiveOf(k, l.windows)
    BY <1>1, Zenon DEF LiveOf, Over, ToSet
  <2>2. PICK c : /\ Counts(recent[k], c)
                 /\ Frugal(k, recent[k], c, LiveOf(k, limiter.windows), clock)
    BY <1>4, Zenon DEF LimitInv
  <2>3. CASE k \in l.charged
    <3>1. PICK r : r = recent[k]
      BY Zenon
    <3>2. PICK s : s = recent'[k]
      BY Zenon
    <3>3. OneMore(r, s)
      <4>1. s = [r EXCEPT ![1] = @ + 1]
        BY <1>1, <2>3, <3>1, <3>2, Zenon
      <4>2. r \in [1..windowMs -> Nat]
        BY <1>2, <3>1, Zenon
      <4> QED BY <1>3, <4>1, <4>2 DEF OneMore
    <3>4. Spent(k, limiter.windows, l.windows)
      BY <1>4, <2>3, Zenon
    <3>5. \E d : Counts(s, d) /\ Frugal(k, s, d, LiveOf(k, l.windows), clock)
      BY <1>2, <2>2, <3>1, <3>3, <3>4, FrugalHit, Zenon
    <3> QED BY <1>1, <2>1, <3>2, <3>5, Zenon
  <2>4. CASE k \notin l.charged
    <3>1. recent'[k] = recent[k]
      BY <1>1, <2>4, Zenon
    <3>2. LiveOf(k, l.windows) = LiveOf(k, limiter.windows)
      BY <1>4, <2>4, Zenon
    <3> QED BY <1>1, <2>1, <2>2, <3>1, <3>2, Zenon
  <2> QED BY <2>3, <2>4
<1> QED BY <1>1, <1>6, <1>7, Zenon DEF LimitInv

LEMMA LimitInvariant == LimitSpec => []LimitInv
<1>1. LimitInit => LimitInv
  BY LimitAssumption, LimitBegins
<1>2. LimitInv /\ [LimitNext]_limitVars => LimitInv'
  <2> SUFFICES ASSUME LimitInv, [LimitNext]_limitVars PROVE LimitInv'
    OBVIOUS
  <2>1. ASSUME NEW ip \in Ips, NEW encode \in BOOLEAN, NEW app \in Apps \union {NoApp},
               Request(ip, encode, app)
        PROVE  LimitInv'
    BY <2>1, LimitAssumption, RequestKeeps
  <2>2. CASE Elapse
    BY <2>2, LimitAssumption, ElapseKeeps
  <2>3. CASE UNCHANGED limitVars
    BY <2>3, Zenon DEF limitVars, LimitInv, LimitTypes, LiveOf, Over, ToSet
  <2> QED BY <2>1, <2>2, <2>3 DEF LimitNext
<1> QED BY <1>1, <1>2, PTL DEF LimitSpec

\* No client gets twice its budget within the length of one window, wherever that window is
\* laid, unless the cap on keys evicted it (rate-limit.ts, hit and sweep): for every budget,
\* length of a window, interval of the sweeps and cap.
THEOREM BurstsAreBounded == LimitSpec => []BurstIsBounded
<1>1. LimitInv => BurstIsBounded
  BY LimitAssumption, BurstFollows
<1> QED BY <1>1, LimitInvariant, PTL
=============================================================================
