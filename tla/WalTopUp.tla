------------------------------ MODULE WalTopUp ------------------------------
(***************************************************************************)
(* WalTopUpService: the relayer buys WAL with its own SUI when its WAL is  *)
(* below a floor.  Every store and a timer call ensureWal(); one run is    *)
(* under way at a time and the others await it.  Between the reads of the  *)
(* two balances and the swap, stores spend WAL, transactions spend SUI,    *)
(* and a swap whose answer was lost may still land.                        *)
(***************************************************************************)
EXTENDS Integers, FiniteSets

CONSTANTS WalCallers,               \* concurrent callers of ensureWal()
          NoRun,
          WalFloor, SwapSui, SuiReserve,
          MaxLost, MaxFunds         \* bounds: lost answers, SUI refills

ASSUME WalAssumption ==
    /\ NoRun \notin WalCallers
    /\ WalFloor \in Nat /\ SwapSui \in Nat \ {0} /\ SuiReserve \in Nat
    /\ MaxLost \in Nat /\ MaxFunds \in Nat

VARIABLES
    swapSupported,   \* the network has the exchange
    wal, sui,        \* the relayer's balances
    inFlight,        \* the caller whose run is under way
    topUp,           \* what each caller is doing, with what it read
    pending,         \* a submitted swap whose answer was lost has yet to land
    lost, funds      \* lost answers and refills so far

walVars == <<swapSupported, wal, sui, inFlight, topUp, pending, lost, funds>>

NoReading == -1
Resting == [pc |-> "idle", wal |-> NoReading, gone |-> 0]

WalInit ==
    /\ swapSupported \in BOOLEAN
    /\ wal = WalFloor
    /\ sui = SwapSui + SuiReserve + 1
    /\ inFlight = NoRun
    /\ topUp = [c \in WalCallers |-> Resting]
    /\ pending = FALSE
    /\ lost = 0 /\ funds = 0

\* Mutant: a caller does not look for a run under way.
EachStartsARun(c) ==
    /\ topUp[c].pc = "idle"
    /\ inFlight' = c
    /\ topUp' = [topUp EXCEPT ![c].pc = "readWal"]
    /\ UNCHANGED <<swapSupported, wal, sui, pending, lost, funds>>

\* A store or the timer: joins the run under way, or starts one.
ensureWal(c) ==
    /\ topUp[c].pc = "idle"
    /\ inFlight' = IF inFlight = NoRun THEN c ELSE inFlight
    /\ topUp' = [topUp EXCEPT ![c].pc = IF inFlight = NoRun THEN "readWal" ELSE "joined"]
    /\ UNCHANGED <<swapSupported, wal, sui, pending, lost, funds>>

\* The promise settles, for its owner and for all that joined.
Settled(c) ==
    /\ inFlight' = NoRun
    /\ topUp' = [d \in WalCallers |->
                    IF d = c \/ topUp[d].pc = "joined" THEN Resting ELSE topUp[d]]

\* run(): the WAL balance; when it cannot be read the check is skipped.
readWal(c) ==
    /\ topUp[c].pc = "readWal"
    /\ \/ Settled(c)
       \/ /\ topUp' = [topUp EXCEPT ![c] = [@ EXCEPT !.pc = "readSui", !.wal = wal]]
          /\ UNCHANGED inFlight
    /\ UNCHANGED <<swapSupported, wal, sui, pending, lost, funds>>

Swappable(seenWal, seenSui) ==
    /\ seenWal < WalFloor
    /\ swapSupported
    /\ seenSui # NoReading
    /\ seenSui >= SwapSui + SuiReserve

\* ... the SUI balance, which may not be readable either, and the decision.
readSui(c) ==
    /\ topUp[c].pc = "readSui"
    /\ \E seen \in {sui, NoReading} :
          IF Swappable(topUp[c].wal, seen)
          THEN /\ topUp' = [topUp EXCEPT ![c].pc = "swap"]
               /\ UNCHANGED inFlight
          ELSE Settled(c)
    /\ UNCHANGED <<swapSupported, wal, sui, pending, lost, funds>>

\* SUI leaves the wallet; gone: how much since a run that will swap read it.
Spend(amount, t) ==
    /\ sui >= amount
    /\ sui' = sui - amount
    /\ topUp' = [c \in WalCallers |->
                    IF t[c].pc = "swap" THEN [t[c] EXCEPT !.gone = @ + amount] ELSE t[c]]

\* The swap is executed ...
swapSuiForWal(c) ==
    /\ topUp[c].pc = "swap"
    /\ Spend(SwapSui, [topUp EXCEPT ![c].pc = "confirm"])
    /\ wal' = wal + SwapSui
    /\ UNCHANGED <<swapSupported, inFlight, pending, lost, funds>>

\* ... or fails, or its answer is lost and it may land later.
SwapFails(c) ==
    /\ topUp[c].pc = "swap"
    /\ Settled(c)
    /\ \/ UNCHANGED <<pending, lost>>
       \/ lost < MaxLost /\ ~pending /\ pending' = TRUE /\ lost' = lost + 1
    /\ UNCHANGED <<swapSupported, wal, sui, funds>>

LandsLate ==
    /\ pending
    /\ pending' = FALSE
    /\ Spend(SwapSui, topUp)
    /\ wal' = wal + SwapSui
    /\ UNCHANGED <<swapSupported, inFlight, lost, funds>>

\* waitForTransaction and the new reading: both outcomes are only recorded.
Confirm(c) ==
    /\ topUp[c].pc = "confirm"
    /\ Settled(c)
    /\ UNCHANGED <<swapSupported, wal, sui, pending, lost, funds>>

StorePays ==
    /\ wal > 0
    /\ wal' = wal - 1
    /\ UNCHANGED <<swapSupported, sui, inFlight, topUp, pending, lost, funds>>

GasPays ==
    /\ Spend(1, topUp)
    /\ UNCHANGED <<swapSupported, wal, inFlight, pending, lost, funds>>

FundSui ==
    /\ funds < MaxFunds
    /\ funds' = funds + 1
    /\ sui' = sui + SwapSui
    /\ UNCHANGED <<swapSupported, wal, inFlight, topUp, pending, lost>>

WalNext ==
    \/ \E c \in WalCallers :
          \/ ensureWal(c) \/ readWal(c) \/ readSui(c)
          \/ swapSuiForWal(c) \/ SwapFails(c) \/ Confirm(c)
    \/ LandsLate \/ StorePays \/ GasPays \/ FundSui

WalSpec == WalInit /\ [][WalNext]_walVars

-----------------------------------------------------------------------------
\* However many callers find WAL low at once, one shortage is bought for once, a
\* second time only for a swap whose answer was lost; and a swap that is about to be
\* made leaves the gas reserve but for what was spent since the balance was read
\* (wal-topup.service.ts: "at most one swap", "Never spend the gas reserve").
SwapsAreJustified ==
    /\ wal < WalFloor + SwapSui * (1 + lost)
    /\ \A c \in WalCallers : topUp[c].pc = "swap" =>
          sui + topUp[c].gone >= SwapSui + SuiReserve
=============================================================================
