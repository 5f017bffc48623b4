----------------------------- MODULE RateLimit ------------------------------
(***************************************************************************)
(* The fixed-window limiter before the integrator routes.  A request is    *)
(* charged to its IP, then (POST /blob/encode) to the IP's encode budget,  *)
(* then to its app; the first refusal ends it, and what was charged stays  *)
(* charged.  Windows are kept in the order of insertion; expired ones are  *)
(* swept now and then, and past the cap the oldest are evicted.            *)
(***************************************************************************)
EXTENDS Integers, SequencesExt

CONSTANTS Ips, Apps, NoApp,
          perIp, encodePerIp, perApp,       \* RateLimitConfig
          windowMs, sweepEvery, maxKeys,
          MaxClock                          \* bound of the model

\* What config.schema.ts admits: only the budget of an app may be 0, which turns it off.
ASSUME LimitAssumption ==
    /\ {perIp, encodePerIp, windowMs, sweepEvery, maxKeys} \subseteq Nat \ {0}
    /\ {perApp, MaxClock} \subseteq Nat
    /\ NoApp \notin Apps

VARIABLES
    clock,
    limiter,     \* FixedWindowLimiter: [windows, hitsSinceSweep]
    recent,      \* the hits of each key allowed now, a moment ago, ..., a window ago
    evicted      \* keys whose window was evicted before it ended

limitVars == <<clock, limiter, recent, evicted>>

Keys == ({"ip", "encode"} \X Ips) \union ({"app"} \X {app \in Apps : perApp > 0})
limit(key) == CASE key[1] = "ip" -> perIp [] key[1] = "encode" -> encodePerIp
                [] key[1] = "app" -> perApp

LimitInit ==
    /\ clock = 0
    /\ limiter = [windows |-> <<>>, hitsSinceSweep |-> 0]
    /\ recent = [k \in Keys |-> [t \in 1..windowMs |-> 0]]
    /\ evicted = {}

\* Mutant: a window is taken to be over one moment early.
OverEarly(w) == w.resetAt <= clock + 1

Over(w) == w.resetAt <= clock

sweep(windows) ==
    FoldLeft(LAMBDA kept, w : IF Over(w) THEN kept ELSE Append(kept, w), <<>>, windows)

\* Room for one more window: expired ones go first, then the oldest.
Evict(windows) ==
    IF Len(windows) < maxKeys THEN windows
    ELSE LET live == sweep(windows)
             over == Len(live) - (maxKeys - 1)
         IN  IF over <= 0 THEN live ELSE SubSeq(live, over + 1, Len(live))

Position(windows, key) == SelectInSeq(windows, LAMBDA w : w.key = key)

\* FixedWindowLimiter.hit()
hit(l, key) ==
    LET swept == l.hitsSinceSweep + 1 >= sweepEvery
        ws0   == IF swept THEN sweep(l.windows) ELSE l.windows
        old   == Position(ws0, key)
        fresh == [key |-> key, count |-> 0, resetAt |-> clock + windowMs]
        ws1   == IF old = 0 THEN Append(Evict(ws0), fresh)
                 ELSE IF Over(ws0[old]) THEN [ws0 EXCEPT ![old] = fresh] ELSE ws0
        at    == Position(ws1, key)
        ok    == ws1[at].count < limit(key)
    IN  [windows |-> IF ok THEN [ws1 EXCEPT ![at].count = @ + 1] ELSE ws1,
         hitsSinceSweep |-> IF swept \/ (old = 0 /\ Len(ws0) >= maxKeys) THEN 0
                            ELSE l.hitsSinceSweep + 1,
         allowed |-> ok,
         charged |-> IF ok THEN l.charged \union {key} ELSE l.charged,
         evicted |-> l.evicted \union
                       {w.key : w \in {x \in ToSet(ws0) : ~Over(x) /\ Position(ws1, x.key) = 0}}]

Charge(l, due, key) == IF l.allowed /\ due THEN hit(l, key) ELSE l

\* What the last charge leaves is kept; a hit that was charged counts as recent.
KeepCharges(l) ==
    /\ limiter' = [windows |-> l.windows, hitsSinceSweep |-> l.hitsSinceSweep]
    /\ recent' = [k \in Keys |-> IF k \in l.charged \ l.evicted
                                 THEN [recent[k] EXCEPT ![1] = @ + 1] ELSE recent[k]]
    /\ evicted' = l.evicted

\* createRateLimitMiddleware(): one request that is counted.
Request(ip, encode, app) ==
    LET start       == [windows |-> limiter.windows, hitsSinceSweep |-> limiter.hitsSinceSweep,
                        allowed |-> TRUE, charged |-> {}, evicted |-> evicted]
        afterIp     == hit(start, <<"ip", ip>>)
        afterEncode == Charge(afterIp, encode, <<"encode", ip>>)
    IN  /\ KeepCharges(Charge(afterEncode, app # NoApp /\ perApp > 0, <<"app", app>>))
        /\ UNCHANGED clock

Elapse ==
    /\ clock < MaxClock
    /\ clock' = clock + 1
    /\ recent' = [k \in Keys |-> [t \in 1..windowMs |-> IF t = 1 THEN 0 ELSE recent[k][t - 1]]]
    /\ UNCHANGED <<limiter, evicted>>

LimitNext ==
    \/ \E ip \in Ips, encode \in BOOLEAN, app \in Apps \union {NoApp} : Request(ip, encode, app)
    \/ Elapse

LimitSpec == LimitInit /\ [][LimitNext]_limitVars

-----------------------------------------------------------------------------
\* No client gets twice its budget within the length of one window, wherever that
\* window is laid, unless the cap on keys evicted it; sweeping, reusing and evicting
\* the windows of others never renews a budget (rate-limit.ts, hit and sweep).
BurstIsBounded ==
    \A k \in Keys \ evicted : FoldLeft(+, 0, recent[k]) < 2 * limit(k)
=============================================================================
