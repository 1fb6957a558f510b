------------------------------ MODULE RateLimit ------------------------------
(* The sliding-window counter of one key: abuse.Limiter of                     *)
(* internal/abuse/ratelimit.go on every node, and RedisRateLimiter of          *)
(* internal/gate/redisratelimit.go, whose Lua script keeps the same window in  *)
(* Redis for the whole fleet and which counts on its own node in an outage.    *)
(* Settings change window and thresholds while requests are counted.           *)
EXTENDS Above, FiniteSetsExt

CONSTANTS
  RateNodes,
  RateConfigs,  \* the [window, soft, hard] that settings may choose
  TTLFactor,    \* a key is kept TTLFactor windows after its last hit
  RateMaxTime,  \* bound: the clock
  RateMaxHits   \* bound: the hits, of all counters together

Shared == "redis"

ASSUME RateAssumption ==
  /\ Shared \notin RateNodes
  /\ RateConfigs \subseteq [window : Nat \ {0}, soft : Nat, hard : Nat]
  /\ TTLFactor \in Nat \ {0, 1}
  /\ RateMaxTime \in Nat /\ RateMaxHits \in Nat

Counters == RateNodes \cup {Shared}

VARIABLES
  rateNow,
  rateHits,     \* per counter, the hits it holds
  rateCfg,      \* per node, window and thresholds
  rateExpires,  \* when Redis drops the shared counter
  rateLast,     \* the last Observe: its counter, clock, window, count, and level
  rateSeen      \* history: per counter, every hit it was given

rateVars == <<rateNow, rateHits, rateCfg, rateExpires, rateLast, rateSeen>>

NoObserve == [counter |-> Shared, at |-> 0, window |-> 1, count |-> 0, level |-> 0]

RateInit ==
  /\ rateNow = 1
  /\ rateHits = [c \in Counters |-> <<>>]
  /\ rateCfg \in {[n \in RateNodes |-> cfg] : cfg \in RateConfigs}
  /\ rateExpires = 0
  /\ rateLast = NoObserve
  /\ rateSeen = [c \in Counters |-> <<>>]

\* Level: 0 ok, 1 soft, 2 hard.
Level(cfg, count) ==
  IF count >= cfg.hard THEN 2 ELSE IF count >= cfg.soft THEN 1 ELSE 0

\* Faulty: a hit on the edge of the window stays.
CountedEdge(hits, at, window) ==
  Append(Above(hits, at - window - 1), at)

\* What Observe and the Lua script keep of a counter, the new hit included.
Counted(hits, at, window) ==
  Append(Above(hits, at - window), at)

ObserveIn(c, n, at) ==
  LET kept == Counted(rateHits[c], at, rateCfg[n].window)
  IN /\ MapThenSumSet(LAMBDA d : Len(rateSeen[d]), Counters) < RateMaxHits
     /\ rateHits' = [rateHits EXCEPT ![c] = kept]
     /\ rateSeen' = [rateSeen EXCEPT ![c] = Append(@, at)]
     /\ rateLast' = [counter |-> c, at |-> at, window |-> rateCfg[n].window,
                     count |-> Len(kept), level |-> Level(rateCfg[n], Len(kept))]
     /\ UNCHANGED <<rateNow, rateCfg>>

\* A request read the clock a moment ago; it is counted in Redis ...
ObserveShared(n) ==
  \E at \in {rateNow, rateNow - 1} :
    /\ ObserveIn(Shared, n, at)
    /\ rateExpires' = rateNow + TTLFactor * rateCfg[n].window

\* ... or, in an outage, on the node.
ObserveLocal(n) ==
  \E at \in {rateNow, rateNow - 1} :
    ObserveIn(n, n, at) /\ UNCHANGED rateExpires

\* Configure: the hits stay.
Configure(n) ==
  \E cfg \in RateConfigs \ {rateCfg[n]} :
    /\ rateCfg' = [rateCfg EXCEPT ![n] = cfg]
    /\ UNCHANGED <<rateNow, rateHits, rateExpires, rateLast, rateSeen>>

\* GC drops a key without recent hits from the node's counter.
RateGC(n) ==
  /\ rateHits[n] # <<>>
  /\ rateHits[n][Len(rateHits[n])] < rateNow - TTLFactor * rateCfg[n].window
  /\ rateHits' = [rateHits EXCEPT ![n] = <<>>]
  /\ UNCHANGED <<rateNow, rateCfg, rateExpires, rateLast, rateSeen>>

\* Redis drops the shared counter: the PEXPIRE of the last hit ran out.
RedisExpires ==
  /\ rateHits[Shared] # <<>> /\ rateNow >= rateExpires
  /\ rateHits' = [rateHits EXCEPT ![Shared] = <<>>]
  /\ UNCHANGED <<rateNow, rateCfg, rateExpires, rateLast, rateSeen>>

RateTick ==
  /\ rateNow < RateMaxTime
  /\ rateNow' = rateNow + 1
  /\ UNCHANGED <<rateHits, rateCfg, rateExpires, rateLast, rateSeen>>

RateNext ==
  \/ \E n \in RateNodes :
       \/ ObserveShared(n) \/ ObserveLocal(n) \/ Configure(n) \/ RateGC(n)
  \/ RedisExpires \/ RateTick

RateSpec == RateInit /\ [][RateNext]_rateVars

(***************************************************************************)
(* Properties                                                              *)
(***************************************************************************)
Within(hits, at, window) == Len(Above(hits, at - window))

\* "tightening cannot buy an attacker a fresh empty bucket during a Settings apply"
\* (ratelimit.go:75): the count that decides a level has every hit of the narrowest
\* window that any node was ever configured with, up to the latest clock reading the
\* counter was given, whoever trimmed, swept or expired it meanwhile, and none that is older than the window of the request.
CountIsWindow ==
  LET seen == rateSeen[rateLast.counter]
      narrowest == Min({cfg.window : cfg \in RateConfigs})
  IN rateLast # NoObserve =>
       /\ rateLast.count >= Within(seen, Max({seen[i] : i \in DOMAIN seen}), narrowest)
       /\ rateLast.count <= Within(seen, rateLast.at, rateLast.window)
==============================================================================
