----------------------------- MODULE Correlation -----------------------------
(***************************************************************************)
(* Cross-session correlation (internal/correlation, internal/anomaly): a   *)
(* fingerprint seen from many subnets is a rotating proxy pool, and one    *)
(* that acquires subnets abnormally fast is a campaign.  Every node keeps  *)
(* its own registry; the rate is counted over the fleet through a Lua      *)
(* script of the coordinator, outside the registry's lock, and from the    *)
(* node's own count when the coordinator does not answer.                  *)
(*                                                                         *)
(* Keys do not touch each other: the model follows one fingerprint.  A     *)
(* caller reads the clock before it takes the lock, and the clock may pass *)
(* it by at most CoMaxLate.                                                *)
(***************************************************************************)
EXTENDS Integers, Sequences, FiniteSets, TLC

CONSTANTS CoNodes,
          CoVisitors, \* who presents the fingerprint: [subnet, session], the subnets numbered in the order they appear
          SubnetsForRotation, \* subnetsForProxyRotation
          SessionsForShared,  \* sessionsForShared
          VelWindow, VelFloor, VelRingCap,
          MadWindow, MadK, MadWarmup, MadFloor, \* the configuration of anomaly.New
          CoTTL,
          CoCallers, \* bound: callers in flight
          CoMaxLate, \* bound: lateness of a caller's clock
          CoMaxTime, \* bound: clock
          CoMaxObs   \* bound: observations and resets

ASSUME CorrelationAssumption ==
  /\ {SubnetsForRotation, VelWindow, VelFloor, VelRingCap, MadWindow, MadWarmup, CoTTL, CoMaxLate} \subseteq Nat
  /\ CoTTL > VelWindow

VARIABLES coNow, coCount,
          coEntry,   \* Registry.m of each node: {} or {[subnets, sessions, arrivals, updated]}
          coSeries,  \* the population series of each node's detector: [vals, last]
          coSet,     \* coordinator: [members, until] of the SET
          coZset,    \* coordinator: [members, until] of the ZSET, members a set of [subnet, score]
          coReq,     \* callers: before the lock, and between the lock and the script
          coTrue,    \* every observation there was: [subnet, session, at]
          coEmitted  \* the signals the last step returned: [id, n, at]

coVars == <<coNow, coCount, coEntry, coSeries, coSet, coZset, coReq, coTrue, coEmitted>>

-----------------------------------------------------------------------------
(***************************************************************************)
(* detector.go, in quarters: a median halves, and so does the median of    *)
(* the deviations from it.                                                 *)
(***************************************************************************)
median(xs) ==
  LET c == SortSeq(xs, LAMBDA a, b : a < b)
      n == Len(c)
  IN  IF n = 0 THEN 0
      ELSE IF n % 2 = 1 THEN c[n \div 2 + 1] ELSE (c[n \div 2] + c[n \div 2 + 1]) \div 2

absolute(x) == IF x < 0 THEN -x ELSE x
medianAbsDev(xs, med) == median([i \in DOMAIN xs |-> absolute(xs[i] - med)])
spread(mad) == IF mad < 4 * MadFloor THEN 4 * MadFloor ELSE mad

\* Whether a value is an outlier of the series it is not yet part of.
Anomalous(vals, value) ==
  LET xs == [i \in DOMAIN vals |-> 4 * vals[i]]
      mad == spread(medianAbsDev(xs, median(xs)))
  IN  Len(vals) >= MadWarmup /\ mad > 0 /\ absolute(4 * value - median(xs)) > MadK * mad

Sampled(s, value, now) ==
  [vals |-> Append(IF Len(s.vals) >= MadWindow THEN Tail(s.vals) ELSE s.vals, value), last |-> now]

NoSeries == [vals |-> <<>>, last |-> 0]

-----------------------------------------------------------------------------
(***************************************************************************)
(* correlation.go                                                          *)
(***************************************************************************)
\* entry.velocity drops the arrivals before the window from the front.
Pruned(arrivals, now) ==
  LET recent == {i \in DOMAIN arrivals : arrivals[i] >= now - VelWindow}
  IN  IF recent = {} THEN <<>>
      ELSE SubSeq(arrivals, CHOOSE i \in recent : \A j \in recent : i <= j, Len(arrivals))

EntryOf(node, now) ==
  IF coEntry[node] = {} THEN [subnets |-> {}, sessions |-> {}, arrivals |-> <<>>, updated |-> now] ELSE CHOOSE e \in coEntry[node] : TRUE

Observed(e, subnet, session, now) ==
  [subnets |-> e.subnets \cup {subnet}, sessions |-> e.sessions \cup {session},
   arrivals |-> Pruned(IF subnet \in e.subnets \/ Len(e.arrivals) >= VelRingCap THEN e.arrivals ELSE Append(e.arrivals, now),
                       now),
   updated |-> now]

Emission(id, n, now) == [id |-> id, n |-> n, at |-> now]

\* The signal of the absolute counts: many subnets, or else many sessions.
Fanout(subnets, sessions, now) ==
  {e \in {Emission("proxy_rotation", subnets, now)} : subnets >= SubnetsForRotation}
    \cup {e \in {Emission("shared_fingerprint", sessions, now)} :
            subnets < SubnetsForRotation /\ sessions >= SessionsForShared}

\* A beacon reads the clock.
ObserveBegins ==
  /\ coCount < CoMaxObs /\ coCount' = coCount + 1 /\ Cardinality(coReq) < CoCallers
  /\ \E node \in CoNodes, v \in CoVisitors :
       /\ v.subnet <= Cardinality({t.subnet : t \in coTrue}) + 1
       /\ coReq' = coReq \cup {[pc |-> "lock", node |-> node, subnet |-> v.subnet, session |-> v.session, at |-> coNow]}
       /\ coTrue' = coTrue \cup {[subnet |-> v.subnet, session |-> v.session, at |-> coNow]}
  /\ UNCHANGED <<coNow, coEntry, coSeries, coSet, coZset>>
  /\ coEmitted' = {}

\* Observe under r.mu: the entry, and the signal of its counts.
Observe(q) ==
  LET old == EntryOf(q.node, q.at)
      new == Observed(old, q.subnet, q.session, q.at)
  IN  /\ q.pc = "lock"
      /\ coEntry' = [coEntry EXCEPT ![q.node] = {new}]
      /\ coEmitted' = Fanout(Cardinality(new.subnets), Cardinality(new.sessions), q.at)
      /\ coReq' = (coReq \ {q}) \cup {[pc |-> "fleet", node |-> q.node, subnet |-> q.subnet, at |-> q.at,
                                      new |-> q.subnet \notin old.subnets, vel |-> Len(new.arrivals)]}
      /\ UNCHANGED <<coNow, coCount, coSeries, coSet, coZset, coTrue>>

\* The detector sees the rate of a new subnet, and the rate is reported when it
\* is both an outlier and a fleet.
Rated(q, new, vel) ==
  LET s == coSeries[q.node]
  IN  /\ coSeries' = IF new THEN [coSeries EXCEPT ![q.node] = Sampled(s, vel, q.at)] ELSE coSeries
      /\ coEmitted' = IF new /\ vel >= VelFloor /\ Anomalous(s.vals, vel) THEN {Emission("ip_velocity", vel, q.at)} ELSE {}
      /\ coReq' = coReq \ {q}
      /\ UNCHANGED <<coNow, coCount, coEntry, coTrue>>

Live(key) == IF coNow < key.until THEN key.members ELSE {}

\* Faulty: the script never drops what left the window.
WindowOfAll(zset, now) == zset
WindowOf(zset, now) == {z \in zset : z.score > now - VelWindow}

\* fleetCorrLua, one atomic step of the coordinator.
observeFleet(q) ==
  LET added == q.subnet \notin Live(coSet)
      stamped == IF added THEN {z \in Live(coZset) : z.subnet # q.subnet} \cup {[subnet |-> q.subnet, score |-> q.at]}
                 ELSE Live(coZset)
      kept == WindowOf(stamped, q.at)
  IN  /\ q.pc = "fleet"
      /\ coSet' = [members |-> Live(coSet) \cup {q.subnet}, until |-> coNow + CoTTL]
      /\ coZset' = [members |-> kept, until |-> coNow + CoTTL]
      /\ Rated(q, added, Cardinality(kept))

\* An outage or a malformed reply: the node's own values count.
FleetFallback(q) ==
  /\ q.pc = "fleet"
  /\ Rated(q, q.new, q.vel)
  /\ UNCHANGED <<coSet, coZset>>

CorrelationGC(node) ==
  /\ coEntry' = [coEntry EXCEPT ![node] = {e \in @ : coNow - e.updated <= CoTTL}]
  /\ coSeries' = [coSeries EXCEPT ![node] = IF coNow - @.last > CoTTL THEN NoSeries ELSE @]
  /\ UNCHANGED <<coNow, coCount, coSet, coZset, coReq, coTrue>>
  /\ coEmitted' = {}

CorrelationReset(node) ==
  /\ coCount < CoMaxObs /\ coCount' = coCount + 1
  /\ coEntry' = [coEntry EXCEPT ![node] = {}]
  /\ coSeries' = [coSeries EXCEPT ![node] = NoSeries]
  /\ UNCHANGED <<coNow, coSet, coZset, coReq, coTrue>>
  /\ coEmitted' = {}

CorrelationTick ==
  /\ coNow < CoMaxTime /\ \A q \in coReq : coNow - q.at < CoMaxLate
  /\ coNow' = coNow + 1
  /\ UNCHANGED <<coCount, coEntry, coSeries, coSet, coZset, coReq, coTrue>>
  /\ coEmitted' = {}

CorrelationInit ==
  /\ coNow = 0 /\ coCount = 0
  /\ coEntry = [n \in CoNodes |-> {}] /\ coSeries = [n \in CoNodes |-> NoSeries]
  /\ coSet = [members |-> {}, until |-> 0] /\ coZset = [members |-> {}, until |-> 0]
  /\ coReq = {} /\ coTrue = {} /\ coEmitted = {}

CorrelationNext ==
  \/ ObserveBegins
  \/ \E q \in coReq : Observe(q) \/ observeFleet(q) \/ FleetFallback(q)
  \/ \E n \in CoNodes : CorrelationGC(n) \/ CorrelationReset(n)
  \/ CorrelationTick

CorrelationSpec == CorrelationInit /\ [][CorrelationNext]_coVars

-----------------------------------------------------------------------------
\* A reported fan-out happened.  A count of subnets (which denies, HR-19) or of
\* sessions is one of those the fingerprint really came with; a rate is a number
\* of subnets it came from within the velocity window, give or take the lateness
\* of callers' clocks, whichever nodes saw them and whether the coordinator or
\* the node counted (Observe, fleetCorrLua, entry.velocity).
FanoutReal ==
  \A e \in coEmitted :
    LET since == {t \in coTrue : e.id = "ip_velocity" => t.at >= e.at - VelWindow - CoMaxLate}
    IN  e.n <= IF e.id = "shared_fingerprint" THEN Cardinality({t.session : t \in since})
               ELSE Cardinality({t.subnet : t \in since})

==============================================================================
