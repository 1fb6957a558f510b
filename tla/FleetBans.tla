------------------------------ MODULE FleetBans ------------------------------
(* The bans of one key ("ip:..." or "fp:...") in a Gate fleet: BanStore of     *)
(* internal/gate/ban.go as the mirror of every node, RedisBanLedger of         *)
(* redisledger.go over it, the ban gate that asks it, and the operators who    *)
(* add and lift bans. Rate limiting is in module RateLimit; here a request may *)
(* find any level of the limiter.                                              *)
(*                                                                             *)
(* A value in Redis is sealed for its key, so Redis returns an entry that some *)
(* node wrote, or nothing. A command that a node sent takes effect at once,    *)
(* later (the client gave up waiting), or never.                               *)
EXTENDS Integers, FiniteSets

CONSTANTS
  BanNodes,
  BanGates,       \* the nodes whose requests and lifts are followed; on the
                  \* others operators only add bans
  StrikeDecay,    \* how long a strike is remembered
  LiftEpochTTL,   \* how long a lift is remembered
  Durations,      \* the ban durations of strikes 1, 2 and 3
  AddDurations,   \* the durations an operator chooses from; 0 is permanent
  BansMaxTime,    \* bound: the clock
  BansMaxStrikes, \* bound: the strikes of a key
  BansMaxSent     \* bound: SETs on their way to Redis

ASSUME BansAssumption ==
  /\ BanGates \subseteq BanNodes
  /\ StrikeDecay \in Nat /\ LiftEpochTTL \in Nat
  /\ Durations \in [1..3 -> Nat \ {0}]
  /\ AddDurations \subseteq Nat
  /\ BansMaxTime \in Nat /\ BansMaxSent \in Nat /\ BansMaxStrikes \in Nat

VARIABLES
  bansNow,
  bansStore,    \* the entry of the key in Redis
  bansSent,     \* the SETs (entries) and DELs (NoBan) on their way to Redis
  bansLocal,    \* per node, BanStore.bans
  bansStrikes,  \* per node, BanStore.strikes
  bansLift,     \* per node, RedisBanLedger.liftEpoch
  bansReq,      \* per node, the clock a request in Observe has read
  bansLifting,  \* per node, a Lift between the mirror and the lift epoch
  bansLifted,   \* history: per node, its last Lift since it started
  bansChain     \* history: per node, its temporary auto-bans in a row that
                \* each came within StrikeDecay of the one before

bansVars == <<bansNow, bansStore, bansSent, bansLocal, bansStrikes, bansLift,
              bansReq, bansLifting, bansLifted, bansChain>>

Never == -1
Nobody == "nobody"
NoBan == [by |-> Nobody, created |-> Never, until |-> Never, auto |-> FALSE]
NoStrikes == [count |-> 0, last |-> Never]

\* A zero Until is a ban for ever.
Permanent(b) == b.until = 0

BanActive(b, t) == b # NoBan /\ (Permanent(b) \/ t < b.until)

\* Faulty: the ladder ends a strike too late.
LateEscalation(strike) == IF strike <= 4 THEN Durations[1] ELSE 0

Escalation(strike) == IF strike <= 3 THEN Durations[strike] ELSE 0

\* applyLocked: the entry that replaces whatever the mirror holds.
BanEntry(n, auto, dur, t) ==
  [by |-> n, created |-> t, until |-> IF dur > 0 THEN t + dur ELSE 0,
   auto |-> auto]

BansInit ==
  /\ bansNow = 1
  /\ bansStore = NoBan /\ bansSent = {}
  /\ bansLocal = [n \in BanNodes |-> NoBan]
  /\ bansStrikes = [n \in BanNodes |-> NoStrikes]
  /\ bansLift = [n \in BanNodes |-> Never]
  /\ bansReq = [n \in BanNodes |-> Never]
  /\ bansLifting = [n \in BanNodes |-> FALSE]
  /\ bansLifted = [n \in BanNodes |-> Never]
  /\ bansChain = [n \in BanNodes |-> [length |-> 0, last |-> Never]]

(***************************************************************************)
(* Check                                                                   *)
(***************************************************************************)
\* BanStore.Check: the mirror's entry, if it is in force.
LocalCheck(n) == IF BanActive(bansLocal[n], bansNow) THEN bansLocal[n] ELSE NoBan

\* Faulty: the lift epoch is not consulted.
CheckTrusting(n, reached) ==
  IF ~reached THEN LocalCheck(n)
  ELSE IF BanActive(bansStore, bansNow) THEN bansStore ELSE NoBan

\* RedisBanLedger.Check: Redis decides, except in an outage and for an entry that
\* is not younger than the node's last Lift; then the mirror does.
Check(n, reached) ==
  IF ~reached THEN LocalCheck(n)
  ELSE IF ~BanActive(bansStore, bansNow) THEN NoBan
  ELSE IF bansLift[n] # Never /\ bansStore.created <= bansLift[n]
    THEN LocalCheck(n)
  ELSE bansStore

(***************************************************************************)
(* A request at the ban gate: Check, then Observe                          *)
(***************************************************************************)
\* writeBan: a SET with the remaining lifetime; none when that is over.
WriteBan(b) ==
  bansSent' = IF Permanent(b) \/ bansNow < b.until
              THEN bansSent \cup {b} ELSE bansSent

\* The request finds no ban, and Observe reads the clock.
Request(n) ==
  /\ bansReq[n] = Never
  /\ \E reached \in BOOLEAN : Check(n, reached) = NoBan
  /\ bansReq' = [bansReq EXCEPT ![n] = bansNow]
  /\ UNCHANGED <<bansNow, bansStore, bansSent, bansLocal, bansStrikes, bansLift,
                 bansLifting, bansLifted, bansChain>>

\* Below the hard threshold nothing else happens.
BelowHard(n) ==
  /\ bansReq[n] # Never
  /\ bansReq' = [bansReq EXCEPT ![n] = Never]
  /\ UNCHANGED <<bansNow, bansStore, bansSent, bansLocal, bansStrikes, bansLift,
                 bansLifting, bansLifted, bansChain>>

\* A hard breach of a key that the mirror already holds banned: the entry is sent
\* to Redis again.
AlreadyBanned(n) ==
  /\ bansReq[n] # Never
  /\ BanActive(bansLocal[n], bansReq[n])
  /\ Cardinality(bansSent \ {NoBan}) < BansMaxSent
  /\ bansReq' = [bansReq EXCEPT ![n] = Never]
  /\ WriteBan(bansLocal[n])
  /\ UNCHANGED <<bansNow, bansStore, bansLocal, bansStrikes, bansLift,
                 bansLifting, bansLifted, bansChain>>

\* Strikes older than the decay count for nothing.
StrikeCount(n, t) ==
  1 + (IF t - bansStrikes[n].last > StrikeDecay THEN 0 ELSE bansStrikes[n].count)

\* A hard breach: the next strike, and the ban of its rung, as of the clock that
\* Observe read before it asked the limiter.
AutoBan(n) ==
  LET t == bansReq[n]
      strike == StrikeCount(n, t)
      entry == BanEntry(n, TRUE, Escalation(strike), t)
  IN /\ t # Never
     /\ strike <= BansMaxStrikes
     /\ ~BanActive(bansLocal[n], t)
     /\ Cardinality(bansSent \ {NoBan}) < BansMaxSent
     /\ bansReq' = [bansReq EXCEPT ![n] = Never]
     /\ bansStrikes' = [bansStrikes EXCEPT ![n] = [count |-> strike, last |-> t]]
     /\ bansLocal' = [bansLocal EXCEPT ![n] = entry]
     /\ WriteBan(entry)
     /\ bansChain' = [bansChain EXCEPT ![n] =
          [length |-> (IF bansNow - @.last > StrikeDecay THEN 0 ELSE @.length)
                      + (IF Permanent(entry) THEN 0 ELSE 1),
           last |-> t]]
     /\ UNCHANGED <<bansNow, bansStore, bansLift, bansLifting, bansLifted>>

(***************************************************************************)
(* Operators                                                               *)
(***************************************************************************)
\* A manual ban replaces what the mirror holds, a permanent ban included.
Add(n) ==
  \E dur \in AddDurations :
    /\ Cardinality(bansSent \ {NoBan}) < BansMaxSent
    /\ bansLocal' = [bansLocal EXCEPT ![n] = BanEntry(n, FALSE, dur, bansNow)]
    /\ WriteBan(BanEntry(n, FALSE, dur, bansNow))
    /\ UNCHANGED <<bansNow, bansStore, bansStrikes, bansLift, bansReq,
                   bansLifting, bansLifted, bansChain>>

\* Lift takes the ban from the mirror ...
Lift(n) ==
  /\ ~bansLifting[n]
  /\ bansLocal' = [bansLocal EXCEPT ![n] = NoBan]
  /\ bansLifting' = [bansLifting EXCEPT ![n] = TRUE]
  /\ UNCHANGED <<bansNow, bansStore, bansSent, bansStrikes, bansLift, bansReq,
                 bansLifted, bansChain>>

\* ... then remembers the lift, and sends the DEL.
LiftEpoch(n) ==
  /\ bansLifting[n]
  /\ bansLifting' = [bansLifting EXCEPT ![n] = FALSE]
  /\ bansLift' = [bansLift EXCEPT ![n] = bansNow]
  /\ bansLifted' = [bansLifted EXCEPT ![n] = bansNow]
  /\ bansSent' = bansSent \cup {NoBan}
  /\ UNCHANGED <<bansNow, bansStore, bansLocal, bansStrikes, bansReq, bansChain>>

(***************************************************************************)
(* Redis, the sweep, a restart, and the clock                              *)
(***************************************************************************)
\* Redis takes a command, or it never arrives. A coordinator that fell back to an
\* older state may take it again.
RedisTakes ==
  \E b \in bansSent :
    /\ bansSent' \in {bansSent, bansSent \ {b}}
    /\ bansStore' \in {b, bansStore}
    /\ UNCHANGED <<bansNow, bansLocal, bansStrikes, bansLift, bansReq,
                   bansLifting, bansLifted, bansChain>>

\* Redis expires or evicts the key.
RedisDrops ==
  /\ bansStore # NoBan
  /\ bansStore' = NoBan
  /\ UNCHANGED <<bansNow, bansSent, bansLocal, bansStrikes, bansLift, bansReq,
                 bansLifting, bansLifted, bansChain>>

\* The sweep of the mirror, of the strikes and of the lift epochs.
BansGC(n) ==
  /\ bansLocal' = [bansLocal EXCEPT ![n] = LocalCheck(n)]
  /\ bansStrikes' = [bansStrikes EXCEPT ![n] =
       IF bansNow - @.last > StrikeDecay THEN NoStrikes ELSE @]
  /\ bansLift' = [bansLift EXCEPT ![n] =
       IF @ # Never /\ bansNow - @ > LiftEpochTTL THEN Never ELSE @]
  /\ UNCHANGED <<bansNow, bansStore, bansSent, bansReq, bansLifting, bansLifted,
                 bansChain>>

\* A node restarts: nothing of its mirror is on disk.
BansRestart(n) ==
  /\ bansLocal' = [bansLocal EXCEPT ![n] = NoBan]
  /\ bansStrikes' = [bansStrikes EXCEPT ![n] = NoStrikes]
  /\ bansLift' = [bansLift EXCEPT ![n] = Never]
  /\ bansReq' = [bansReq EXCEPT ![n] = Never]
  /\ bansLifting' = [bansLifting EXCEPT ![n] = FALSE]
  /\ bansLifted' = [bansLifted EXCEPT ![n] = Never]
  /\ bansChain' = [bansChain EXCEPT ![n] = [length |-> 0, last |-> Never]]
  /\ UNCHANGED <<bansNow, bansStore, bansSent>>

BansTick ==
  /\ bansNow < BansMaxTime
  /\ bansNow' = bansNow + 1
  /\ UNCHANGED <<bansStore, bansSent, bansLocal, bansStrikes, bansLift, bansReq,
                 bansLifting, bansLifted, bansChain>>

BansNext ==
  \/ \E n \in BanNodes : Add(n)
  \/ \E n \in BanGates :
       \/ Request(n) \/ BelowHard(n) \/ AlreadyBanned(n) \/ AutoBan(n)
       \/ Lift(n) \/ LiftEpoch(n) \/ BansGC(n) \/ BansRestart(n)
  \/ RedisTakes \/ RedisDrops \/ BansTick

BansSpec == BansInit /\ [][BansNext]_bansVars

(***************************************************************************)
(* Properties                                                              *)
(***************************************************************************)
Bans == [by : BanNodes \cup {Nobody}, created : Int, until : Int, auto : BOOLEAN]

\* "Reject any ban whose Created predates this node's last observed Lift of the key"
\* (redisledger.go:233): for as long as a lift is remembered, the node that lifted
\* enforces no ban that is not younger, whatever Redis serves, unless it is one the
\* node has put into its own mirror since (a request that had read the clock before
\* the lift and breached after it).
NoResurrection ==
  \A n \in BanNodes, reached \in BOOLEAN :
    LET b == Check(n, reached)
    IN /\ b # NoBan
       /\ bansLifted[n] # Never /\ bansNow - bansLifted[n] <= LiftEpochTTL
       /\ b.created <= bansLifted[n]
       => b.by = n /\ b = bansLocal[n]

\* "permanent on repeat strikes" (ban.go:13): between two quiet spells a node gives
\* a key at most three temporary bans, whatever the sweep and the operators do.
LadderEnds == \A n \in BanNodes : bansChain[n].length <= 3
==============================================================================
