----------------------------- MODULE GateProofs -----------------------------
(* The gate, for any fleet, any configuration and any number of requests: the  *)
(* verdict ledger does not roll back, a lift is not undone by what Redis       *)
(* serves, the ladder of strikes ends, what reaches the origin has earned it,  *)
(* the score a session stores is the score of its evidence, and what operators *)
(* put in force was agreed to by two persons.                                  *)
EXTENDS FleetVerdicts, FleetBans, GatePipeline, ControlPlane, AdminPlane, AdminApi, TLAPS

(***************************************************************************)
(* The verdict ledger: no node returns a verdict older than one it returned. *)
(***************************************************************************)
\* The empty ledger, before the first Set, satisfies both invariants.
LEMMA InitType == Init => TypeOK /\ MarkGuards
<1> SUFFICES ASSUME Init PROVE TypeOK /\ MarkGuards
  BY Zenon
<1>1. TypeOK
  BY Zenon DEF Init, TypeOK, Verdicts, NoVerdict
<1>2. MarkGuards
  BY Zenon DEF Init, MarkGuards
<1> QED
  BY <1>1, <1>2, Zenon

\* Set keeps the types: the set of the values sent only grows.
LEMMA SetType ==
  ASSUME TypeOK, NEW n \in Nodes, Set(n)
  PROVE  TypeOK'
<1>1. written \subseteq written' /\ written' \subseteq 0..now' /\ now' \in Nat
  BY DEF TypeOK, Set
<1>2. local' \in [Nodes -> Verdicts]
  BY Zenon DEF TypeOK, Set, Verdicts
<1>3. /\ store' \in written' \cup {NoVerdict}
      /\ hwm' \in [Nodes -> written' \cup {NoVerdict}]
      /\ returned' \in [Nodes -> written' \cup {NoVerdict}]
  BY <1>1, Zenon DEF TypeOK, Set
<1>4. reading' \in [Nodes -> SUBSET [asked : Nat, reply : SUBSET written']]
  <2>1. [asked : Nat, reply : SUBSET written] \subseteq [asked : Nat, reply : SUBSET written']
    BY <1>1, Zenon
  <2> QED
    BY <2>1, Zenon DEF TypeOK, Set
<1> QED
  BY <1>1, <1>2, <1>3, <1>4, Zenon DEF TypeOK

\* Asking Redis and receiving its reply keep the types.
LEMMA GetType ==
  ASSUME TypeOK, NEW n \in Nodes, Ask(n) \/ Reply(n) \/ ReplyEmpty(n)
  PROVE  TypeOK'
<1> DEFINE Lookups == [asked : Nat, reply : SUBSET written]
<1>0. reading \in [Nodes -> SUBSET Lookups] /\ now \in Nat
  BY Zenon DEF TypeOK
<1>1. CASE Ask(n)
  <2>1. [asked |-> now, reply |-> {}] \in Lookups
    BY <1>0, Zenon
  <2>2. reading' \in [Nodes -> SUBSET Lookups]
    BY <1>0, <1>1, <2>1, Zenon DEF Ask
  <2> QED
    BY <1>1, <2>2, Zenon DEF Ask, TypeOK
<1>2. CASE Reply(n)
  <2>1. PICK r \in reading[n] :
          reading' = [reading EXCEPT ![n] = (@ \ {r}) \cup
                        {[asked |-> r.asked, reply |-> {store}]}]
    BY <1>2, Zenon DEF Reply
  <2>2. r \in Lookups /\ store \in written
    BY <1>0, <1>2, <2>1, Zenon DEF Reply, TypeOK
  <2>3. [asked |-> r.asked, reply |-> {store}] \in Lookups
    BY <2>2, Zenon
  <2>4. reading' \in [Nodes -> SUBSET Lookups]
    BY <1>0, <2>1, <2>3, Zenon
  <2> QED
    BY <1>2, <2>4, Zenon DEF Reply, TypeOK
<1>3. CASE ReplyEmpty(n)
  <2>1. PICK r \in reading[n] : reading' = [reading EXCEPT ![n] = @ \ {r}]
    BY <1>3, Zenon DEF ReplyEmpty
  <2>2. reading' \in [Nodes -> SUBSET Lookups]
    BY <1>0, <2>1, Zenon
  <2> QED
    BY <1>3, <2>2, Zenon DEF ReplyEmpty, TypeOK
<1> QED
  BY <1>1, <1>2, <1>3, Zenon

\* What an accepted reply does: it is at or above the mark, so the mark ends on it.
LEMMA JudgeStep ==
  ASSUME TypeOK, NEW n \in Nodes, Judge(n)
  PROVE  /\ TypeOK'
         /\ UNCHANGED <<now, written>>
         /\ \/ UNCHANGED <<hwm, returned>>
            \/ \E w \in written :
                 /\ w >= hwm[n]
                 /\ hwm' = [hwm EXCEPT ![n] = w]
                 /\ returned' = [returned EXCEPT ![n] = w]
<1> DEFINE Lookups == [asked : Nat, reply : SUBSET written]
<1>0. reading \in [Nodes -> SUBSET Lookups]
  BY Zenon DEF TypeOK
<1>1. PICK r \in reading[n] : \E w \in r.reply :
        /\ reading' = [reading EXCEPT ![n] = @ \ {r}]
        /\ IF Accepted(n, r, w)
           THEN /\ hwm' = [hwm EXCEPT ![n] = Max2(@, w)]
                /\ returned' = [returned EXCEPT ![n] = w]
           ELSE UNCHANGED <<hwm, returned>>
        /\ UNCHANGED <<now, store, written, local>>
  BY Zenon DEF Judge
<1>2. PICK w \in r.reply :
        /\ reading' = [reading EXCEPT ![n] = @ \ {r}]
        /\ IF Accepted(n, r, w)
           THEN /\ hwm' = [hwm EXCEPT ![n] = Max2(@, w)]
                /\ returned' = [returned EXCEPT ![n] = w]
           ELSE UNCHANGED <<hwm, returned>>
        /\ UNCHANGED <<now, store, written, local>>
  BY <1>1, Zenon
<1>3. r \in Lookups
  BY <1>0, Zenon
<1>4. w \in written /\ w \in Nat
  BY <1>2, <1>3 DEF TypeOK
<1>5. reading' \in [Nodes -> SUBSET Lookups]
  BY <1>0, <1>2, Zenon
<1>6. hwm[n] \in Int
  <2>1. hwm[n] \in written \cup {NoVerdict}
    BY Zenon DEF TypeOK
  <2>2. written \subseteq Int
    BY DEF TypeOK
  <2>3. NoVerdict \in Int
    BY DEF NoVerdict
  <2> QED
    BY <2>1, <2>2, <2>3, Zenon
<1>7. CASE Accepted(n, r, w)
  <2>1. w >= hwm[n] /\ Max2(hwm[n], w) = w
    BY <1>4, <1>6, <1>7 DEF Accepted, Max2
  <2>2. hwm' = [hwm EXCEPT ![n] = w] /\ returned' = [returned EXCEPT ![n] = w]
    BY <1>2, <1>7, <2>1, Zenon
  <2>3. /\ hwm' \in [Nodes -> written \cup {NoVerdict}]
        /\ returned' \in [Nodes -> written \cup {NoVerdict}]
    BY <1>4, <2>2, Zenon DEF TypeOK
  <2> QED
    BY <1>2, <1>4, <1>5, <2>1, <2>2, <2>3, Zenon DEF TypeOK
<1>8. CASE ~Accepted(n, r, w)
  BY <1>2, <1>5, <1>8, Zenon DEF TypeOK
<1> QED
  BY <1>7, <1>8, Zenon

\* The sweep leaves every mark that is fresh.
LEMMA GCStep ==
  ASSUME TypeOK, NEW n \in Nodes, GC(n)
  PROVE  /\ TypeOK'
         /\ \A m \in Nodes : Fresh(hwm[m], now) => hwm'[m] = hwm[m]
<1>1. hwm' \in [Nodes -> written \cup {NoVerdict}]
  BY Zenon DEF GC, TypeOK
<1>2. local' \in [Nodes -> Verdicts]
  BY Zenon DEF GC, TypeOK, Verdicts
<1>3. \A m \in Nodes : Fresh(hwm[m], now) => hwm'[m] = hwm[m]
  BY Zenon DEF GC, TypeOK
<1> QED
  BY <1>1, <1>2, <1>3, Zenon DEF GC, TypeOK

\* The store and the clock keep the types.
LEMMA EnvironmentType ==
  ASSUME TypeOK, StoreTakes \/ StoreDrops \/ Tick
  PROVE  TypeOK'
<1>1. CASE StoreTakes
  BY <1>1, Zenon DEF StoreTakes, TypeOK
<1>2. CASE StoreDrops
  BY <1>2, Zenon DEF StoreDrops, TypeOK
<1>3. CASE Tick
  <2>1. now' \in Nat /\ written' \subseteq 0..now'
    BY <1>3 DEF Tick, TypeOK
  <2> QED
    BY <1>3, <2>1, Zenon DEF Tick, TypeOK
<1> QED
  BY <1>1, <1>2, <1>3, Zenon

\* Every step of the ledger keeps the types.
LEMMA TypeStep == TypeOK /\ [Next]_vars => TypeOK'
<1> SUFFICES ASSUME TypeOK, [Next]_vars PROVE TypeOK'
  BY Zenon
<1>1. ASSUME NEW n \in Nodes, Set(n) PROVE TypeOK'
  BY <1>1, SetType, Zenon
<1>2. ASSUME NEW n \in Nodes, Ask(n) \/ Reply(n) \/ ReplyEmpty(n) PROVE TypeOK'
  BY <1>2, GetType, Zenon
<1>3. ASSUME NEW n \in Nodes, Judge(n) PROVE TypeOK'
  BY <1>3, JudgeStep, Zenon
<1>4. ASSUME NEW n \in Nodes, GC(n) PROVE TypeOK'
  BY <1>4, GCStep, Zenon
<1>5. CASE StoreTakes \/ StoreDrops \/ Tick
  BY <1>5, EnvironmentType, Zenon
<1>6. CASE UNCHANGED vars
  BY <1>6, Zenon DEF vars, TypeOK
<1> QED
  BY <1>1, <1>2, <1>3, <1>4, <1>5, <1>6, Zenon DEF Next

\* What is fresh now was fresh before: the clock only advances.
LEMMA FreshBefore ==
  ASSUME NEW v \in Int, NEW t \in Int, NEW u \in Int, t <= u, Fresh(v, u)
  PROVE  Fresh(v, t)
BY ConstantsAssumption DEF Fresh

\* What a node has returned is a number that can be compared with the clock.
LEMMA ReturnedInt == TypeOK => now \in Nat /\ \A n \in Nodes : returned[n] \in Int /\ hwm[n] \in Int
<1> SUFFICES ASSUME TypeOK, NEW n \in Nodes
             PROVE  now \in Nat /\ returned[n] \in Int /\ hwm[n] \in Int
  BY Zenon DEF TypeOK
<1>1. written \subseteq Int /\ now \in Nat
  BY DEF TypeOK
<1>2. returned[n] \in written \cup {NoVerdict} /\ hwm[n] \in written \cup {NoVerdict}
  BY Zenon DEF TypeOK
<1>3. NoVerdict \in Int
  BY DEF NoVerdict
<1> QED
  BY <1>1, <1>2, <1>3, Zenon

\* Every step of the ledger keeps the mark on the last verdict returned while that
\* is fresh.
LEMMA MarkStep == TypeOK /\ MarkGuards /\ [Next]_vars => MarkGuards'
<1> SUFFICES ASSUME TypeOK, MarkGuards, [Next]_vars PROVE MarkGuards'
  BY Zenon
<1>0. now \in Nat /\ \A n \in Nodes : returned[n] \in Int /\ hwm[n] \in Int
  BY ReturnedInt, Zenon
<1>1. ASSUME NEW n \in Nodes, Judge(n) PROVE MarkGuards'
  <2>1. UNCHANGED now
    BY <1>1, JudgeStep, Zenon
  <2>2. CASE UNCHANGED <<hwm, returned>>
    BY <2>1, <2>2, Zenon DEF MarkGuards, Fresh
  <2>3. CASE \E w \in written : /\ hwm' = [hwm EXCEPT ![n] = w]
                                /\ returned' = [returned EXCEPT ![n] = w]
    <3>1. PICK w \in written : /\ hwm' = [hwm EXCEPT ![n] = w]
                               /\ returned' = [returned EXCEPT ![n] = w]
      BY <2>3, Zenon
    <3>2. DOMAIN hwm = Nodes /\ DOMAIN returned = Nodes
      BY Zenon DEF TypeOK
    <3>3. hwm'[n] = returned'[n]
      BY <3>1, <3>2, Zenon
    <3>4. \A m \in Nodes \ {n} : hwm'[m] = hwm[m] /\ returned'[m] = returned[m]
      BY <3>1, <3>2, Zenon
    <3> QED
      BY <2>1, <3>3, <3>4, Zenon DEF MarkGuards, Fresh
  <2> QED
    BY <1>1, <2>2, <2>3, JudgeStep, Zenon
<1>2. ASSUME NEW n \in Nodes, GC(n) PROVE MarkGuards'
  <2>1. UNCHANGED <<now, returned>>
    BY <1>2, Zenon DEF GC
  <2>2. \A m \in Nodes : Fresh(hwm[m], now) => hwm'[m] = hwm[m]
    BY <1>2, GCStep, Zenon
  <2> QED
    BY <2>1, <2>2, Zenon DEF MarkGuards, Fresh
<1>3. CASE Tick
  <2>1. now' \in Nat /\ now <= now' /\ UNCHANGED <<hwm, returned>>
    BY <1>0, <1>3 DEF Tick
  <2>2. \A m \in Nodes : Fresh(returned[m], now') => Fresh(returned[m], now)
    BY <1>0, <2>1, FreshBefore
  <2> QED
    BY <2>1, <2>2, Zenon DEF MarkGuards, Fresh
<1>4. CASE UNCHANGED <<now, hwm, returned>>
  BY <1>4, Zenon DEF MarkGuards, Fresh
<1> QED
  BY <1>1, <1>2, <1>3, <1>4, Zenon
  DEF Next, vars, Set, Ask, Reply, ReplyEmpty, StoreTakes, StoreDrops

\* No step takes a node back to an older verdict while the newer is fresh.
LEMMA RollbackStep ==
  ASSUME TypeOK, MarkGuards, [Next]_vars
  PROVE  \A n \in Nodes : returned'[n] < returned[n] => ~Fresh(returned[n], now)
<1> SUFFICES ASSUME NEW m \in Nodes, returned'[m] < returned[m], Fresh(returned[m], now)
             PROVE  FALSE
  BY Zenon
<1>0. now \in Nat /\ \A n \in Nodes : returned[n] \in Int /\ hwm[n] \in Int
  BY ReturnedInt, Zenon
<1>1. ASSUME NEW n \in Nodes, Judge(n) PROVE FALSE
  <2>1. CASE UNCHANGED <<hwm, returned>>
    BY <1>0, <2>1
  <2>2. CASE \E w \in written : w >= hwm[n] /\ returned' = [returned EXCEPT ![n] = w]
    <3>1. PICK w \in written : w >= hwm[n] /\ returned' = [returned EXCEPT ![n] = w]
      BY <2>2, Zenon
    <3>2. DOMAIN returned = Nodes /\ w \in Nat
      BY DEF TypeOK
    <3>3. CASE m # n
      BY <1>0, <3>1, <3>2, <3>3
    <3>4. CASE m = n
      <4>1. returned'[n] = w /\ w < returned[n]
        BY <3>1, <3>2, <3>4, Zenon
      <4>2. returned[n] # NoVerdict
        BY <3>2, <4>1 DEF NoVerdict
      <4>3. hwm[n] = returned[n]
        BY <3>4, <4>2, Zenon DEF MarkGuards
      <4> QED
        BY <1>0, <3>1, <3>2, <4>1, <4>3
    <3> QED
      BY <3>3, <3>4, Zenon
  <2> QED
    BY <1>1, <2>1, <2>2, JudgeStep, Zenon
<1>2. CASE UNCHANGED returned
  BY <1>0, <1>2
<1> QED
  BY <1>1, <1>2, Zenon
  DEF Next, vars, Set, Ask, Reply, ReplyEmpty, StoreTakes, StoreDrops, GC, Tick

\* For any fleet, TTL and number of concurrent Gets: the types, and the mark stays
\* on the last verdict a node returned while that verdict is fresh.
THEOREM LedgerInvariant == Spec => [](TypeOK /\ MarkGuards)
<1>1. TypeOK /\ MarkGuards /\ [Next]_vars => (TypeOK /\ MarkGuards)'
  BY TypeStep, MarkStep, Zenon
<1> QED
  BY <1>1, InitType, PTL DEF Spec

\* For any fleet, TTL and number of concurrent Gets: Get never goes back to an older
\* verdict of the store while the newer one it returned is fresh.
THEOREM LedgerNoRollback == Spec => NoRollback
<1>1. TypeOK /\ MarkGuards /\ [Next]_vars
        => [\A n \in Nodes : returned'[n] < returned[n] => ~Fresh(returned[n], now)]_vars
  BY RollbackStep, Zenon
<1> QED
  BY <1>1, LedgerInvariant, PTL DEF Spec, NoRollback

-----------------------------------------------------------------------------
(***************************************************************************)
(* The bans: lifts hold, and the ladder of strikes ends.                   *)
(***************************************************************************)
\* The lift a node remembers is its last one, for as long as that matters.
LiftKept ==
  \A n \in BanNodes :
    bansLifted[n] # Never /\ bansNow - bansLifted[n] <= LiftEpochTTL => bansLift[n] = bansLifted[n]

\* What a mirror holds, its node has put there.
MirrorOwn == \A n \in BanNodes : bansLocal[n] # NoBan => bansLocal[n].by = n

\* A run of temporary bans has a strike for each, counted from the same moment.
ChainCounted ==
  \A n \in BanNodes :
    /\ bansChain[n].length <= 3
    /\ bansNow - bansChain[n].last <= StrikeDecay =>
         /\ bansStrikes[n].last = bansChain[n].last
         /\ bansChain[n].length <= bansStrikes[n].count

BanTypes ==
  /\ bansNow \in Nat \ {0}
  /\ bansLocal \in [BanNodes -> Bans]
  /\ bansStrikes \in [BanNodes -> [count : Nat, last : Int]]
  /\ bansLift \in [BanNodes -> Int]
  /\ bansReq \in [BanNodes -> Int] /\ \A n \in BanNodes : bansReq[n] = Never \/ bansReq[n] \in 1..bansNow
  /\ bansLifted \in [BanNodes -> Int]
  /\ bansChain \in [BanNodes -> [length : Nat, last : Int]]

BansInv == BanTypes /\ LiftKept /\ MirrorOwn /\ ChainCounted

LEMMA NoBanType == NoBan \in Bans
  BY DEF NoBan, Bans, Never

\* Replacing one entry of a function keeps its type.
LEMMA Replaced ==
  ASSUME NEW S, NEW T, NEW f \in [S -> T], NEW x, NEW v \in T
  PROVE  [f EXCEPT ![x] = v] \in [S -> T]
  BY Zenon

LEMMA NeverType == Never \in Int
  BY DEF Never

LEMMA EntryType ==
  ASSUME NEW n \in BanNodes, NEW auto \in BOOLEAN, NEW dur \in Nat, NEW t \in Nat
  PROVE  BanEntry(n, auto, dur, t) \in Bans /\ BanEntry(n, auto, dur, t).by = n
  BY DEF BanEntry, Bans

\* The first three rungs are temporary, the rest permanent.
LEMMA Rungs ==
  ASSUME NEW strike \in Nat \ {0}, NEW t \in Nat, NEW n
  PROVE  /\ Escalation(strike) \in Nat
         /\ Permanent(BanEntry(n, TRUE, Escalation(strike), t)) <=> strike > 3
  BY BansAssumption DEF Escalation, Permanent, BanEntry

LEMMA BansInitInv == BansInit => BansInv
<1> SUFFICES ASSUME BansInit PROVE BansInv
  BY Zenon
<1>1. BanTypes
  BY NoBanType DEF BansInit, BanTypes, NoStrikes, Never
<1>2. LiftKept /\ MirrorOwn /\ ChainCounted
  BY DEF BansInit, LiftKept, MirrorOwn, ChainCounted, NoStrikes, Never
<1> QED
  BY <1>1, <1>2, Zenon DEF BansInv

\* A hard breach moves the ladder and the run together.
LEMMA AutoBanInv ==
  ASSUME BansInv, NEW n \in BanGates, AutoBan(n) PROVE BansInv'
<1> USE DEF BansInv
<1> DEFINE t == bansReq[n]
           strike == StrikeCount(n, t)
           entry == BanEntry(n, TRUE, Escalation(strike), t)
           alive == bansNow - bansChain[n].last <= StrikeDecay
<1>0. n \in BanNodes /\ t \in 1..bansNow /\ t \in Nat /\ bansNow \in Nat /\ StrikeDecay \in Nat
  <2>1. n \in BanNodes /\ bansNow \in Nat \ {0} /\ StrikeDecay \in Nat
    BY BansAssumption, Zenon DEF BanTypes
  <2>2. t \in 1..bansNow
    BY <2>1, Zenon DEF AutoBan, BanTypes
  <2> QED BY ONLY <2>1, <2>2
<1>1. strike \in Nat \ {0} /\ (alive => strike = bansStrikes[n].count + 1)
  BY <1>0, BansAssumption DEF StrikeCount, BanTypes, ChainCounted
<1>2. entry \in Bans /\ entry.by = n /\ (Permanent(entry) <=> strike > 3)
  BY <1>0, <1>1, EntryType, Rungs, Zenon
<1>3. /\ bansReq' = [bansReq EXCEPT ![n] = Never]
      /\ bansStrikes' = [bansStrikes EXCEPT ![n] = [count |-> strike, last |-> t]]
      /\ bansLocal' = [bansLocal EXCEPT ![n] = entry]
      /\ bansChain' = [bansChain EXCEPT ![n] =
           [length |-> (IF bansNow - @.last > StrikeDecay THEN 0 ELSE @.length) + (IF Permanent(entry) THEN 0 ELSE 1),
            last |-> t]]
      /\ UNCHANGED <<bansNow, bansLift, bansLifted>>
  BY Zenon DEF AutoBan
<1> HIDE DEF entry, strike, t
<1>4. BanTypes'
  <2>1. bansLocal' \in [BanNodes -> Bans] /\ bansReq' \in [BanNodes -> Int]
        /\ \A m \in BanNodes : bansReq'[m] = Never \/ bansReq'[m] \in 1..bansNow
    <3>1. bansLocal' \in [BanNodes -> Bans]
      BY <1>2, <1>3, Zenon DEF BanTypes
    <3>2. \A m \in BanNodes : bansReq'[m] = Never \/ bansReq'[m] = bansReq[m]
      BY <1>3, Zenon DEF BanTypes
    <3>3. bansReq' \in [BanNodes -> Int]
      BY <1>3, Replaced, NeverType, Zenon DEF BanTypes
    <3> QED
      BY <3>1, <3>2, <3>3, Zenon DEF BanTypes
  <2>2. bansStrikes' \in [BanNodes -> [count : Nat, last : Int]]
    BY <1>0, <1>1, <1>3, SMTT(30) DEF BanTypes
  <2>3. bansChain' \in [BanNodes -> [length : Nat, last : Int]]
    <3> DEFINE old == bansChain[n]
               new == [length |-> (IF bansNow - old.last > StrikeDecay THEN 0 ELSE old.length)
                                    + (IF Permanent(entry) THEN 0 ELSE 1),
                       last |-> t]
    <3>1. old.length \in Nat
      BY <1>0, Zenon DEF BanTypes
    <3>2. (IF bansNow - old.last > StrikeDecay THEN 0 ELSE old.length) \in Nat
      BY <3>1
    <3>3. (IF Permanent(entry) THEN 0 ELSE 1) \in Nat
      OBVIOUS
    <3>4. \A i, j \in Nat : i + j \in Nat
      OBVIOUS
    <3>5. t \in Int
      BY ONLY <1>0
    <3>6. new \in [length : Nat, last : Int]
      BY <3>2, <3>3, <3>4, <3>5, Zenon
    <3>7. bansChain' = [bansChain EXCEPT ![n] = new]
      BY <1>3, Zenon
    <3> HIDE DEF new
    <3> QED BY <3>6, <3>7, Replaced, Zenon DEF BanTypes
  <2> QED
    BY <1>3, <2>1, <2>2, <2>3, Zenon DEF BanTypes
<1>5. LiftKept' /\ MirrorOwn'
  BY <1>0, <1>2, <1>3, ZenonT(30) DEF LiftKept, MirrorOwn, BanTypes
<1>6. ChainCounted'
  <2>1. bansStrikes'[n] = [count |-> strike, last |-> t]
    BY <1>0, <1>3, Zenon DEF BanTypes
  <2>2. /\ bansChain'[n].last = t
        /\ bansChain'[n].length = (IF alive THEN bansChain[n].length ELSE 0) + (IF strike > 3 THEN 0 ELSE 1)
    BY <1>0, <1>2, <1>3, SMTT(30) DEF BanTypes
  <2>3. bansChain[n].length \in 0..3 /\ (alive => bansChain[n].length <= bansStrikes[n].count)
        /\ bansStrikes[n].count \in Nat
    <3>1. bansChain[n] \in [length : Nat, last : Int] /\ bansStrikes[n] \in [count : Nat, last : Int]
      BY <1>0, Zenon DEF BanTypes
    <3>2. bansChain[n].length \in Nat /\ bansStrikes[n].count \in Nat
      BY <3>1, Zenon
    <3>3. bansChain[n].length <= 3 /\ (alive => bansChain[n].length <= bansStrikes[n].count)
      BY <1>0, Zenon DEF ChainCounted
    <3> QED
      BY ONLY <3>2, <3>3
  <2>4. bansChain'[n].length <= 3 /\ bansChain'[n].length <= strike
    BY ONLY <1>1, <2>2, <2>3
  <2>5. \A m \in BanNodes : m # n => bansStrikes'[m] = bansStrikes[m] /\ bansChain'[m] = bansChain[m]
    BY <1>3, Zenon DEF BanTypes
  <2> SUFFICES ASSUME NEW m \in BanNodes
               PROVE  /\ bansChain'[m].length <= 3
                      /\ bansNow' - bansChain'[m].last <= StrikeDecay =>
                           /\ bansStrikes'[m].last = bansChain'[m].last
                           /\ bansChain'[m].length <= bansStrikes'[m].count
    BY Zenon DEF ChainCounted
  <2>6. CASE m = n
    <3>1. bansStrikes'[n].count = strike /\ bansStrikes'[n].last = t
      BY ONLY <2>1
    <3>2. bansStrikes'[n].last = bansChain'[n].last /\ bansChain'[n].length <= bansStrikes'[n].count
      BY <2>2, <2>4, <3>1, Zenon
    <3> QED BY <2>4, <2>6, <3>2, Zenon
  <2>7. CASE m # n
    BY <1>0, <1>3, <2>5, <2>7, Zenon DEF ChainCounted
  <2> QED
    BY <2>6, <2>7, Zenon
<1> QED
  BY <1>4, <1>5, <1>6, ZenonT(30)

LEMMA AddInv ==
  ASSUME BansInv, NEW n \in BanNodes, Add(n) PROVE BansInv'
<1> USE DEF BansInv
<1>1. PICK dur \in AddDurations : bansLocal' = [bansLocal EXCEPT ![n] = BanEntry(n, FALSE, dur, bansNow)]
  BY Zenon DEF Add
<1>2. /\ BanEntry(n, FALSE, dur, bansNow) \in Bans /\ BanEntry(n, FALSE, dur, bansNow).by = n
  BY EntryType, BansAssumption, Zenon DEF BanTypes
<1>3. bansLocal' \in [BanNodes -> Bans] /\ MirrorOwn'
  BY <1>1, <1>2, Zenon DEF BanTypes, MirrorOwn
<1> QED
  BY <1>3, Zenon DEF Add, BanTypes, LiftKept, ChainCounted

\* A request only notes the clock, and ends.
LEMMA RequestInv ==
  ASSUME BansInv, NEW n \in BanGates, Request(n) \/ BelowHard(n) \/ AlreadyBanned(n) PROVE BansInv'
<1> USE DEF BansInv
<1>1. bansReq' = [bansReq EXCEPT ![n] = bansNow] \/ bansReq' = [bansReq EXCEPT ![n] = Never]
  BY Zenon DEF Request, BelowHard, AlreadyBanned
<1>2. UNCHANGED <<bansNow, bansLocal, bansStrikes, bansLift, bansLifted, bansChain>>
  BY Zenon DEF Request, BelowHard, AlreadyBanned
<1>3. BanTypes'
  BY <1>1, <1>2 DEF BanTypes, Never
<1> QED
  BY <1>2, <1>3, Zenon DEF LiftKept, MirrorOwn, ChainCounted

LEMMA LiftInv ==
  ASSUME BansInv, NEW n \in BanGates, Lift(n) \/ LiftEpoch(n) PROVE BansInv'
<1> USE DEF BansInv
<1>1. CASE Lift(n)
  BY <1>1, NoBanType, Zenon DEF Lift, BanTypes, LiftKept, MirrorOwn, ChainCounted
<1>2. CASE LiftEpoch(n)
  <2>1. /\ bansLift' = [bansLift EXCEPT ![n] = bansNow] /\ bansLifted' = [bansLifted EXCEPT ![n] = bansNow]
        /\ UNCHANGED <<bansNow, bansLocal, bansStrikes, bansReq, bansChain>>
    BY <1>2, Zenon DEF LiftEpoch
  <2>2. BanTypes'
    <3>1. bansNow \in Int /\ bansLift \in [BanNodes -> Int] /\ bansLifted \in [BanNodes -> Int]
      BY DEF BanTypes
    <3>2. bansLift' \in [BanNodes -> Int] /\ bansLifted' \in [BanNodes -> Int]
      BY <2>1, <3>1, Replaced, Zenon
    <3> QED
      BY <2>1, <3>2, Zenon DEF BanTypes
  <2>3. LiftKept'
    BY <2>1, Zenon DEF BanTypes, LiftKept
  <2> QED
    BY <2>1, <2>2, <2>3, Zenon DEF MirrorOwn, ChainCounted
<1> QED
  BY <1>1, <1>2, Zenon

\* The sweep forgets only lifts and strikes that no longer count.
LEMMA GCInv ==
  ASSUME BansInv, NEW n \in BanGates, BansGC(n) PROVE BansInv'
<1> USE DEF BansInv
<1>0. n \in BanNodes
  BY BansAssumption, Zenon
<1>1. /\ bansLocal' = [bansLocal EXCEPT ![n] = LocalCheck(n)] /\ LocalCheck(n) \in {bansLocal[n], NoBan}
      /\ bansStrikes' = [bansStrikes EXCEPT ![n] = IF bansNow - @.last > StrikeDecay THEN NoStrikes ELSE @]
      /\ bansLift' = [bansLift EXCEPT ![n] = IF @ # Never /\ bansNow - @ > LiftEpochTTL THEN Never ELSE @]
      /\ UNCHANGED <<bansNow, bansReq, bansLifted, bansChain>>
  BY Zenon DEF BansGC, LocalCheck
<1>2. BanTypes' /\ MirrorOwn'
  <2>1. NoStrikes \in [count : Nat, last : Int]
    BY NeverType, Zenon DEF NoStrikes
  <2>2. bansStrikes' \in [BanNodes -> [count : Nat, last : Int]]
    <3> DEFINE s == IF bansNow - bansStrikes[n].last > StrikeDecay THEN NoStrikes ELSE bansStrikes[n]
    <3>1. s \in [count : Nat, last : Int]
      BY <1>0, <2>1, Zenon DEF BanTypes
    <3>2. bansStrikes' = [bansStrikes EXCEPT ![n] = s]
      BY <1>1, Zenon
    <3> HIDE DEF s
    <3> QED BY <3>1, <3>2, Replaced, Zenon DEF BanTypes
  <2>3. bansLift' \in [BanNodes -> Int]
    <3> DEFINE s == IF bansLift[n] # Never /\ bansNow - bansLift[n] > LiftEpochTTL THEN Never ELSE bansLift[n]
    <3>1. s \in Int
      BY <1>0, NeverType, Zenon DEF BanTypes
    <3>2. bansLift' = [bansLift EXCEPT ![n] = s]
      BY <1>1, Zenon
    <3> HIDE DEF s
    <3> QED BY <3>1, <3>2, Replaced, Zenon DEF BanTypes
  <2>4. LocalCheck(n) \in Bans /\ (LocalCheck(n) # NoBan => LocalCheck(n) = bansLocal[n])
    <3>1. bansLocal[n] \in Bans
      BY <1>0, Zenon DEF BanTypes
    <3>2. LocalCheck(n) = bansLocal[n] \/ LocalCheck(n) = NoBan
      BY <1>1, Zenon
    <3> HIDE DEF BansInv
    <3> QED BY <3>1, <3>2, NoBanType, Zenon
  <2>5. bansLocal' \in [BanNodes -> Bans]
    <3>1. bansLocal \in [BanNodes -> Bans] /\ bansLocal' = [bansLocal EXCEPT ![n] = LocalCheck(n)]
      BY <1>1, Zenon DEF BanTypes
    <3> QED BY <2>4, <3>1, Replaced, Zenon
  <2>6. \A m \in BanNodes : bansLocal'[m] # NoBan => bansLocal'[m] = bansLocal[m]
    BY <1>1, <2>4, Zenon DEF BanTypes
  <2>7. MirrorOwn'
    BY <2>6, Zenon DEF MirrorOwn
  <2> QED BY <1>1, <2>2, <2>3, <2>5, <2>7, Zenon DEF BanTypes
<1>3. LiftKept'
  <2>1. \A m \in BanNodes : m # n => bansLift'[m] = bansLift[m]
    BY <1>1, Zenon DEF BanTypes
  <2>2. bansLift'[n] = IF bansLift[n] # Never /\ bansNow - bansLift[n] > LiftEpochTTL THEN Never ELSE bansLift[n]
    BY <1>0, <1>1, Zenon DEF BanTypes
  <2>3. bansNow \in Int /\ bansLifted[n] \in Int /\ LiftEpochTTL \in Int
    <3>1. \A i \in Nat : i \in Int
      BY ONLY TRUE
    <3> QED BY <1>0, <3>1, BansAssumption, Zenon DEF BanTypes
  <2>4. bansNow - bansLifted[n] <= LiftEpochTTL => ~(bansNow - bansLifted[n] > LiftEpochTTL)
    BY ONLY <2>3
  <2>5. bansLifted[n] # Never /\ bansNow - bansLifted[n] <= LiftEpochTTL => bansLift'[n] = bansLifted[n]
    BY <1>0, <2>2, <2>4, Zenon DEF LiftKept
  <2> QED BY <1>1, <2>1, <2>5, Zenon DEF LiftKept
<1>4. ChainCounted'
  <2>1. bansNow - bansChain[n].last <= StrikeDecay => bansStrikes'[n] = bansStrikes[n]
    <3>1. bansStrikes'[n] = IF bansNow - bansStrikes[n].last > StrikeDecay THEN NoStrikes ELSE bansStrikes[n]
      BY <1>0, <1>1, Zenon DEF BanTypes
    <3>2. bansNow - bansChain[n].last <= StrikeDecay => bansStrikes[n].last = bansChain[n].last
      BY <1>0, Zenon DEF ChainCounted
    <3>3. bansNow \in Nat /\ bansChain[n].last \in Int /\ StrikeDecay \in Nat
      BY <1>0, BansAssumption, Zenon DEF BanTypes
    <3>4. bansNow - bansChain[n].last <= StrikeDecay => ~(bansNow - bansChain[n].last > StrikeDecay)
      BY ONLY <3>3
    <3> QED BY <3>1, <3>2, <3>4, Zenon
  <2>2. \A m \in BanNodes : m # n => bansStrikes'[m] = bansStrikes[m]
    BY <1>1, Zenon DEF BanTypes
  <2> QED
    BY <1>1, <2>1, <2>2, Zenon DEF ChainCounted
<1> QED
  BY <1>2, <1>3, <1>4, Zenon

LEMMA RestartInv ==
  ASSUME BansInv, NEW n \in BanGates, BansRestart(n) PROVE BansInv'
<1> USE DEF BansInv
<1>1. BanTypes'
  <2>1. bansNow' = bansNow /\ bansNow \in Nat \ {0}
    BY Zenon DEF BansRestart, BanTypes
  <2>2. bansLocal' \in [BanNodes -> Bans]
    BY NoBanType, Zenon DEF BansRestart, BanTypes
  <2>3. bansStrikes' \in [BanNodes -> [count : Nat, last : Int]] /\ bansChain' \in [BanNodes -> [length : Nat, last : Int]]
    <3>1. NoStrikes \in [count : Nat, last : Int] /\ [length |-> 0, last |-> Never] \in [length : Nat, last : Int]
      BY NeverType, Zenon DEF NoStrikes
    <3>2. /\ bansStrikes' = [bansStrikes EXCEPT ![n] = NoStrikes]
          /\ bansChain' = [bansChain EXCEPT ![n] = [length |-> 0, last |-> Never]]
      BY Zenon DEF BansRestart
    <3>3. bansStrikes \in [BanNodes -> [count : Nat, last : Int]] /\ bansChain \in [BanNodes -> [length : Nat, last : Int]]
      BY Zenon DEF BanTypes
    <3> QED
      BY <3>1, <3>2, <3>3, Replaced, Zenon
  <2>4. bansLift' \in [BanNodes -> Int] /\ bansLifted' \in [BanNodes -> Int] /\ bansReq' \in [BanNodes -> Int]
    <3>1. bansLift \in [BanNodes -> Int] /\ bansLifted \in [BanNodes -> Int] /\ bansReq \in [BanNodes -> Int]
      BY Zenon DEF BanTypes
    <3>2. /\ bansLift' = [bansLift EXCEPT ![n] = Never] /\ bansLifted' = [bansLifted EXCEPT ![n] = Never]
          /\ bansReq' = [bansReq EXCEPT ![n] = Never]
      BY Zenon DEF BansRestart
    <3> QED
      BY <3>1, <3>2, Replaced, NeverType, Zenon
  <2>5. \A m \in BanNodes : bansReq'[m] = Never \/ bansReq'[m] = bansReq[m]
    <3>1. bansReq \in [BanNodes -> Int] /\ bansReq' = [bansReq EXCEPT ![n] = Never]
      BY Zenon DEF BansRestart, BanTypes
    <3> QED
      BY <3>1, Zenon
  <2> QED
    BY <2>1, <2>2, <2>3, <2>4, <2>5, Zenon DEF BanTypes
<1>2. LiftKept' /\ MirrorOwn' /\ ChainCounted'
  <2>1. \A m \in BanNodes : m # n =>
          /\ bansLocal'[m] = bansLocal[m] /\ bansStrikes'[m] = bansStrikes[m] /\ bansLift'[m] = bansLift[m]
          /\ bansLifted'[m] = bansLifted[m] /\ bansChain'[m] = bansChain[m]
    BY Zenon DEF BansRestart, BanTypes
  <2>2. n \in BanNodes
    BY BansAssumption, Zenon
  <2>3. /\ bansLocal'[n] = NoBan /\ bansStrikes'[n] = NoStrikes /\ bansLifted'[n] = Never
        /\ bansChain'[n] = [length |-> 0, last |-> Never]
    BY <2>2, Zenon DEF BansRestart, BanTypes
  <2>4. NoStrikes.last = Never /\ NoStrikes.count = 0
    BY Zenon DEF NoStrikes
  <2>5. bansChain'[n].length = 0 /\ bansChain'[n].last = Never /\ 0 <= 3 /\ 0 <= 0
    BY ONLY <2>3
  <2>6. bansNow' = bansNow
    BY Zenon DEF BansRestart
  <2>7. LiftKept'
    BY <2>1, <2>3, <2>6, Zenon DEF LiftKept
  <2>8. MirrorOwn'
    BY <2>1, <2>3, Zenon DEF MirrorOwn
  <2>9. ChainCounted'
    <3>1. bansStrikes'[n].last = Never /\ bansStrikes'[n].count = 0
      BY <2>3, <2>4, Zenon
    <3>2. /\ bansChain'[n].length <= 3 /\ bansStrikes'[n].last = bansChain'[n].last
          /\ bansChain'[n].length <= bansStrikes'[n].count
      BY <2>5, <3>1, Zenon
    <3>3. ASSUME NEW m \in BanNodes
          PROVE  /\ bansChain'[m].length <= 3
                 /\ bansNow' - bansChain'[m].last <= StrikeDecay =>
                      /\ bansStrikes'[m].last = bansChain'[m].last
                      /\ bansChain'[m].length <= bansStrikes'[m].count
      <4>1. CASE m = n
        BY <3>2, <4>1, Zenon
      <4>2. CASE m # n
        BY <2>1, <2>6, <4>2, Zenon DEF ChainCounted
      <4> QED BY <4>1, <4>2, Zenon
    <3> QED BY <3>3, Zenon DEF ChainCounted
  <2> QED BY <2>7, <2>8, <2>9, Zenon
<1> QED
  BY <1>1, <1>2, Zenon

LEMMA BansNextInv == BansInv /\ [BansNext]_bansVars => BansInv'
<1> SUFFICES ASSUME BansInv, [BansNext]_bansVars PROVE BansInv'
  BY Zenon
<1>1. CASE \E n \in BanNodes : Add(n)
  BY <1>1, AddInv, Zenon
<1>2. ASSUME NEW n \in BanGates,
             \/ Request(n) \/ BelowHard(n) \/ AlreadyBanned(n) \/ AutoBan(n)
             \/ Lift(n) \/ LiftEpoch(n) \/ BansGC(n) \/ BansRestart(n)
      PROVE  BansInv'
  BY <1>2, RequestInv, AutoBanInv, LiftInv, GCInv, RestartInv, Zenon
<1>3. CASE RedisTakes \/ RedisDrops \/ UNCHANGED bansVars
  BY <1>3, Zenon DEF RedisTakes, RedisDrops, bansVars, BansInv, BanTypes, LiftKept, MirrorOwn, ChainCounted
<1>4. CASE BansTick
  <2>1. bansNow' = bansNow + 1 /\ UNCHANGED <<bansLocal, bansStrikes, bansLift, bansReq, bansLifted, bansChain>>
    BY <1>4, Zenon DEF BansTick
  <2> QED
    <3>1. BanTypes /\ LiftKept /\ MirrorOwn /\ ChainCounted
      BY Zenon DEF BansInv
    <3>2. bansNow \in Nat \ {0} /\ StrikeDecay \in Nat /\ LiftEpochTTL \in Nat
      BY <3>1, BansAssumption, Zenon DEF BanTypes
    <3>3. /\ bansNow + 1 \in Nat \ {0} /\ \A i \in 1..bansNow : i \in 1..bansNow + 1
      BY ONLY <3>2
    <3>4. BanTypes'
      BY <2>1, <3>1, <3>3, Zenon DEF BanTypes
    <3>5. \A m \in BanNodes : bansLifted[m] \in Int /\ bansChain[m].last \in Int
      BY <3>1, Zenon DEF BanTypes
    <3>6. LiftKept' /\ MirrorOwn'
      <4>1. ASSUME NEW m \in BanNodes, bansLifted'[m] # Never, bansNow' - bansLifted'[m] <= LiftEpochTTL
            PROVE  bansLift'[m] = bansLifted'[m]
        <5>1. bansLifted'[m] = bansLifted[m] /\ bansLift'[m] = bansLift[m]
          BY <2>1, Zenon
        <5>2. bansLifted[m] \in Int
          BY <3>5, Zenon
        <5>3. bansNow - bansLifted[m] <= LiftEpochTTL
          BY ONLY <2>1, <3>2, <4>1, <5>1, <5>2, SMTT(30)
        <5> QED BY <3>1, <4>1, <5>1, <5>3, Zenon DEF LiftKept
      <4>2. MirrorOwn'
        BY <2>1, <3>1, Zenon DEF MirrorOwn
      <4> QED BY <4>1, <4>2, Zenon DEF LiftKept
    <3>7. ChainCounted'
      <4>1. ASSUME NEW m \in BanNodes
            PROVE  /\ bansChain'[m].length <= 3
                   /\ bansNow' - bansChain'[m].last <= StrikeDecay =>
                        /\ bansStrikes'[m].last = bansChain'[m].last
                        /\ bansChain'[m].length <= bansStrikes'[m].count
        <5>1. bansChain'[m] = bansChain[m] /\ bansStrikes'[m] = bansStrikes[m]
          BY <2>1, Zenon
        <5>2. bansChain[m].last \in Int
          BY <3>5, Zenon
        <5>3. bansNow' - bansChain'[m].last <= StrikeDecay => bansNow - bansChain[m].last <= StrikeDecay
          BY ONLY <2>1, <3>2, <5>1, <5>2, SMTT(30)
        <5> QED BY <3>1, <5>1, <5>3, Zenon DEF ChainCounted
      <4> QED BY <4>1, Zenon DEF ChainCounted
    <3> QED BY <3>4, <3>6, <3>7, Zenon DEF BansInv
<1> QED
  BY <1>1, <1>2, <1>3, <1>4, Zenon DEF BansNext

\* For as long as a lift is remembered no node that lifted a ban enforces one that
\* is not younger, whatever Redis serves and in whatever order it takes the
\* commands of the fleet (RedisBanLedger.Check, Lift, GC).
THEOREM LiftsHold == BansSpec => []NoResurrection
<1>1. BansInv => NoResurrection
  <2> SUFFICES ASSUME BansInv, NEW n \in BanNodes, NEW reached \in BOOLEAN,
                      Check(n, reached) # NoBan, bansLifted[n] # Never,
                      bansNow - bansLifted[n] <= LiftEpochTTL, Check(n, reached).created <= bansLifted[n]
               PROVE  Check(n, reached).by = n /\ Check(n, reached) = bansLocal[n]
    BY Zenon DEF NoResurrection
  <2>1. bansLift[n] = bansLifted[n] /\ bansLifted[n] \in Int
    BY Zenon DEF BansInv, LiftKept, BanTypes
  <2>2. Check(n, reached) = LocalCheck(n)
    BY <2>1, Zenon DEF Check
  <2> QED
    BY <2>2, Zenon DEF LocalCheck, BansInv, MirrorOwn
<1> QED
  BY BansInitInv, BansNextInv, <1>1, PTL DEF BansSpec

\* Between two quiet spells a node gives a key at most three temporary bans, also
\* when the breach is judged by an older clock than the sweep's (Observe, GC).
THEOREM LadderBounded == BansSpec => []LadderEnds
<1>1. BansInv => LadderEnds
  BY Zenon DEF BansInv, LadderEnds, ChainCounted
<1> QED
  BY BansInitInv, BansNextInv, <1>1, PTL DEF BansSpec

-----------------------------------------------------------------------------
(***************************************************************************)
(* The pipeline: what reaches the origin earned it.                        *)
(***************************************************************************)
\* A policy as ResolveConfig returns it.
GpRoutes ==
  {r \in [name : PresetNames, inject : BOOLEAN, enforce : BOOLEAN, failClosed : BOOLEAN, syncScore : BOOLEAN,
          attestFloor : BOOLEAN] : r.syncScore = r.failClosed}

\* Enforced on all of its way so far: the route enforces, and nobody suppressed it.
Enforced == gpRoute.enforce /\ gpSuppressed = {FALSE}

GpTypeOK ==
  /\ gpMonitor \in BOOLEAN /\ gpKill \in BOOLEAN /\ gpRoute \in GpRoutes
  /\ MonitorOn \in gpSuppressed

\* What the gates before the verdict have learnt: nothing up to the upgrade gate,
\* and of an enforced request that reaches the verdict, no upgrade without a token.
Unlearnt == {"control", "body", "ban", "smuggle", "spoof", "route", "agent", "pat", "webauthn", "token", "upgrade"}
LearntInv ==
  /\ gpPc \in Unlearnt => gpSeen = {}
  /\ gpPc \in {"sweep", "verdict"} =>
       /\ gpSeen \subseteq {"upgrade", "token"}
       /\ Enforced /\ "upgrade" \in gpSeen => "token" \in gpSeen

GpInv ==
  /\ GpTypeOK /\ LearntInv
  /\ gpOut = "origin" => gpPc \in {"upstream", "done"}
  /\ gpPc = "pass" /\ Enforced => Earned
  /\ OriginEarned

LEMMA GpPresets == \A n : PresetByName(n) \in GpRoutes
<1>1. ASSUME NEW x \in PresetNames, NEW i \in BOOLEAN, NEW e \in BOOLEAN, NEW f \in BOOLEAN, NEW a \in BOOLEAN
      PROVE  [name |-> x, inject |-> i, enforce |-> e, failClosed |-> f, syncScore |-> f, attestFloor |-> a] \in GpRoutes
  BY Zenon DEF GpRoutes
<1>2. ASSUME NEW x \in PresetNames PROVE Preset(x) \in GpRoutes
  <2> DEFINE i == x # "off"
             e == x \notin {"monitor", "off"}
             f == x \in {"strict", "attested"}
             a == x = "attested"
  <2>1. i \in BOOLEAN /\ e \in BOOLEAN /\ f \in BOOLEAN /\ a \in BOOLEAN
    OBVIOUS
  <2>2. Preset(x) = [name |-> x, inject |-> i, enforce |-> e, failClosed |-> f, syncScore |-> f, attestFloor |-> a]
    BY Zenon DEF Preset
  <2> HIDE DEF i, e, f, a
  <2> QED BY <1>1, <2>1, <2>2, SMT
<1> QED BY <1>2, ZenonT(40) DEF PresetByName, PresetNames

LEMMA GpResolved ==
  ASSUME NEW p, NEW m \in BOOLEAN, NEW r \in ResolveConfig(p, m)
  PROVE  r \in GpRoutes
<1>1. PICK n : r = [PresetByName(n) EXCEPT !.enforce = @ /\ ~m]
  BY DEF ResolveConfig
<1>2. PresetByName(n) \in GpRoutes
  BY GpPresets, Zenon
<1> QED BY <1>1, <1>2, Zenon DEF GpRoutes

LEMMA GpInitially == PipelineInit => GpInv
<1>1. NoRoute \in GpRoutes
  BY GpPresets, Zenon DEF NoRoute
<1> QED BY <1>1, Zenon DEF PipelineInit, GpInv, GpTypeOK, LearntInv, Unlearnt, OriginEarned, MonitorOn

\* While the switches and the route stay, so does whether a request is enforced.
LEMMA GpSameRest ==
  ASSUME UNCHANGED gpRest
  PROVE  /\ Enforced' = Enforced /\ Enforcing' = Enforcing /\ (GpTypeOK => GpTypeOK')
         /\ gpRoute' = gpRoute
  BY Zenon DEF gpRest, Enforced, Enforcing, MonitorOn, GpTypeOK

LEMMA GpEnforcing ==
  ASSUME GpTypeOK, Enforced
  PROVE  Enforcing
  BY Zenon DEF GpTypeOK, GpRoutes, Enforced, Enforcing, MonitorOn

\* Decide, with the choices it makes.
Decides(v, unsafe, stepUp, floorMode) ==
  LET asked == Action(v, unsafe)
      floor == Enforcing /\ gpRoute.attestFloor /\ asked = "pass" /\ ~stepUp
      held == floor /\ floorMode = "enforce"
  IN  /\ gpPc' = IF held THEN "challenge_pow" ELSE asked
      /\ gpSeen' = gpSeen \cup ({v} \cup (IF unsafe THEN {"unsafe"} ELSE {})
                                   \cup (IF stepUp THEN {"step_up"} ELSE {})
                                   \cup (IF floor /\ ~held THEN {"floor_lowered"} ELSE {}))

\* A verdict that is decided is one that Decides describes.
LEMMA Decided ==
  ASSUME Decide
  PROVE  \E v \in StickyVerdicts, unsafe \in BOOLEAN, stepUp \in BOOLEAN, floorMode \in Modes :
           Decides(v, unsafe, stepUp, floorMode)
BY SMTT(30) DEF Decide, Decides, Learns

LEMMA GpStep == GpInv /\ [PipelineNext]_gpVars => GpInv'
<1> SUFFICES ASSUME GpInv, [PipelineNext]_gpVars
             PROVE  GpInv'
  BY Zenon
<1> USE DEF GpInv, LearntInv, Unlearnt, OriginEarned, Falls, Answers
<1>0. gpRoute.enforce \in BOOLEAN /\ gpRoute.failClosed \in BOOLEAN /\ gpRoute.attestFloor \in BOOLEAN
      /\ gpRoute.syncScore = gpRoute.failClosed
  BY Zenon DEF GpTypeOK, GpRoutes
<1>1. CASE SetKillSwitch
  BY <1>1, Zenon DEF SetKillSwitch, GpTypeOK, MonitorOn, Enforced
<1>2. CASE RouteControlPlane
  BY <1>2, GpSameRest, Zenon DEF RouteControlPlane, Enforced
<1>3. CASE CapBody
  BY <1>3, GpSameRest, Zenon DEF CapBody, Enforced
<1>4. CASE BanGate
  BY <1>4, GpSameRest, ZenonT(30) DEF BanGate, Enforced
<1>5. CASE SmuggleGate
  BY <1>5, GpSameRest, Zenon DEF SmuggleGate, DeniesIf, Enforced
<1>6. CASE SpoofHeaderGate
  BY <1>6, GpSameRest, Zenon DEF SpoofHeaderGate, DeniesIf, Enforced
<1>7. CASE Route
  <2>1. gpRoute' \in GpRoutes
    BY <1>7, GpResolved, Zenon DEF Route, ResolvePath, GpTypeOK
  <2> QED BY <1>7, <2>1, Zenon DEF Route, GpTypeOK, MonitorOn, Enforced
<1>8. CASE AgentAuthGate
  BY <1>8, GpSameRest, Zenon DEF AgentAuthGate, TrustUpgrade, Learns, Earned, Enforced
<1>9. CASE PatGate
  BY <1>9, GpSameRest, Zenon DEF PatGate, TrustUpgrade, Learns, Earned, Enforced
<1>10. CASE WebauthnGate
  BY <1>10, GpSameRest, Zenon DEF WebauthnGate, TrustUpgrade, Learns, Earned, Enforced
<1>11. CASE VerdictTokenGate
  <2>1. /\ gpPc = "token" /\ UNCHANGED gpRest
        /\ \/ UNCHANGED <<gpSeen, gpOut>> /\ gpPc' = "upgrade"
           \/ /\ gpPc' = "upstream" /\ "fast_path" \in gpSeen'
              /\ gpRoute.attestFloor => gpSeen' \cap {"step_up", "floor_lowered"} # {}
    BY <1>11 DEF VerdictTokenGate, Learns
  <2> QED BY <2>1, GpSameRest, Zenon DEF Earned, Enforced
<1>12. CASE UpgradeGate
  BY <1>12, GpSameRest, GpEnforcing, Zenon DEF UpgradeGate, Learns, Enforced
<1>13. CASE SweepGate
  BY <1>13, GpSameRest, Zenon DEF SweepGate, Enforced
<1>14. CASE Decide
  <2>1. PICK v \in StickyVerdicts, unsafe \in BOOLEAN, stepUp \in BOOLEAN, floorMode \in Modes :
          Decides(v, unsafe, stepUp, floorMode)
    BY <1>14, Decided, Zenon
  <2> DEFINE asked == Action(v, unsafe)
             floor == Enforcing /\ gpRoute.attestFloor /\ asked = "pass" /\ ~stepUp
  <2>2. asked \in Decisions /\ (asked = "pass" => v = "ALLOW" \/ (v = "UNKNOWN" /\ ~gpRoute.failClosed /\ ~unsafe))
    BY <1>0, Zenon DEF Action, StickyVerdicts, Decisions
  <2>3. gpPc = "verdict" /\ gpOut' = gpOut /\ gpPc' \in Decisions /\ (gpPc' = "pass" => asked = "pass")
    BY <1>14, <2>1, <2>2, Zenon DEF Decide, Decides, Decisions
  <2>4. UNCHANGED gpRest
    BY <1>14, Zenon DEF Decide
  <2>5. ASSUME gpPc' = "pass", Enforced PROVE Earned'
    <3>1. Enforcing
      BY <2>5, GpEnforcing, Zenon
    <3>2. gpSeen' = gpSeen \cup {v} \cup (IF unsafe THEN {"unsafe"} ELSE {}) \cup (IF stepUp THEN {"step_up"} ELSE {})
                     \cup (IF floor THEN {"floor_lowered"} ELSE {})
      BY <2>1, <2>2, <2>5, Zenon DEF Decides, Decisions
    <3>3. gpSeen \subseteq {"upgrade", "token"} /\ ("upgrade" \in gpSeen => "token" \in gpSeen)
      BY <2>3, <2>5, Zenon
    <3>4. v \in gpSeen' /\ ("unsafe" \in gpSeen' => unsafe) /\ ("upgrade" \in gpSeen' => "token" \in gpSeen')
      BY <3>2, <3>3, Zenon DEF StickyVerdicts
    <3>5. gpRoute.attestFloor => gpSeen' \cap {"step_up", "floor_lowered"} # {}
      BY <2>2, <2>3, <2>5, <3>1, <3>2, Zenon
    <3> QED BY <2>2, <2>3, <2>4, <2>5, <3>4, <3>5, GpSameRest, Zenon DEF Earned
  <2> QED BY <2>3, <2>4, <2>5, GpSameRest, ZenonT(30) DEF Decisions, Enforced
<1>15. CASE Act
  <2>1. CASE Enforced
    BY <1>15, <2>1, GpSameRest, GpEnforcing, Zenon DEF Act, Decisions, Enforced, Earned
  <2>2. CASE ~Enforced
    BY <1>15, <2>2, GpSameRest, Zenon DEF Act, Decisions, Enforced
  <2> QED BY <2>1, <2>2, Zenon
<1>16. CASE HandleUpstreamError
  BY <1>16, GpSameRest, ZenonT(60) DEF HandleUpstreamError, Enforced, Earned
<1>17. CASE ModifyResponse
  BY <1>17, GpSameRest, Zenon DEF ModifyResponse, Learns, Enforced, Earned
<1>18. CASE UNCHANGED gpVars
  BY <1>18, ZenonT(30) DEF gpVars, GpTypeOK, MonitorOn, Enforced, Earned
<1> QED
  BY <1>1, <1>2, <1>3, <1>4, <1>5, <1>6, <1>7, <1>8, <1>9, <1>10, <1>11, <1>12, <1>13, <1>14, <1>15, <1>16, <1>17,
     <1>18, ZenonT(30) DEF PipelineNext

\* Whatever routes, presets, gate modes, credentials and verdicts there are, and
\* however often operators flip the kill switch in between, a request that reaches
\* the origin of an enforcing route unsuppressed earned it.
THEOREM OriginEarnedAlways == PipelineSpec => []OriginEarned
<1>1. GpInv => OriginEarned
  BY ZenonT(30) DEF GpInv
<1> QED BY <1>1, GpInitially, GpStep, PTL DEF PipelineSpec

-----------------------------------------------------------------------------
(***************************************************************************)
(* The control plane: a score beside its own evidence.                     *)
(***************************************************************************)
CpReports == [client : CpClients \cup {NoReport}, net : CpNets \cup {NoReport}, residuals : SUBSET CpResiduals,
              score : {"none"} \cup {CpVerdict[x] : x \in (CpClients \cup {NoReport}) \X (CpNets \cup {NoReport}) \X CpEngines}]

\* What a beacon in progress holds: its own observation, then the settings it
\* configures the engine from, then a snapshot of the session and what it has read
\* of the engine, then the snapshot with its score.
CpMerging == [pc : {"network", "client", "configure"}, client : CpClients, net : CpNets, residuals : SUBSET CpResiduals]
CpAssigning == [pc : {"assign"}, eff : CpPolicies, todo : SUBSET CpFields]
CpScoring == [pc : {"score"}, rep : CpReports, engine : CpEngines, todo : SUBSET CpFields]
CpScored == [pc : {"store", "sticky", "answer"}, rep : {r \in CpReports : r.score \in ScoreOf(r)}]

CpTypeOK ==
  /\ cpRep \in CpReports /\ cpPolicy \in CpPolicies /\ cpEngine \in CpEngines
  /\ cpReq \in [CpHandlers -> {CpIdle} \cup CpMerging \cup CpAssigning \cup CpScoring \cup CpScored]
  /\ cpBeacons \in Nat

\* A beacon that will still store the session's report, and one that will still
\* set the sticky verdict.
StoresLater(h) == cpReq[h].pc \in {"network", "client", "configure", "assign", "score", "store"}
SticksLater(h) == StoresLater(h) \/ cpReq[h].pc = "sticky"

\* The report belongs to its score unless a beacon is about to store it anew; the
\* sticky verdict is audited unless the beacon that set it, or one that will set
\* it, is still in progress.
CpInv ==
  /\ CpTypeOK
  /\ cpBeacons = 0 \/ cpRep.score \in ScoreOf(cpRep) \/ \E h \in CpHandlers : StoresLater(h)
  /\ \/ cpBeacons = 0
     \/ \E a \in cpAudit : a.verdict = cpSticky
     \/ \E h \in CpHandlers : SticksLater(h) \/ (CpAt(h, "answer") /\ cpReq[h].rep.score = cpSticky)
  /\ \A t \in cpTokens : t.score = "ALLOW" /\ t.score \in ScoreOf(t)

\* The step of a beacon tells what it holds.
LEMMA CpKinds ==
  ASSUME NEW q \in {CpIdle} \cup CpMerging \cup CpAssigning \cup CpScoring \cup CpScored
  PROVE  /\ q.pc \in {"network", "client", "configure"} => q \in CpMerging
         /\ q.pc = "assign" => q \in CpAssigning
         /\ q.pc = "score" => q \in CpScoring
         /\ q.pc \in {"store", "sticky", "answer"} => q \in CpScored
<1>1. CASE q = CpIdle
  <2>1. q.pc = "idle"
    BY <1>1, Zenon DEF CpIdle
  <2> QED BY <2>1
<1>2. CASE q \in CpMerging
  <2>1. q.pc \in {"network", "client", "configure"}
    BY <1>2, Zenon DEF CpMerging
  <2> QED BY <1>2, <2>1
<1>3. CASE q \in CpScoring
  <2>1. q.pc = "score"
    BY <1>3, Zenon DEF CpScoring
  <2> QED BY <1>3, <2>1
<1>4. CASE q \in CpScored
  <2>1. q.pc \in {"store", "sticky", "answer"}
    BY <1>4, Zenon DEF CpScored
  <2> QED BY <1>4, <2>1
<1>5. CASE q \in CpAssigning
  <2>1. q.pc = "assign"
    BY <1>5, Zenon DEF CpAssigning
  <2> QED BY <1>5, <2>1
<1> QED BY <1>1, <1>2, <1>3, <1>4, <1>5, Zenon

LEMMA CpInitially == ControlInit => CpInv
<1> SUFFICES ASSUME ControlInit PROVE CpInv
  BY Zenon
<1>1. cpRep \in CpReports
  BY Zenon DEF ControlInit, CpReports
<1>2. cpBeacons = 0 /\ cpBeacons \in Nat /\ cpTokens = {}
  BY DEF ControlInit
<1>3. CpTypeOK
  BY <1>1, <1>2, Zenon DEF ControlInit, CpTypeOK
<1> QED BY <1>2, <1>3, Zenon DEF CpInv

LEMMA CpStep == CpInv /\ [ControlNext]_cpVars => CpInv'
<1> SUFFICES ASSUME CpInv, [ControlNext]_cpVars
             PROVE  CpInv'
  BY Zenon
<1> USE DEF CpInv, CpTypeOK, CpAt, CpGoto, CpMoves, StoresLater, SticksLater
<1>1. ASSUME NEW h \in CpHandlers, handleCollect(h) PROVE CpInv'
  <2>1. PICK c \in CpClients, n \in CpNets, rs \in SUBSET CpResiduals :
           cpReq' = [cpReq EXCEPT ![h] = [pc |-> "network", client |-> c, net |-> n, residuals |-> rs]]
    BY <1>1, Zenon DEF handleCollect
  <2>2. cpBeacons' \in Nat
    <3>1. cpBeacons \in Nat /\ cpBeacons' = cpBeacons + 1
      BY <1>1, Zenon DEF handleCollect
    <3> QED BY ONLY <3>1
  <2>3. [pc |-> "network", client |-> c, net |-> n, residuals |-> rs] \in CpMerging
    BY Zenon DEF CpMerging
  <2> QED BY <1>1, <2>1, <2>2, <2>3, Zenon DEF handleCollect, ScoreOf
<1>2. ASSUME NEW h \in CpHandlers, MergesNetwork(h) PROVE CpInv'
  <2>1. cpReq[h] \in CpMerging /\ cpReq' = [cpReq EXCEPT ![h] = [cpReq[h] EXCEPT !.pc = "client"]]
    BY <1>2, CpKinds, Zenon DEF MergesNetwork
  <2>2. cpReq'[h] \in CpMerging /\ cpReq'[h].pc = "client"
    BY <2>1, Zenon DEF CpMerging
  <2>3. cpRep' \in CpReports
    BY <1>2, <2>1, Zenon DEF MergesNetwork, CpMerging, CpReports
  <2> QED BY <1>2, <2>1, <2>2, <2>3, Zenon DEF MergesNetwork
<1>3. ASSUME NEW h \in CpHandlers, MergesClient(h) PROVE CpInv'
  <2>1. cpReq[h] \in CpMerging /\ cpReq' = [cpReq EXCEPT ![h] = [cpReq[h] EXCEPT !.pc = "configure"]]
    BY <1>3, CpKinds, Zenon DEF MergesClient
  <2>2. cpReq'[h] \in CpMerging /\ cpReq'[h].pc = "configure"
    BY <2>1, Zenon DEF CpMerging
  <2>3. cpRep' \in CpReports
    BY <1>3, <2>1, Zenon DEF MergesClient, CpMerging, CpReports
  <2> QED BY <1>3, <2>1, <2>2, <2>3, Zenon DEF MergesClient
<1>4. ASSUME NEW h \in CpHandlers, ConfigureEngineFromEffective(h) PROVE CpInv'
  <2>1. [pc |-> "assign", eff |-> cpPolicy, todo |-> CpFields] \in CpAssigning
    BY Zenon DEF CpAssigning
  <2> QED BY <1>4, <2>1, Zenon DEF ConfigureEngineFromEffective
<1>5. ASSUME NEW h \in CpHandlers, ConfigureFull(h) PROVE CpInv'
  <2>1. PICK f \in cpReq[h].todo :
           /\ cpEngine' = [cpEngine EXCEPT ![f] = cpReq[h].eff]
           /\ cpReq' = [cpReq EXCEPT ![h] = [cpReq[h] EXCEPT !.todo = @ \ {f}]]
    BY <1>5, Zenon DEF ConfigureFull
  <2>2. cpReq[h] \in CpAssigning
    BY <1>5, CpKinds, Zenon DEF ConfigureFull
  <2>3. cpEngine' \in CpEngines
    BY <2>1, <2>2, Zenon DEF CpAssigning, CpEngines
  <2>4. cpReq'[h] \in CpAssigning /\ cpReq'[h].pc = "assign"
    BY <2>1, <2>2, Zenon DEF CpAssigning
  <2> QED BY <1>5, <2>1, <2>3, <2>4, Zenon DEF ConfigureFull
<1>6. ASSUME NEW h \in CpHandlers, GetsReport(h) PROVE CpInv'
  <2>1. [pc |-> "score", rep |-> cpRep, engine |-> cpEngine, todo |-> CpFields] \in CpScoring
    BY Zenon DEF CpScoring
  <2> QED BY <1>6, <2>1, Zenon DEF GetsReport
<1>7. ASSUME NEW h \in CpHandlers, ReadsEngine(h) PROVE CpInv'
  <2>1. PICK f \in cpReq[h].todo :
           cpReq' = [cpReq EXCEPT ![h] = [cpReq[h] EXCEPT !.engine = [@ EXCEPT ![f] = cpEngine[f]], !.todo = @ \ {f}]]
    BY <1>7, Zenon DEF ReadsEngine
  <2>2. cpReq[h] \in CpScoring
    BY <1>7, CpKinds, Zenon DEF ReadsEngine
  <2>3. f \in CpFields /\ cpEngine[f] \in CpPolicies
    BY <2>1, <2>2, Zenon DEF CpScoring, CpEngines
  <2>4. [cpReq[h].engine EXCEPT ![f] = cpEngine[f]] \in CpEngines
    BY <2>2, <2>3, Zenon DEF CpScoring, CpEngines
  <2>5. cpReq'[h] \in CpScoring /\ cpReq'[h].pc = "score"
    BY <2>1, <2>2, <2>4, Zenon DEF CpScoring
  <2> QED BY <1>7, <2>1, <2>5, Zenon DEF ReadsEngine
<1>8. ASSUME NEW h \in CpHandlers, ScoresReport(h) PROVE CpInv'
  <2> DEFINE r == cpReq[h].rep
             scored == [r EXCEPT !.score = CpVerdict[<<r.client, r.net, cpReq[h].engine>>]]
  <2>1. r \in CpReports /\ cpReq[h].engine \in CpEngines
    <3>1. cpReq[h] \in CpScoring
      BY <1>8, CpKinds, Zenon DEF ScoresReport
    <3> QED BY <3>1, Zenon DEF CpScoring
  <2>2. scored \in CpReports /\ scored.score \in ScoreOf(scored)
    BY <2>1, Zenon DEF CpReports, ScoreOf
  <2>3. [pc |-> "store", rep |-> scored] \in CpScored
    BY <2>2, Zenon DEF CpScored
  <2>4. cpReq' = [cpReq EXCEPT ![h] = [pc |-> "store", rep |-> scored]]
    BY <1>8, Zenon DEF ScoresReport
  <2> HIDE DEF scored
  <2>5. cpReq'[h].pc = "store"
    BY <2>4, Zenon
  <2>6. CpTypeOK'
    BY <1>8, <2>3, <2>4, Zenon DEF ScoresReport
  <2> QED BY <1>8, <2>5, <2>6, Zenon DEF ScoresReport, ScoreOf
<1>9. ASSUME NEW h \in CpHandlers, StoresReport(h) PROVE CpInv'
  <2>1. cpReq[h] \in CpScored /\ cpReq' = [cpReq EXCEPT ![h] = [cpReq[h] EXCEPT !.pc = "sticky"]]
    BY <1>9, CpKinds, Zenon DEF StoresReport
  <2>2. cpReq'[h] \in CpScored /\ cpReq'[h].pc = "sticky"
    BY <2>1, Zenon DEF CpScored
  <2>3. cpRep' \in CpReports /\ cpRep'.score \in ScoreOf(cpRep')
    BY <1>9, <2>1, Zenon DEF StoresReport, StoreScored, CpScored
  <2>4. ScoreOf(cpRep)' = ScoreOf(cpRep')
    BY Zenon DEF ScoreOf
  <2> QED BY <1>9, <2>1, <2>2, <2>3, <2>4, Zenon DEF StoresReport
<1>10. ASSUME NEW h \in CpHandlers, updateStickyVerdict(h) PROVE CpInv'
  <2>1. cpReq[h] \in CpScored /\ cpReq' = [cpReq EXCEPT ![h] = [cpReq[h] EXCEPT !.pc = "answer"]]
    BY <1>10, CpKinds, Zenon DEF updateStickyVerdict
  <2>2. cpReq'[h] \in CpScored /\ cpReq'[h].pc = "answer" /\ cpReq'[h].rep = cpReq[h].rep
    BY <2>1, Zenon DEF CpScored
  <2> QED BY <1>10, <2>1, <2>2, Zenon DEF updateStickyVerdict
<1>11. ASSUME NEW h \in CpHandlers, AnswersBeacon(h) PROVE CpInv'
  <2>1. cpReq[h] \in CpScored
    BY <1>11, CpKinds, Zenon DEF AnswersBeacon
  <2>2. cpReq[h].rep.score \in ScoreOf(cpReq[h].rep)
    BY <2>1, Zenon DEF CpScored
  <2>3. \E a \in cpAudit' : a.verdict = cpReq[h].rep.score
    <3> DEFINE a == [verdict |-> cpReq[h].rep.score, residuals |-> cpRep.residuals]
    <3>1. a \in cpAudit' /\ a.verdict = cpReq[h].rep.score
      BY <1>11, Zenon DEF AnswersBeacon
    <3> QED BY <3>1, Zenon
  <2>4. cpAudit \subseteq cpAudit' /\ cpReq' = [cpReq EXCEPT ![h] = CpIdle] /\ cpReq[h].pc = "answer"
    BY <1>11, Zenon DEF AnswersBeacon
  <2>5. (\A t \in cpTokens : t.score = "ALLOW" /\ t.score \in ScoreOf(t))'
    BY <1>11, <2>2, Zenon DEF AnswersBeacon, ScoreOf
  <2>6. CpTypeOK'
    BY <1>11, <2>4, Zenon DEF AnswersBeacon
  <2>7. cpRep' = cpRep /\ cpSticky' = cpSticky /\ cpBeacons' = cpBeacons /\ ScoreOf(cpRep)' = ScoreOf(cpRep)
    BY <1>11, Zenon DEF AnswersBeacon, ScoreOf
  <2>8. \A g \in CpHandlers : g # h => cpReq'[g] = cpReq[g]
    BY <2>4, Zenon
  <2>9. (cpBeacons = 0 \/ cpRep.score \in ScoreOf(cpRep) \/ \E g \in CpHandlers : StoresLater(g))'
    BY <2>4, <2>7, <2>8, Zenon
  <2>10. (\/ cpBeacons = 0
          \/ \E a \in cpAudit : a.verdict = cpSticky
          \/ \E g \in CpHandlers : SticksLater(g) \/ (CpAt(g, "answer") /\ cpReq[g].rep.score = cpSticky))'
    BY <2>3, <2>4, <2>7, <2>8, ZenonT(30)
  <2> QED BY <2>5, <2>6, <2>9, <2>10, ZenonT(30)
<1>12. CASE PolicyChanges
  BY <1>12, Zenon DEF PolicyChanges, ScoreOf
<1>13. CASE UNCHANGED cpVars
  BY <1>13, ZenonT(40) DEF cpVars, ScoreOf
<1> QED
  BY <1>1, <1>2, <1>3, <1>4, <1>5, <1>6, <1>7, <1>8, <1>9, <1>10, <1>11, <1>12, <1>13,
     ZenonT(70) DEF ControlNext

\* However the beacons of one session overlap on however many handlers, a stored
\* score stands beside the evidence it was computed from, tokens are minted only
\* for such a report with ALLOW, and the sticky verdict is one that was audited.
THEOREM ScoresBelongAlways == ControlSpec => []ScoresBelong
<1>1. CpInv => ScoresBelong
  <2>1. cpBeacons > 0 => cpBeacons # 0
    OBVIOUS
  <2> QED BY <2>1, Zenon DEF CpInv, ScoresBelong, StoresLater, SticksLater, CpAt
<1> QED BY <1>1, CpInitially, CpStep, PTL DEF ControlSpec

-----------------------------------------------------------------------------
(***************************************************************************)
(* The admin plane, for any operators, roles, boot configurations and      *)
(* lifetimes, and any number of racing handlers, failed writes and         *)
(* restarts: two persons agreed to what is in force.                       *)
(***************************************************************************)
\* The class that a version gives to a body: what Classify says in the posture it names.
Judged(parent, body) == Classify(Resolve(adBoot, parent.kill, parent.overlay.body), body)

\* The records that overlays and handlers are.
Overlay(ov) ==
  ov = [id |-> ov.id, class |-> ov.class, body |-> ov.body, createdBy |-> ov.createdBy,
        approvedBy |-> ov.approvedBy, created |-> ov.created, expiresAt |-> ov.expiresAt]
Handler(h) == h = [kind |-> h.kind, step |-> h.step, ov |-> h.ov, parent |-> h.parent]

\* Two persons agreed to every demotion of a body, at some time.
Agreed(body) ==
  \A id \in Demoted(body) : \E a \in adAgreed : a.id = id /\ TwoPersons(a.by[1], a.by[2])

\* An overlay classed as a loosening has its two persons and its end.
OverlayGoverned(ov) == ov.class # "A" => TwoPersons(ov.createdBy, ov.approvedBy) /\ Ends(ov)

\* What is, or may come to be, in force.
Lawful(ov) == OverlayGoverned(ov) /\ (Weakens(ov.body) => ov.class # "A") /\ Agreed(ov.body)

\* Asked for by somebody who may, classed by its parent, and ended in time.
Requested(ov, parent) ==
  /\ Overlay(ov)
  /\ ov.class = Judged(parent, ov.body)
  /\ ov.class # "A" => ov.createdBy \in Principals /\ CanOperate(ov.createdBy) /\ Ends(ov)

PendingSound ==
  \A p \in adPending :
    /\ p.kind \in {"killswitch", "settings.overlay", "settings.overlay.rollback"}
    /\ p.requester \in Principals /\ CanOperate(p.requester)
    /\ p.kind = "settings.overlay" =>
         /\ Requested(p.what.ov, p.what.parent)
         /\ p.what.ov.class # "A" /\ p.what.ov.createdBy = p.requester

\* A tightening need not be agreed to before its check has compared the parent.
HandlerSound(h) ==
  /\ Handler(h) /\ h.kind \in {"propose", "apply", "clear"}
  /\ h.kind # "clear" => Requested(h.ov, h.parent)
  /\ h.kind = "apply" => OverlayGoverned(h.ov) /\ (h.ov.class # "A" \/ h.step # "check" => Agreed(h.ov.body))
  /\ h.kind = "clear" => h.ov = NoOverlay
  /\ h.kind = "propose" => h.step = "switch"

FlightSound == \A h \in adFlight : HandlerSound(h)

AdminInv ==
  /\ adNow \in Nat \ {0}
  /\ Lawful(adActive) /\ Lawful(adFile) /\ Lawful(adLkg)
  /\ PendingSound /\ FlightSound
  /\ adKill => TwoPersons(adKillBy[1], adKillBy[2])

LEMMA Unset == Lawful(NoOverlay) /\ Lawful(TornFile)
<1>1. /\ NoOverlay.class = "A" /\ TornFile.class = "A" /\ NoOverlay.body = EmptyBody /\ TornFile.body = EmptyBody
  BY Zenon DEF NoOverlay, TornFile
<1>2. Demoted(EmptyBody) = {} /\ ~Weakens(EmptyBody)
  BY DEF Demoted, Weakens, EmptyBody, NoMap
<1> QED
  BY <1>1, <1>2, Zenon DEF Lawful, OverlayGoverned, Agreed

\* Agreements are kept, so what was lawful stays so.
LEMMA AgreedKept ==
  ASSUME adAgreed \subseteq adAgreed', NEW body, Agreed(body) PROVE Agreed(body)'
  BY Zenon DEF Agreed

LEMMA LawfulKept ==
  ASSUME adAgreed \subseteq adAgreed', NEW ov, Lawful(ov) PROVE Lawful(ov)'
  BY AgreedKept, Zenon DEF Lawful, OverlayGoverned, Ends, Weakens

LEMMA HandlerKept ==
  ASSUME adAgreed \subseteq adAgreed', UNCHANGED adBoot, NEW h, HandlerSound(h) PROVE HandlerSound(h)'
<1>1. ASSUME h.kind # "clear" PROVE Requested(h.ov, h.parent)'
  BY <1>1, Zenon DEF HandlerSound, Requested, Judged, Ends
<1>2. ASSUME Agreed(h.ov.body) PROVE Agreed(h.ov.body)'
  BY <1>2, AgreedKept, Zenon
<1> QED
  BY <1>1, <1>2, Zenon DEF HandlerSound, OverlayGoverned, Ends

\* A version names its posture's kill switch and its overlay's body.
LEMMA VersionNames ==
  ASSUME NEW ov PROVE Version(ov).kill = adKill /\ Version(ov).overlay.body = ov.body
  BY Zenon DEF Version, Effective, HashConfigVersion, Resolve, CanonicalJSON

LEMMA VersionJudges ==
  ASSUME NEW body PROVE Judged(Version(adActive), body) = Classify(Effective(adActive), body)
  BY VersionNames, Zenon DEF Judged, Effective

\* What is weaker than the defaults is no tightening of any posture.
LEMMA WeakIsLoose ==
  ASSUME NEW eff, NEW body, Weakens(body) PROVE Classify(eff, body) # "A"
<1>1. RaisesB(eff, body)
  BY Zenon DEF Weakens, RaisesB
<1> QED
  BY <1>1 DEF Classify

\* A tightening demotes nothing that the overlay in force does not.
LEMMA TighteningDemotes ==
  ASSUME NEW body, Classify(Effective(adActive), body) = "A"
  PROVE  Demoted(body) \subseteq Demoted(adActive.body)
<1> DEFINE eff == Effective(adActive)
<1>1. ~RaisesB(eff, body)
  BY DEF Classify
<1>2. eff.hardRules = adActive.body.hardRules
  BY Zenon DEF Effective, Resolve
<1>3. eff.gates = Laid(adActive.body.gates, [g \in KnownGates |-> "enforce"])
  BY Zenon DEF Effective, Resolve
<1>4. ASSUME NEW id \in DOMAIN body.hardRules, body.hardRules[id] # "enforce" PROVE id \in Demoted(adActive.body)
  <2>1. HRMode(eff, id) # "enforce"
    BY <1>1, <1>4, Zenon DEF RaisesB, Demotes
  <2> HIDE DEF eff
  <2> QED
    BY <1>2, <2>1, Zenon DEF HRMode, Demoted
<1>5. ASSUME NEW g \in DOMAIN body.gates, body.gates[g] # "enforce" PROVE g \in Demoted(adActive.body)
  <2>1. GateMode(eff, g) # "enforce"
    BY <1>1, <1>5, Zenon DEF RaisesB, Demotes
  <2> HIDE DEF eff
  <2>2. g \in DOMAIN eff.gates /\ eff.gates[g] # "enforce"
    BY <2>1, Zenon DEF GateMode
  <2>3. g \in DOMAIN adActive.body.gates /\ adActive.body.gates[g] # "enforce"
    BY <1>3, <2>2, Zenon DEF Laid
  <2> QED
    BY <2>3, Zenon DEF Demoted
<1> QED
  BY <1>4, <1>5, Zenon DEF Demoted

LEMMA SecondPerson ==
  ASSUME NEW p, NEW op \in Principals, p.requester \in Principals, CanOperate(p.requester),
         Approvable(p, op, adNow)
  PROVE  TwoPersons(p.requester, op)
  BY Zenon DEF Approvable, HasRole, TwoPersons, CanApprove

LEMMA OverlayShape ==
  ASSUME NEW ov, Overlay(ov), NEW who
  PROVE  LET a == [ov EXCEPT !.approvedBy = who]
         IN  /\ Overlay(a) /\ a.class = ov.class /\ a.body = ov.body /\ a.createdBy = ov.createdBy
             /\ a.created = ov.created /\ a.expiresAt = ov.expiresAt /\ a.approvedBy = who
  BY DEF Overlay

LEMMA SameClass ==
  ASSUME NEW ov, Overlay(ov) PROVE [ov EXCEPT !.class = ov.class] = ov
  BY Zenon DEF Overlay

LEMMA HandlerShape ==
  ASSUME NEW h, Handler(h), NEW step
  PROVE  LET s == [h EXCEPT !.step = step]
         IN  Handler(s) /\ s.kind = h.kind /\ s.ov = h.ov /\ s.parent = h.parent /\ s.step = step
  BY DEF Handler

Rechecked(h, class) == [h EXCEPT !.step = "store", !.ov.class = class]

LEMMA RecheckShape ==
  ASSUME NEW h, Handler(h), NEW class
  PROVE  /\ Handler(Rechecked(h, class)) /\ Rechecked(h, class).parent = h.parent
         /\ Rechecked(h, class).kind = h.kind
         /\ Rechecked(h, class).ov = [h.ov EXCEPT !.class = class]
<1> DEFINE s == [h EXCEPT !.step = "store"]
           c == [h EXCEPT !.step = "store", !.ov.class = class]
<1>1. c.parent = h.parent /\ c.kind = h.kind /\ c.ov = [h.ov EXCEPT !.class = class]
  BY Zenon DEF Handler
<1>2. Handler(s)
  BY DEF Handler
<1>3. c = [s EXCEPT !.ov.class = class]
  BY Zenon
<1>4. Rechecked(h, class) = c
  BY Zenon DEF Rechecked
<1> HIDE DEF s
<1>5. Handler([s EXCEPT !.ov.class = class])
  BY <1>2 DEF Handler
<1> HIDE DEF c
<1> QED
  BY <1>1, <1>3, <1>4, <1>5, Zenon

\* A handler that was approved, or needs no approval, is sound.
LEMMA ApplySound ==
  ASSUME NEW ov, NEW parent, NEW who, Requested(ov, parent),
         ov.class # "A" => TwoPersons(ov.createdBy, who), NEW h, h = Apply(ov, parent, who)
  PROVE  /\ Handler(h) /\ h.kind = "apply" /\ h.step = "check" /\ h.ov.class = ov.class /\ h.ov.body = ov.body
         /\ Requested(h.ov, h.parent) /\ OverlayGoverned(h.ov)
<1> DEFINE a == [ov EXCEPT !.approvedBy = who]
<1>1. h = [kind |-> "apply", step |-> "check", ov |-> a, parent |-> parent]
  BY Zenon DEF Apply
<1>2. /\ Overlay(a) /\ a.class = ov.class /\ a.body = ov.body /\ a.createdBy = ov.createdBy
      /\ a.created = ov.created /\ a.expiresAt = ov.expiresAt /\ a.approvedBy = who
  BY OverlayShape, Zenon DEF Requested
<1> HIDE DEF a
<1>3. Handler(h) /\ h.kind = "apply" /\ h.step = "check" /\ h.ov = a /\ h.parent = parent
  BY <1>1 DEF Handler
<1>4. Requested(a, parent)
  BY <1>2, Zenon DEF Requested, Ends
<1>5. OverlayGoverned(a)
  BY <1>2, Zenon DEF Requested, OverlayGoverned, Ends
<1> QED
  BY <1>2, <1>3, <1>4, <1>5, Zenon

LEMMA ClearSound ==
  ASSUME NEW parent, NEW step
  PROVE  HandlerSound([kind |-> "clear", step |-> step, ov |-> NoOverlay, parent |-> parent])
  BY DEF HandlerSound, Handler

LEMMA ProposeSound ==
  ASSUME NEW ov, NEW parent, Requested(ov, parent)
  PROVE  HandlerSound([kind |-> "propose", step |-> "switch", ov |-> ov, parent |-> parent])
  BY DEF HandlerSound, Handler

\* What joins the flight is sound, what stays is.
LEMMA JoinFlight ==
  ASSUME FlightSound, UNCHANGED adBoot, adAgreed \subseteq adAgreed', NEW h,
         adFlight' \subseteq adFlight \cup {h}, HandlerSound(h)'
  PROVE  FlightSound'
  BY HandlerKept, Zenon DEF FlightSound

LEMMA LeaveFlight ==
  ASSUME FlightSound, UNCHANGED adBoot, adAgreed \subseteq adAgreed', adFlight' \subseteq adFlight
  PROVE  FlightSound'
  BY HandlerKept, Zenon DEF FlightSound

LEMMA JoinPending ==
  ASSUME PendingSound, UNCHANGED adBoot, NEW q, adPending' \subseteq adPending \cup {q},
         q.kind \in {"killswitch", "settings.overlay", "settings.overlay.rollback"},
         q.requester \in Principals, CanOperate(q.requester),
         q.kind = "settings.overlay" =>
           Requested(q.what.ov, q.what.parent) /\ q.what.ov.class # "A" /\ q.what.ov.createdBy = q.requester
  PROVE  PendingSound'
  BY ZenonT(50) DEF PendingSound, Requested, Judged, Ends

LEMMA LeavePending ==
  ASSUME PendingSound, UNCHANGED adBoot, adPending' \subseteq adPending PROVE PendingSound'
  BY Zenon DEF PendingSound, Requested, Judged, Ends

\* What a step must keep when it puts nothing new in force.
LEMMA SameInForce ==
  ASSUME AdminInv, UNCHANGED <<adNow, adBoot, adActive, adFile, adLkg>>, adAgreed \subseteq adAgreed',
         PendingSound', FlightSound', adKill' => TwoPersons(adKillBy'[1], adKillBy'[2])
  PROVE  AdminInv'
<1>1. Lawful(adActive') /\ Lawful(adFile') /\ Lawful(adLkg')
  BY Zenon DEF AdminInv
<1>2. Lawful(adActive)' /\ Lawful(adFile)' /\ Lawful(adLkg)'
  BY <1>1, LawfulKept, Zenon
<1> QED
  BY <1>2, Zenon DEF AdminInv

LEMMA AdminInitInv == AdminInit => AdminInv
<1> SUFFICES ASSUME AdminInit PROVE AdminInv
  BY Zenon
<1>1. /\ adNow = 1 /\ adKill = FALSE /\ adActive = NoOverlay /\ adFile = NoOverlay /\ adLkg = NoOverlay
      /\ adPending = {} /\ adFlight = {}
  BY Zenon DEF AdminInit
<1>2. adNow \in Nat \ {0}
  BY ONLY <1>1
<1> QED
  BY <1>1, <1>2, Unset, Zenon DEF AdminInv, PendingSound, FlightSound

\* The proposal a handler builds.
LEMMA ProposalSound ==
  ASSUME AdminInv, NEW op \in Principals, CanOperate(op), NEW body,
         NEW expiry \in ExpiryForClass(Classify(Effective(adActive), body))
  PROVE  Requested(Proposal(body, op, expiry), Version(adActive))
<1> DEFINE ov == Proposal(body, op, expiry)
           class == Classify(Effective(adActive), body)
<1>1. /\ Overlay(ov) /\ ov.class = class /\ ov.body = body /\ ov.createdBy = op /\ ov.created = adNow
      /\ ov.expiresAt = expiry
  BY Zenon DEF Proposal, Overlay
<1>2. class = Judged(Version(adActive), body)
  BY VersionJudges, Zenon
<1>3. class \in {"A", "B", "C", "D"}
  BY Zenon DEF Classify
<1>4. class # "A" => expiry # NoExpiry /\ expiry <= adNow + (IF class = "C" THEN IntegrityTTL ELSE LooseTTL)
  BY <1>3, AdminAssumption DEF ExpiryForClass, NoExpiry, AdminInv
<1> HIDE DEF ov
<1>5. Requested(ov, Version(adActive))
  BY <1>1, <1>2, <1>4, ZenonT(30) DEF Requested, Ends
<1> QED
  BY <1>5, Zenon DEF ov

\* A handler that joins, a request that joins: nothing else is looked at.
LEMMA JoinInv ==
  ASSUME AdminInv, UNCHANGED <<adNow, adBoot, adKill, adActive, adFile, adLkg, adKillBy, adAgreed>>,
         NEW h, HandlerSound(h), adFlight' \subseteq adFlight \cup {h}, PendingSound'
  PROVE  AdminInv'
<1>1. HandlerSound(h)'
  BY HandlerKept, Zenon
<1>2. FlightSound'
  BY <1>1, JoinFlight, Zenon DEF AdminInv
<1> QED
  BY <1>2, SameInForce, Zenon DEF AdminInv

LEMMA LeaveInv ==
  ASSUME AdminInv, UNCHANGED <<adNow, adBoot, adKill, adActive, adFile, adLkg, adKillBy, adAgreed>>,
         adFlight' \subseteq adFlight, PendingSound'
  PROVE  AdminInv'
<1>1. FlightSound'
  BY LeaveFlight, Zenon DEF AdminInv
<1> QED
  BY <1>1, SameInForce, Zenon DEF AdminInv

\* An operator asks: for the kill switch, for an overlay, or to take one away.
LEMMA AskInv ==
  ASSUME AdminInv, KillSwitch \/ Propose \/ Rollback PROVE AdminInv'
<1>1. UNCHANGED <<adNow, adBoot, adKill, adActive, adFile, adLkg, adKillBy, adAgreed>>
  BY Zenon DEF KillSwitch, Propose, Rollback
<1>2. CASE KillSwitch
  <2>1. PICK op \in Principals, on \in BOOLEAN : CanOperate(op) /\ Create("killswitch", on, op) /\ adFlight' = adFlight
    BY <1>2, Zenon DEF KillSwitch
  <2> DEFINE q == [id |-> adCount.actions, kind |-> "killswitch", what |-> on, requester |-> op, created |-> adNow]
  <2>2. adPending' \subseteq adPending \cup {q} /\ q.requester = op /\ q.kind = "killswitch"
    BY <2>1, Zenon DEF Create
  <2> HIDE DEF q
  <2>3. PendingSound'
    BY <1>1, <2>1, <2>2, JoinPending, Zenon DEF AdminInv
  <2> QED
    BY <1>1, <2>1, <2>3, LeaveInv, Zenon
<1>3. CASE Propose
  <2>1. PICK op \in Principals, body \in Bodies :
          /\ CanOperate(op)
          /\ \E expiry \in ExpiryForClass(Classify(Effective(adActive), body)) :
               InFlight([kind |-> "propose", step |-> "switch", ov |-> Proposal(body, op, expiry),
                         parent |-> Version(adActive)])
          /\ adPending' = adPending
    BY <1>3, Zenon DEF Propose
  <2>2. PICK expiry \in ExpiryForClass(Classify(Effective(adActive), body)) :
          InFlight([kind |-> "propose", step |-> "switch", ov |-> Proposal(body, op, expiry),
                    parent |-> Version(adActive)])
    BY <2>1, Zenon
  <2> DEFINE h == [kind |-> "propose", step |-> "switch", ov |-> Proposal(body, op, expiry),
                   parent |-> Version(adActive)]
  <2>3. HandlerSound(h)
    BY <2>1, ProposalSound, ProposeSound, Zenon
  <2>4. adFlight' \subseteq adFlight \cup {h}
    BY <2>2, Zenon DEF InFlight
  <2> HIDE DEF h
  <2>5. PendingSound'
    BY <1>1, <2>1, LeavePending, Zenon DEF AdminInv
  <2> QED
    BY <1>1, <2>3, <2>4, <2>5, JoinInv, Zenon
<1>4. CASE Rollback
  <2>1. PICK op \in Principals :
          /\ CanOperate(op)
          /\ IF adActive.class = "A"
             THEN Create("settings.overlay.rollback", Version(adActive), op) /\ UNCHANGED adFlight
             ELSE InFlight(Clear(Version(adActive))) /\ UNCHANGED adPending
    BY <1>4, Zenon DEF Rollback
  <2> DEFINE q == [id |-> adCount.actions, kind |-> "settings.overlay.rollback", what |-> Version(adActive),
                   requester |-> op, created |-> adNow]
             h == [kind |-> "clear", step |-> "check", ov |-> NoOverlay, parent |-> Version(adActive)]
  <2>2. q.requester = op /\ q.kind = "settings.overlay.rollback"
    BY Zenon
  <2>3. HandlerSound(h)
    BY ClearSound, Zenon
  <2>4. adPending' \subseteq adPending \cup {q} /\ adFlight' \subseteq adFlight \cup {h}
    BY <2>1, Zenon DEF Create, InFlight, Clear
  <2> HIDE DEF q, h
  <2>5. PendingSound'
    BY <1>1, <2>1, <2>2, <2>4, JoinPending, ZenonT(30) DEF AdminInv
  <2> QED
    BY <1>1, <2>3, <2>4, <2>5, JoinInv, Zenon
<1> QED
  BY <1>2, <1>3, <1>4, Zenon

\* The second reading of the switch: refused, on its way, or waiting.
LEMMA DecideInv ==
  ASSUME AdminInv, ProposeDecided PROVE AdminInv'
<1>1. UNCHANGED <<adNow, adBoot, adKill, adActive, adFile, adLkg, adKillBy, adAgreed>>
  BY Zenon DEF ProposeDecided
<1>2. PICK h \in adFlight :
        /\ h.kind = "propose"
        /\ \/ adFlight' \subseteq adFlight /\ adPending' = adPending
           \/ /\ h.ov.class = "A" /\ adPending' = adPending
              /\ adFlight' \subseteq adFlight \cup {Apply(h.ov, h.parent, "")}
           \/ /\ h.ov.class # "A" /\ adFlight' \subseteq adFlight
              /\ Create("settings.overlay", [ov |-> h.ov, parent |-> h.parent], h.ov.createdBy)
  BY Zenon DEF ProposeDecided
<1>3. Requested(h.ov, h.parent)
  <2>1. "propose" # "clear"
    OBVIOUS
  <2> QED
    BY <1>2, <2>1, Zenon DEF AdminInv, FlightSound, HandlerSound
<1>4. CASE adFlight' \subseteq adFlight /\ adPending' = adPending
  BY <1>1, <1>4, LeavePending, LeaveInv, Zenon DEF AdminInv
<1>5. CASE /\ h.ov.class = "A" /\ adPending' = adPending
           /\ adFlight' \subseteq adFlight \cup {Apply(h.ov, h.parent, "")}
  <2> DEFINE ov == h.ov
             parent == h.parent
             nobody == ""
             a == Apply(ov, parent, nobody)
  <2>1. a = Apply(ov, parent, nobody) /\ Requested(ov, parent) /\ ov.class = "A"
    BY <1>3, <1>5, Zenon
  <2>2. a = Apply(h.ov, h.parent, "")
    BY Zenon
  <2> HIDE DEF a, ov, parent, nobody
  <2>3. /\ Handler(a) /\ a.kind = "apply" /\ a.step = "check" /\ a.ov.class = "A"
        /\ Requested(a.ov, a.parent) /\ OverlayGoverned(a.ov)
    BY ONLY <2>1, ApplySound
  <2>4. HandlerSound(a)
    BY <2>3 DEF HandlerSound
  <2>5. PendingSound'
    BY <1>1, <1>5, LeavePending, Zenon DEF AdminInv
  <2> QED
    BY <1>1, <1>5, <2>2, <2>4, <2>5, JoinInv, Zenon
<1>6. CASE /\ h.ov.class # "A" /\ adFlight' \subseteq adFlight
           /\ Create("settings.overlay", [ov |-> h.ov, parent |-> h.parent], h.ov.createdBy)
  <2> DEFINE q == [id |-> adCount.actions, kind |-> "settings.overlay", what |-> [ov |-> h.ov, parent |-> h.parent],
                   requester |-> h.ov.createdBy, created |-> adNow]
  <2>1. adPending' \subseteq adPending \cup {q}
    BY <1>6, Zenon DEF Create
  <2>2. /\ q.requester = h.ov.createdBy /\ q.kind = "settings.overlay"
        /\ q.what.ov = h.ov /\ q.what.parent = h.parent
    BY Zenon
  <2>3. h.ov.createdBy \in Principals /\ CanOperate(h.ov.createdBy)
    BY <1>3, <1>6, Zenon DEF Requested
  <2> HIDE DEF q
  <2>4. PendingSound'
    BY <1>1, <1>3, <1>6, <2>1, <2>2, <2>3, JoinPending, ZenonT(30) DEF AdminInv
  <2> QED
    BY <1>1, <1>6, <2>4, LeaveInv, Zenon
<1> QED
  BY <1>2, <1>4, <1>5, <1>6, Zenon

\* Somebody else agrees, and the action is carried out.
LEMMA ApproveInv ==
  ASSUME AdminInv, Approve PROVE AdminInv'
<1>1. PICK op \in Principals, p \in adPending :
        /\ Approvable(p, op, adNow) /\ adPending' = adPending \ {p}
        /\ CASE p.kind = "killswitch" ->
                  adKill' = p.what /\ adKillBy' = <<p.requester, op>> /\ UNCHANGED <<adFlight, adAgreed>>
             [] p.kind = "settings.overlay" ->
                  /\ InFlight(Apply(p.what.ov, p.what.parent, op)) /\ UNCHANGED <<adKill, adKillBy>>
                  /\ adAgreed' = adAgreed \cup
                       {[id |-> id, by |-> <<p.requester, op>>] : id \in Demoted(p.what.ov.body)}
             [] p.kind = "settings.overlay.rollback" ->
                  InFlight(Clear(p.what)) /\ UNCHANGED <<adKill, adKillBy, adAgreed>>
        /\ p.kind \in {"killswitch", "settings.overlay", "settings.overlay.rollback"}
  <2>1. \A p \in adPending : p.kind \in {"killswitch", "settings.overlay", "settings.overlay.rollback"}
    BY Zenon DEF AdminInv, PendingSound
  <2> QED
    BY <2>1, Zenon DEF Approve
<1>2. UNCHANGED <<adNow, adBoot, adActive, adFile, adLkg>>
  BY Zenon DEF Approve
<1>3. p.requester \in Principals /\ CanOperate(p.requester)
  BY Zenon DEF AdminInv, PendingSound
<1>4. TwoPersons(p.requester, op)
  BY <1>1, <1>3, SecondPerson, Zenon
<1>5. PendingSound'
  BY <1>1, <1>2, LeavePending, Zenon DEF AdminInv
<1>6. CASE p.kind = "killswitch"
  <2>1. adKillBy' = <<p.requester, op>> /\ adFlight' = adFlight /\ adAgreed' = adAgreed
    BY <1>1, <1>6, Zenon
  <2>2. FlightSound'
    BY <1>2, <2>1, LeaveFlight, Zenon DEF AdminInv
  <2>3. TwoPersons(adKillBy'[1], adKillBy'[2])
    BY <1>4, <2>1, Zenon
  <2> QED
    BY <1>2, <1>5, <2>1, <2>2, <2>3, SameInForce, Zenon
<1>7. CASE p.kind = "settings.overlay"
  <2> DEFINE ov == p.what.ov
             parent == p.what.parent
             h == Apply(ov, parent, op)
             agreed == {[id |-> id, by |-> <<p.requester, op>>] : id \in Demoted(ov.body)}
  <2>1. adFlight' \subseteq adFlight \cup {h} /\ UNCHANGED <<adKill, adKillBy>> /\ adAgreed' = adAgreed \cup agreed
    BY <1>1, <1>7, Zenon DEF InFlight
  <2>2. Requested(ov, parent) /\ ov.createdBy = p.requester
    BY <1>7, Zenon DEF AdminInv, PendingSound
  <2>3. ASSUME NEW id \in Demoted(ov.body)
        PROVE  \E a \in adAgreed' : a.id = id /\ TwoPersons(a.by[1], a.by[2])
    <3> DEFINE a == [id |-> id, by |-> <<p.requester, op>>]
    <3>1. a \in adAgreed' /\ a.id = id /\ a.by = <<p.requester, op>>
      BY <2>1, <2>3, Zenon
    <3> HIDE DEF a
    <3>2. a.by[1] = p.requester /\ a.by[2] = op
      BY <3>1
    <3> QED
      BY <1>4, <3>1, <3>2, Zenon
  <2> HIDE DEF ov, parent, agreed
  <2>4. Agreed(ov.body)'
    BY <2>3, Zenon DEF Agreed, Demoted
  <2>5. HandlerSound(h)'
    <3>1. /\ Handler(h) /\ h.kind = "apply" /\ h.step = "check" /\ h.ov.body = ov.body
          /\ Requested(h.ov, h.parent) /\ OverlayGoverned(h.ov)
      <4>1. h = Apply(ov, parent, op)
        BY Zenon
      <4> HIDE DEF h
      <4> QED
        BY ONLY <1>4, <2>2, <4>1, ApplySound
    <3> HIDE DEF h
    <3>2. Requested(h.ov, h.parent)'
      BY <1>2, <3>1, Zenon DEF Requested, Judged, Ends
    <3>3. Agreed(h.ov.body)'
      BY <2>4, <3>1, Zenon
    <3> QED
      BY <3>1, <3>2, <3>3 DEF HandlerSound
  <2> HIDE DEF h
  <2>6. FlightSound'
    BY <1>2, <2>1, <2>5, JoinFlight, Zenon DEF AdminInv
  <2> QED
    BY <1>2, <1>5, <2>1, <2>6, SameInForce, Zenon DEF AdminInv
<1>8. CASE p.kind = "settings.overlay.rollback"
  <2> DEFINE h == [kind |-> "clear", step |-> "check", ov |-> NoOverlay, parent |-> p.what]
  <2>1. adFlight' \subseteq adFlight \cup {h} /\ UNCHANGED <<adKill, adKillBy, adAgreed>>
    BY <1>1, <1>8, Zenon DEF InFlight, Clear
  <2>2. HandlerSound(h)
    BY ClearSound, Zenon
  <2> HIDE DEF h
  <2> QED
    BY <1>2, <1>5, <2>1, <2>2, JoinInv, Zenon
<1> QED
  BY <1>1, <1>6, <1>7, <1>8, Zenon

\* The class computed at the check is the one the proposal was given: the parent
\* version fixes everything that Classify looks at.
LEMMA ClassKept ==
  ASSUME NEW h, Requested(h.ov, h.parent), h.parent = Version(adActive)
  PROVE  Classify(Effective(adActive), h.ov.body) = h.ov.class
<1>1. h.ov.class = Judged(Version(adActive), h.ov.body)
  BY Zenon DEF Requested
<1> QED
  BY <1>1, VersionJudges, Zenon

\* A handler that passes its check is the one that came, a step further; and if it
\* tightens, what it still demotes is demoted already.
LEMMA CheckedSound ==
  ASSUME AdminInv, NEW h \in adFlight, h.kind = "apply", h.parent = Version(adActive),
         NEW c, c = Rechecked(h, Classify(Effective(adActive), h.ov.body))
  PROVE  HandlerSound(c)
<1>1. HandlerSound(h)
  BY Zenon DEF AdminInv, FlightSound
<1>2. Handler(h) /\ Requested(h.ov, h.parent) /\ OverlayGoverned(h.ov) /\ (h.ov.class # "A" => Agreed(h.ov.body))
  BY <1>1 DEF HandlerSound
<1>3. Classify(Effective(adActive), h.ov.body) = h.ov.class
  BY <1>2, ClassKept, Zenon
<1>4. c = Rechecked(h, h.ov.class)
  BY <1>3, Zenon
<1>5. /\ Handler(c) /\ c.kind = "apply" /\ c.parent = h.parent
      /\ c.ov = [h.ov EXCEPT !.class = h.ov.class]
  BY ONLY <1>2, <1>4, h.kind = "apply", RecheckShape, Zenon
<1>6. c.ov = h.ov
  BY <1>2, <1>5, SameClass, Zenon DEF Requested
<1>7. Agreed(h.ov.body)
  <2>1. CASE h.ov.class = "A"
    <3>1. Demoted(h.ov.body) \subseteq Demoted(adActive.body)
      BY <1>3, <2>1, TighteningDemotes, Zenon
    <3>2. Agreed(adActive.body)
      BY Zenon DEF AdminInv, Lawful
    <3> QED
      BY <3>1, <3>2, Zenon DEF Agreed
  <2> QED
    BY <1>2, <2>1, Zenon
<1> QED
  BY <1>2, <1>5, <1>6, <1>7 DEF HandlerSound

\* The check of a parent version, and the decision to expire.
LEMMA CheckInv ==
  ASSUME AdminInv, CheckApply \/ CheckClear \/ Expire PROVE AdminInv'
<1>1. UNCHANGED <<adNow, adBoot, adKill, adActive, adFile, adLkg, adPending, adKillBy, adAgreed>>
  BY Zenon DEF CheckApply, CheckClear, Expire
<1>2. PendingSound'
  BY <1>1, LeavePending, Zenon DEF AdminInv
<1>3. CASE CheckApply
  <2>1. PICK h \in adFlight :
          /\ h.kind = "apply"
          /\ \/ adFlight' \subseteq adFlight
             \/ /\ h.parent = Version(adActive)
                /\ adFlight' \subseteq adFlight \cup {Rechecked(h, Classify(Effective(adActive), h.ov.body))}
    BY <1>3, Zenon DEF CheckApply, Moves, Rechecked
  <2>2. CASE adFlight' \subseteq adFlight
    BY <1>1, <1>2, <2>2, LeaveInv, Zenon
  <2>3. CASE h.parent = Version(adActive)
    <3> DEFINE c == Rechecked(h, Classify(Effective(adActive), h.ov.body))
    <3>1. HandlerSound(c)
      BY <2>1, <2>3, CheckedSound, Zenon
    <3>2. adFlight' \subseteq adFlight \cup {c}
      BY <2>1, Zenon
    <3> HIDE DEF c
    <3> QED
      BY <1>1, <1>2, <3>1, <3>2, JoinInv, Zenon
  <2> QED
    BY <2>1, <2>2, <2>3, Zenon
<1>4. CASE CheckClear
  <2>1. PICK h \in adFlight : h.kind = "clear" /\ adFlight' \subseteq adFlight \cup {[h EXCEPT !.step = "store"]}
    BY <1>4, Zenon DEF CheckClear, Moves
  <2> DEFINE s == [h EXCEPT !.step = "store"]
  <2>2. HandlerSound(h)
    BY Zenon DEF AdminInv, FlightSound
  <2>3. Handler(s) /\ s.kind = "clear" /\ s.ov = h.ov
    BY <2>1, <2>2, HandlerShape, Zenon DEF HandlerSound
  <2>4. adFlight' \subseteq adFlight \cup {s}
    BY <2>1, Zenon
  <2> HIDE DEF s
  <2>5. HandlerSound(s)
    BY <2>1, <2>2, <2>3 DEF HandlerSound
  <2> QED
    BY <1>1, <1>2, <2>4, <2>5, JoinInv, Zenon
<1>5. CASE Expire
  <2> DEFINE h == [kind |-> "clear", step |-> "store", ov |-> NoOverlay, parent |-> Version(adActive)]
  <2>1. adFlight' \subseteq adFlight \cup {h}
    BY <1>5, Zenon DEF Expire, InFlight
  <2>2. HandlerSound(h)
    BY ClearSound, Zenon
  <2> HIDE DEF h
  <2> QED
    BY <1>1, <1>2, <2>1, <2>2, JoinInv, Zenon
<1> QED
  BY <1>3, <1>4, <1>5, Zenon

\* What a handler stores it has brought along; a torn file is no overlay.
LEMMA StoreInv ==
  ASSUME AdminInv, Store PROVE AdminInv'
<1>1. UNCHANGED <<adNow, adBoot, adKill, adPending, adKillBy, adAgreed>>
  BY Zenon DEF Store
<1>2. PICK h \in adFlight :
        /\ h.step = "store"
        /\ adActive' \in {h.ov, adActive, NoOverlay}
        /\ adFile' \in {h.ov, TornFile, adFile, NoOverlay}
        /\ adLkg' \in {h.ov, TornFile, adLkg}
        /\ adFlight' \subseteq adFlight \cup {[h EXCEPT !.step = "sync"]}
  BY Zenon DEF Store, Moves
<1>3. HandlerSound(h)
  BY Zenon DEF AdminInv, FlightSound
<1>4. Lawful(h.ov)
  <2>1. CASE h.kind = "clear"
    BY <1>3, <2>1, Unset, Zenon DEF HandlerSound
  <2>2. CASE h.kind # "clear"
    <3>1. h.kind = "apply"
      BY <1>2, <1>3, <2>2 DEF HandlerSound
    <3>2. Requested(h.ov, h.parent) /\ OverlayGoverned(h.ov) /\ Agreed(h.ov.body)
      BY <1>2, <1>3, <3>1 DEF HandlerSound
    <3>3. Weakens(h.ov.body) => h.ov.class # "A"
      BY <3>2, WeakIsLoose, Zenon DEF Requested, Judged
    <3> QED
      BY <3>2, <3>3, Zenon DEF Lawful
  <2> QED
    BY <2>1, <2>2, Zenon
<1>5. Lawful(adActive') /\ Lawful(adFile') /\ Lawful(adLkg')
  BY <1>2, <1>4, Unset, Zenon DEF AdminInv
<1>6. Lawful(adActive)' /\ Lawful(adFile)' /\ Lawful(adLkg)'
  BY <1>1, <1>5, Zenon DEF Lawful, OverlayGoverned, Ends, Weakens, Agreed
<1> DEFINE s == [h EXCEPT !.step = "sync"]
<1>7. Handler(s) /\ s.kind = h.kind /\ s.ov = h.ov /\ s.parent = h.parent /\ s.step = "sync"
  BY <1>3, HandlerShape, Zenon DEF HandlerSound
<1>8. adFlight' \subseteq adFlight \cup {s}
  BY <1>2, Zenon
<1> HIDE DEF s
<1>9. HandlerSound(s)
  BY <1>2, <1>3, <1>4, <1>7 DEF HandlerSound, Lawful
<1>10. HandlerSound(s)'
  BY <1>1, <1>9, HandlerKept, Zenon
<1>11. FlightSound'
  BY <1>1, <1>8, <1>10, JoinFlight, Zenon DEF AdminInv
<1>12. PendingSound'
  BY <1>1, LeavePending, Zenon DEF AdminInv
<1> QED
  BY <1>1, <1>6, <1>11, <1>12, Zenon DEF AdminInv

LEMMA RestartSound ==
  ASSUME AdminInv, Restart PROVE AdminInv'
<1>1. /\ adKill' = FALSE /\ adPending' = {} /\ adFlight' = {} /\ UNCHANGED <<adNow, adLkg, adAgreed>>
      /\ adFile' \in {adFile, TornFile} /\ adActive' = Loaded(adFile', adLkg)
  BY Zenon DEF Restart
<1>2. Lawful(adFile') /\ Lawful(adLkg')
  BY <1>1, Unset, Zenon DEF AdminInv
<1>3. Lawful(adActive')
  BY <1>1, <1>2, Unset, Zenon DEF Loaded
<1>4. Lawful(adActive)' /\ Lawful(adFile)' /\ Lawful(adLkg)'
  BY <1>1, <1>2, <1>3, Zenon DEF Lawful, OverlayGoverned, Ends, Weakens, Agreed
<1> QED
  BY <1>1, <1>4, Zenon DEF AdminInv, PendingSound, FlightSound

LEMMA AdminNextInv == AdminInv /\ [AdminNext]_adVars => AdminInv'
<1> SUFFICES ASSUME AdminInv, [AdminNext]_adVars PROVE AdminInv'
  BY Zenon
<1>1. CASE Sync \/ AdminForget \/ AdminTick \/ UNCHANGED adVars
  <2>1. /\ UNCHANGED <<adBoot, adKill, adActive, adFile, adLkg, adKillBy, adAgreed>>
        /\ adPending' \subseteq adPending /\ adFlight' \subseteq adFlight
    BY <1>1, ZenonT(30) DEF Sync, AdminForget, AdminTick, adVars
  <2>2. adNow' \in Nat \ {0}
    BY <1>1 DEF Sync, AdminForget, AdminTick, adVars, AdminInv
  <2>3. PendingSound' /\ FlightSound'
    BY <2>1, LeavePending, LeaveFlight, Zenon DEF AdminInv
  <2>4. Lawful(adActive)' /\ Lawful(adFile)' /\ Lawful(adLkg)'
    BY <2>1, Zenon DEF AdminInv, Lawful, OverlayGoverned, Ends, Weakens, Agreed
  <2> QED
    BY <2>1, <2>2, <2>3, <2>4, Zenon DEF AdminInv
<1> QED
  BY <1>1, AskInv, DecideInv, ApproveInv, CheckInv, StoreInv, RestartSound, ZenonT(30) DEF AdminNext

LEMMA AdminAlways == AdminSpec => []AdminInv
  BY AdminInitInv, AdminNextInv, PTL DEF AdminSpec

\* Two persons agreed to what is in force: to the kill switch, to the very overlay that
\* weakens a threshold, a cap or a weight, and, at some time, to every demotion. For
\* every proposal, and however handlers race, writes fail and restarts load older files
\* (approval.go, admin_settings.go, store_file.go).
THEOREM InForceIsGoverned == AdminSpec => []Governed
<1>1. AdminInv => Governed
  BY Zenon DEF AdminInv, Lawful, OverlayGoverned, Agreed, Governed
<1> QED
  BY AdminAlways, <1>1, PTL

--------------------------------------------------------------------------------
\* The actions that wait were asked for by operators.
ApiInv ==
  /\ \A p \in apiPending : p.requester \in Principals /\ CanOperate(p.requester)
  /\ BansGoverned

\* The row of a route decides who gets to its handler.
LEMMA OperatorsOnly ==
  ASSUME NEW who, NEW path \in Writes, NEW records, HandleAdmin(who, "POST", path, records) PROVE CanOperate(who)
<1>1. PICK row \in AdminRoutes : row.method = "POST" /\ row.path = path /\ Allowed(who, row.need)
  BY ZenonT(30) DEF HandleAdmin
<1>2. row.need = "operate"
  <2>1. row.method = "GET" \/ row.need = "operate" \/ row.path = "approvals"
    <3>1. /\ \A p : Row("GET", p, "read").method = "GET"
          /\ \A p : Row("POST", p, "operate").need = "operate"
          /\ Row("POST", "approvals", "approve").path = "approvals"
      BY Zenon DEF Row
    <3>2. \/ \E p \in Reads : row = Row("GET", p, "read")
          \/ \E p \in Writes : row = Row("POST", p, "operate")
          \/ row = Row("POST", "approvals", "approve")
      BY Zenon DEF AdminRoutes
    <3>3. CASE \E p \in Reads : row = Row("GET", p, "read")
      BY <3>1, <3>3, Zenon
    <3>4. CASE \E p \in Writes : row = Row("POST", p, "operate")
      BY <3>1, <3>4, Zenon
    <3>5. CASE row = Row("POST", "approvals", "approve")
      BY <3>1, <3>5, Zenon
    <3> QED BY <3>2, <3>3, <3>4, <3>5, Zenon
  <2>2. "approvals" \notin Writes
    BY DEF Writes
  <2>3. row.method # "GET" /\ row.path # "approvals"
    BY <1>1, <2>2
  <2> QED BY <2>1, <2>3, Zenon
<1> QED
  BY <1>1, <1>2, Zenon DEF Allowed

\* One operator alone commits only what is short and narrow.
LEMMA ShortAndNarrow ==
  ASSUME NEW b, NEW who, ~NeedsApproval(b) PROVE LET c == CommitBan(b, who, "") IN ~c.broad /\ ~c.permanent
  BY Zenon DEF NeedsApproval, CommitBan

LEMMA ApproverAgrees ==
  ASSUME NEW p, NEW who \in Principals, p.requester \in Principals, CanOperate(p.requester), Approvable(p, who, apiNow)
  PROVE  TwoPersons(CommitBan(p.ban, p.requester, who).requester, CommitBan(p.ban, p.requester, who).approver)
  BY Zenon DEF Approvable, HasRole, TwoPersons, CanApprove, CommitBan

LEMMA ApiNextInv == ApiInv /\ [ApiNext]_apiVars => ApiInv'
<1> SUFFICES ASSUME ApiInv, [ApiNext]_apiVars PROVE ApiInv'
  BY Zenon
<1>1. CASE AddBan
  <2>1. PICK who \in Principals, b \in Requests :
          /\ \E records : HandleAdmin(who, "POST", "bans", records)
          /\ IF NeedsApproval(b)
             THEN /\ apiPending' = {p \in apiPending : Live(p, apiNow)} \cup
                       {[id |-> apiCreated, ban |-> b, requester |-> who, created |-> apiNow]}
                  /\ UNCHANGED apiBans
             ELSE apiBans' = apiBans \cup {CommitBan(b, who, "")} /\ UNCHANGED apiPending
    BY <1>1, Zenon DEF AddBan
  <2>2. CanOperate(who)
    BY <2>1, OperatorsOnly, ZenonT(30) DEF Writes
  <2>3. CASE NeedsApproval(b)
    BY <2>1, <2>2, <2>3, SMTT(30) DEF ApiInv, BansGoverned
  <2>4. CASE ~NeedsApproval(b)
    <3> DEFINE c == CommitBan(b, who, "")
    <3>1. ~c.broad /\ ~c.permanent
      BY <2>4, ShortAndNarrow, Zenon
    <3>2. apiBans' = apiBans \cup {c} /\ apiPending' = apiPending
      BY <2>1, <2>4, Zenon
    <3> HIDE DEF c
    <3> QED
      BY <3>1, <3>2, Zenon DEF ApiInv, BansGoverned
  <2> QED
    BY <2>3, <2>4, Zenon
<1>2. CASE BulkBan
  <2>1. PICK who \in Principals, keys \in SUBSET BOOLEAN \ {{}} :
          /\ apiBans' = apiBans \cup {CommitBan(b, who, "") : b \in {[broad |-> k, duration |-> "short"] : k \in keys \ {TRUE}}}
          /\ UNCHANGED apiPending
    BY <1>2, Zenon DEF BulkBan
  <2>2. \A b \in {[broad |-> k, duration |-> "short"] : k \in keys \ {TRUE}} : ~NeedsApproval(b)
    <3>1. \A k \in keys \ {TRUE} : k = FALSE
      BY Zenon
    <3>2. ~NeedsApproval([broad |-> FALSE, duration |-> "short"])
      BY Zenon DEF NeedsApproval
    <3> QED
      BY <3>1, <3>2, Zenon
  <2> QED
    BY <2>1, <2>2, ShortAndNarrow, ZenonT(90) DEF ApiInv, BansGoverned
<1>3. CASE ApproveBan
  <2>1. PICK who \in Principals, p \in apiPending :
          /\ Approvable(p, who, apiNow)
          /\ apiPending' = apiPending \ {p} /\ apiBans' = apiBans \cup {CommitBan(p.ban, p.requester, who)}
    BY <1>3, Zenon DEF ApproveBan
  <2> QED
    BY <2>1, ApproverAgrees, Zenon DEF ApiInv, BansGoverned
<1>4. CASE Refused \/ LiftBan \/ ForgetBan \/ ApiTick \/ UNCHANGED apiVars
  <2>1. apiPending' \subseteq apiPending /\ apiBans' \subseteq apiBans
    BY <1>4, Zenon DEF Refused, LiftBan, ForgetBan, ApiTick, apiVars
  <2> QED
    BY <2>1, Zenon DEF ApiInv, BansGoverned
<1> QED
  BY <1>1, <1>2, <1>3, <1>4, ZenonT(30) DEF ApiNext

\* Every ban for ever or on a range has an operator who asked and another
\* principal who approved it, for any principals and roles and whichever handler
\* committed it (adminAddBan, adminBulkBan, adminApprove).
THEOREM BroadBansGoverned == ApiSpec => []BansGoverned
<1>1. ApiInit => ApiInv
  BY Zenon DEF ApiInit, ApiInv, BansGoverned
<1>2. ApiInv => BansGoverned
  BY Zenon DEF ApiInv
<1> QED
  BY <1>1, <1>2, ApiNextInv, PTL DEF ApiSpec
=============================================================================
