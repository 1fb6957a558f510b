---------------------------- MODULE TokenProofs -----------------------------
(* What a client earns and what it may use once, for any number of requests in *)
(* flight and any lifetimes: a trust token is earned and expires, a credential *)
(* is honoured once, a Pass is paid for and attempted a bounded number of      *)
(* times.                                                                      *)
EXTENDS TrustTokens, SingleUse, PassChallenge, SequenceTheorems, TLAPS

(***************************************************************************)
(* The registries: what was consumed is honoured once.                     *)
(***************************************************************************)
SuTypeOK ==
  /\ suKind \in {"beacon", "pat", "trace", "agent", "webauthn"}
  /\ suNow \in Nat /\ suCount \in Nat
  /\ \A q \in suReq : /\ q.at \in Nat /\ q.created \in Nat /\ q.expires \in Nat
                      /\ q.at <= suNow /\ suNow - q.at <= MaxLate
                      /\ suKind \in {"pat", "trace"} => q.n # NoNonce
  /\ \A e \in suSeen : e.at \in Nat
  /\ \A u \in suUsed : u.when \in Nat /\ u.until \in Nat /\ u.ahead \in Nat

\* What was used is still in the registry, recorded at most MaxLate before it was
\* honoured and at most a retention window before the end of its life ...
StillSeen(u) ==
  \E e \in suSeen : /\ e.n = u.n /\ u.when - e.at <= MaxLate
                    /\ suKind = "agent" => u.until - u.ahead <= e.at + NonceTTL

\* ... or its window has closed, and so has its life.
Expired(u) ==
  /\ suNow - u.when > NonceTTL - MaxLate
  /\ suKind = "agent" => suNow > u.until - u.ahead

RegistryInv == suKind # "webauthn" => \A u \in suUsed : u.n # NoNonce => StillSeen(u) \/ Expired(u)

CounterInv == suKind = "webauthn" => \A u \in suUsed : u.n \in Nat /\ u.n <= suCount

\* What HonouredOnce asks of one that was honoured.
Once(v) ==
  /\ v.n # NoNonce => \A u \in v.past : /\ suKind # "webauthn" /\ v.when - u.when > NonceTTL - MaxLate
                                        /\ suKind = "agent" => v.when > u.end
  /\ suKind = "agent" => v.when <= v.until + SigSkew + MaxLate

SuInv == SuTypeOK /\ RegistryInv /\ CounterInv /\ HonouredOnce

LEMMA SuInitially == SingleUseInit => SuInv
  BY DEF SingleUseInit, SuInv, SuTypeOK, RegistryInv, CounterInv, HonouredOnce

\* A caller that waits for the lock changes nothing that was used.
LEMMA SuCalls ==
  ASSUME SuInv, NEW kind, NEW n, NEW created \in Nat, NEW expires \in Nat, Caller(kind, n, created, expires),
         kind \in {"pat", "trace"} => n # NoNonce
  PROVE  SuInv'
<1>1. SuTypeOK'
  BY SingleUseAssumption DEF SuInv, SuTypeOK, Caller
<1>2. RegistryInv' /\ CounterInv' /\ HonouredOnce'
  BY Zenon DEF SuInv, Caller, RegistryInv, StillSeen, Expired, CounterInv, HonouredOnce
<1> QED BY <1>1, <1>2, Zenon DEF SuInv

\* How long ago a caller that was late by at most `late` used what the registry
\* stamped with its own time.
LEMMA Elapsed ==
  ASSUME NEW now \in Nat, NEW at \in Nat, NEW stamp \in Nat, NEW when \in Nat, NEW ttl \in Nat, NEW late \in Nat,
         at <= now, at - stamp > ttl, when - stamp <= late
  PROVE  now - when > ttl - late
  OBVIOUS

\* The registry under its lock: an entry leaves it only after its window, and what
\* is not found in it is either new or expired.
LEMMA SuConsumes ==
  ASSUME SuInv, NEW q \in suReq, NEW until \in Nat, NEW ahead \in Nat, suKind # "webauthn", q.n # NoNonce,
         Consume(q.n, q.at, until, ahead), Done(q),
         suKind = "agent" => until - ahead <= q.at + NonceTTL /\ suNow <= until + SigSkew + MaxLate
  PROVE  SuInv'
<1> DEFINE kept == Kept(q.at)
           new == Honoured(q.n, until, ahead)
           entry == [n |-> q.n, at |-> q.at]
<1>1. /\ suKind' = suKind /\ suNow' = suNow /\ suCount' = suCount /\ suReq' \subseteq suReq
      /\ suKind \in {"beacon", "pat", "trace", "agent"}
  BY Zenon DEF SuInv, SuTypeOK, Done
<1>2. q.at \in Nat /\ q.at <= suNow /\ suNow - q.at <= MaxLate /\ suNow \in Nat
  BY Zenon DEF SuInv, SuTypeOK
<1>3. /\ kept \subseteq suSeen
      /\ \A e \in suSeen : e \in kept \/ q.at - e.at > NonceTTL
  BY SingleUseAssumption, <1>2, SMTT(30) DEF SuInv, SuTypeOK, Kept, InRetention
<1>4. \/ suSeen' = kept /\ suUsed' = suUsed
      \/ suSeen' = kept \cup {entry} /\ suUsed' = suUsed \cup {new} /\ (\A e \in kept : e.n # q.n)
  BY Zenon DEF Consume
<1>5. /\ new.n = q.n /\ new.when = suNow /\ new.until = until /\ new.ahead = ahead
      /\ new.past = {[when |-> u.when, end |-> u.until - u.ahead] : u \in {w \in suUsed : w.n = q.n}}
  BY Zenon DEF Honoured, Past
<1> HIDE DEF new
<1>6. ASSUME NEW u \in suUsed, u.n # NoNonce
      PROVE  \/ Expired(u)
             \/ \E e \in kept : /\ e.n = u.n /\ u.when - e.at <= MaxLate
                                /\ suKind = "agent" => u.until - u.ahead <= e.at + NonceTTL
  <2>1. StillSeen(u) \/ Expired(u)
    BY <1>6, Zenon DEF SuInv, RegistryInv
  <2>2. u.when \in Nat /\ u.until \in Nat /\ u.ahead \in Nat
    BY Zenon DEF SuInv, SuTypeOK
  <2>3. CASE StillSeen(u)
    <3>1. PICK e \in suSeen : /\ e.n = u.n /\ u.when - e.at <= MaxLate
                              /\ suKind = "agent" => u.until - u.ahead <= e.at + NonceTTL
      BY <2>3, Zenon DEF StillSeen
    <3>2. CASE q.at - e.at > NonceTTL
      <4>1. e.at \in Nat
        BY Zenon DEF SuInv, SuTypeOK
      <4>2. suNow - u.when > NonceTTL - MaxLate
        BY <1>2, <2>2, <3>1, <3>2, <4>1, SingleUseAssumption, Elapsed, Zenon
      <4>3. suKind = "agent" => suNow > u.until - u.ahead
        BY <1>2, <2>2, <3>1, <3>2, <4>1, SingleUseAssumption
      <4> QED BY <4>2, <4>3, Zenon DEF Expired
    <3> QED BY <1>3, <3>1, <3>2, Zenon
  <2> QED BY <2>1, <2>3, Zenon
<1>7. RegistryInv'
  <2>1. ASSUME NEW u \in suUsed, u.n # NoNonce PROVE StillSeen(u)' \/ Expired(u)'
    <3>1. kept \subseteq suSeen'
      BY <1>4, Zenon
    <3> HIDE DEF kept
    <3> QED BY <1>1, <1>6, <2>1, <3>1, Zenon DEF StillSeen, Expired
  <2>2. ASSUME NEW u, u = new, entry \in suSeen' PROVE StillSeen(u)'
    <3>1. entry.n = u.n /\ u.when - entry.at <= MaxLate
      BY <1>2, <1>5, <2>2, Zenon
    <3>2. suKind' = "agent" => u.until - u.ahead <= entry.at + NonceTTL
      BY <1>1, <1>5, <2>2, Zenon
    <3> HIDE DEF entry
    <3> QED BY <2>2, <3>1, <3>2, Zenon DEF StillSeen
  <2>3. suUsed' = suUsed \/ (suUsed' = suUsed \cup {new} /\ entry \in suSeen')
    BY <1>4, Zenon
  <2> HIDE DEF entry
  <2> QED BY <2>1, <2>2, <2>3, Zenon DEF RegistryInv
<1>8. SuTypeOK'
  <2>1. \A e \in suSeen' : e.at \in Nat
    BY <1>2, <1>3, <1>4, SMTT(30) DEF SuInv, SuTypeOK
  <2>2. \A u \in suUsed' : u.when \in Nat /\ u.until \in Nat /\ u.ahead \in Nat
    BY <1>2, <1>4, <1>5, Zenon DEF SuInv, SuTypeOK
  <2> QED BY <1>1, <2>1, <2>2, Zenon DEF SuInv, SuTypeOK
<1>9. CounterInv'
  BY <1>1, Zenon DEF CounterInv
<1>10. HonouredOnce'
  <2>1. \A v \in suUsed : Once(v)
    BY Zenon DEF SuInv, HonouredOnce, Once
  <2>2. ASSUME \A e \in kept : e.n # q.n PROVE Once(new)
    <3>1. ASSUME NEW u \in new.past PROVE new.when - u.when > NonceTTL - MaxLate /\ (suKind = "agent" => new.when > u.end)
      <4>1. PICK w \in suUsed : w.n = q.n /\ u = [when |-> w.when, end |-> w.until - w.ahead]
        BY <1>5, <3>1, Zenon
      <4>2. Expired(w)
        BY <1>6, <2>2, <4>1, Zenon
      <4>3. u.when = w.when /\ u.end = w.until - w.ahead
        BY <4>1, Zenon
      <4> QED BY <1>5, <4>2, <4>3, Zenon DEF Expired
    <3> QED BY <1>5, <3>1, Zenon DEF Once
  <2>3. \A v \in suUsed' : Once(v)
    BY <1>4, <2>1, <2>2, Zenon
  <2> QED BY <1>1, <2>3, Zenon DEF HonouredOnce, Once
<1> QED BY <1>7, <1>8, <1>9, <1>10, Zenon DEF SuInv

\* What is honoured without the registry.
LEMMA SuUnnamed ==
  ASSUME SuInv, NEW q \in suReq, NEW until \in Nat, NEW ahead \in Nat, suKind # "webauthn",
         HonourUnnamed(until, ahead), Done(q), suKind = "agent" => suNow <= until + SigSkew + MaxLate
  PROVE  SuInv'
<1> DEFINE new == [n |-> NoNonce, when |-> suNow, until |-> until, ahead |-> ahead, past |-> {}]
<1>1. /\ UNCHANGED <<suKind, suNow, suCount, suSeen>> /\ suReq' \subseteq suReq
      /\ \A u \in suUsed' : u \in suUsed \/ u = new
  BY Zenon DEF Done, HonourUnnamed
<1>2. new.n = NoNonce /\ new.when = suNow /\ new.until = until /\ new.ahead = ahead
  BY Zenon
<1> HIDE DEF new
<1>3. SuTypeOK'
  BY <1>1, <1>2, Zenon DEF SuInv, SuTypeOK
<1>4. RegistryInv' /\ CounterInv'
  BY <1>1, <1>2, Zenon DEF SuInv, RegistryInv, StillSeen, Expired, CounterInv
<1>5. HonouredOnce'
  <2>1. Once(new)
    BY <1>2, Zenon DEF Once
  <2>2. \A v \in suUsed : Once(v)
    BY Zenon DEF SuInv, HonouredOnce, Once
  <2> QED BY <1>1, <2>1, <2>2, Zenon DEF HonouredOnce, Once
<1> QED BY <1>3, <1>4, <1>5, Zenon DEF SuInv

\* A request that is answered without the registry.
LEMMA SuAnswers ==
  ASSUME SuInv, NEW q \in suReq, Done(q), UNCHANGED <<suSeen, suSwept, suUsed>>
  PROVE  SuInv'
<1>1. SuTypeOK'
  BY Zenon DEF SuInv, SuTypeOK, Done
<1>2. RegistryInv' /\ CounterInv' /\ HonouredOnce'
  BY Zenon DEF SuInv, Done, RegistryInv, StillSeen, Expired, CounterInv, HonouredOnce
<1> QED BY <1>1, <1>2, Zenon DEF SuInv

LEMMA SuStep == SuInv /\ [SingleUseNext]_suVars => SuInv'
<1> SUFFICES ASSUME SuInv, [SingleUseNext]_suVars
             PROVE  SuInv'
  BY Zenon
<1>0. SuTypeOK /\ RegistryInv /\ CounterInv /\ HonouredOnce /\ SuMaxTime + NonceTTL \in Nat
  BY SingleUseAssumption DEF SuInv
<1>1. ASSUME NEW n, BeaconArrives(n) \/ (n \in Nonces /\ (TokenArrives(n) \/ TraceArrives(n))) PROVE SuInv'
  <2>1. n \in Nonces => n # NoNonce
    BY SingleUseAssumption, Zenon
  <2>2. CASE BeaconArrives(n)
    <3>1. "beacon" \notin {"pat", "trace"} /\ 0 \in Nat
      OBVIOUS
    <3> QED BY <2>2, <3>1, SuCalls, Zenon DEF BeaconArrives
  <2>3. CASE n \in Nonces /\ (TokenArrives(n) \/ TraceArrives(n))
    <3>1. 0 \in Nat
      OBVIOUS
    <3> QED BY <2>1, <2>3, <3>1, SuCalls, Zenon DEF TokenArrives, TraceArrives
  <2> QED BY <1>1, <2>2, <2>3, Zenon
<1>2. ASSUME NEW n, NEW created \in SigCreated, NEW expires \in SigExpires, AgentArrives(n, created, expires) PROVE SuInv'
  <2>1. "agent" \notin {"pat", "trace"}
    OBVIOUS
  <2> QED BY <1>2, <2>1, SuCalls, SingleUseAssumption, Zenon DEF AgentArrives
<1>3. ASSUME NEW q \in suReq, RejectBeaconReplay(q) PROVE SuInv'
  <2>1. suKind = "beacon" /\ suKind # "webauthn" /\ suKind # "agent" /\ Done(q)
    BY <1>3 DEF RejectBeaconReplay
  <2>2. CASE q.n = NoNonce
    BY <1>0, <1>3, <2>1, <2>2, SuUnnamed, Zenon DEF RejectBeaconReplay
  <2>3. CASE q.n # NoNonce
    <3>1. Consume(q.n, q.at, SuMaxTime + NonceTTL, 0)
      BY <1>3, <2>3, Zenon DEF RejectBeaconReplay
    <3> QED BY <1>0, <2>1, <2>3, <3>1, SuConsumes, Zenon
  <2> QED BY <2>2, <2>3, Zenon
<1>4. ASSUME NEW q \in suReq, VerifyPrivateToken(q) \/ ReserveTrace(q) PROVE SuInv'
  <2>1. suKind # "webauthn" /\ suKind # "agent" /\ Consume(q.n, q.at, SuMaxTime + NonceTTL, 0) /\ Done(q)
    BY <1>4 DEF VerifyPrivateToken, ReserveTrace
  <2>2. q.n # NoNonce
    BY <1>0, <1>4 DEF SuTypeOK, VerifyPrivateToken, ReserveTrace
  <2> QED BY <1>0, <2>1, <2>2, SuConsumes, Zenon
<1>5. ASSUME NEW q \in suReq, VerifyAgent(q) PROVE SuInv'
  <2> DEFINE until == DeclaredEnd(q.created, q.expires)
             ahead == Ahead(q.created, q.at)
             fresh == FreshSignature(q.created, q.expires, q.at)
  <2>1. /\ Done(q)
        /\ \/ ~fresh /\ UNCHANGED <<suSeen, suSwept, suUsed>>
           \/ fresh /\ q.n = NoNonce /\ HonourUnnamed(until, ahead)
           \/ fresh /\ q.n # NoNonce /\ Consume(q.n, q.at, until, ahead)
    BY <1>5, Zenon DEF VerifyAgent
  <2>2. suKind # "webauthn"
    BY <1>5 DEF VerifyAgent
  <2>3. q.created \in Nat /\ q.expires \in Nat /\ q.at \in Nat /\ suNow \in Nat /\ q.at <= suNow /\ suNow - q.at <= MaxLate
    BY <1>0, Zenon DEF SuTypeOK
  <2>4. until \in Nat /\ ahead \in Nat
    BY <2>3, SingleUseAssumption DEF DeclaredEnd, Ahead, MaxLifetime
  <2>5. fresh => until - ahead <= q.at + NonceTTL
    BY <2>3, SingleUseAssumption DEF DeclaredEnd, Ahead, MaxLifetime, FreshSignature
  <2>6. fresh => q.at <= until + SigSkew
    BY <2>3, SingleUseAssumption DEF DeclaredEnd, MaxLifetime, FreshSignature
  <2> HIDE DEF until, ahead, fresh
  <2>7. fresh => suNow <= until + SigSkew + MaxLate
    BY <2>3, <2>4, <2>6, SingleUseAssumption
  <2>8. CASE ~fresh /\ UNCHANGED <<suSeen, suSwept, suUsed>>
    BY <2>1, <2>8, SuAnswers, Zenon
  <2>9. CASE fresh /\ q.n = NoNonce /\ HonourUnnamed(until, ahead)
    BY <2>1, <2>2, <2>4, <2>7, <2>9, SuUnnamed, Zenon
  <2>10. CASE fresh /\ q.n # NoNonce /\ Consume(q.n, q.at, until, ahead)
    BY <2>1, <2>2, <2>4, <2>5, <2>7, <2>10, SuConsumes, Zenon
  <2> QED BY <2>1, <2>8, <2>9, <2>10, Zenon
<1>6. ASSUME NEW counter \in SuCounters, VerifyAssertion(counter) PROVE SuInv'
  <2> DEFINE new == Honoured(counter, SuMaxTime + NonceTTL, 0)
  <2>1. /\ suKind = "webauthn" /\ counter \in Nat /\ counter > suCount /\ suCount' = counter
        /\ suUsed' = suUsed \cup {new} /\ UNCHANGED <<suKind, suNow, suSeen, suReq>>
    BY <1>6, SingleUseAssumption, Zenon DEF VerifyAssertion
  <2>2. /\ new.n = counter /\ new.when = suNow /\ new.until = SuMaxTime + NonceTTL /\ new.ahead = 0
        /\ new.past = {[when |-> u.when, end |-> u.until - u.ahead] : u \in {w \in suUsed : w.n = counter}}
    BY Zenon DEF Honoured, Past
  <2> HIDE DEF new
  <2>3. SuTypeOK'
    BY <1>0, <2>1, <2>2 DEF SuTypeOK
  <2>4. suCount \in Nat /\ \A u \in suUsed : u.n \in Nat /\ u.n <= suCount
    BY <1>0, <2>1, Zenon DEF CounterInv, SuTypeOK
  <2>5. CounterInv'
    <3>1. \A u \in suUsed' : u.n \in Nat /\ u.n <= suCount'
      BY <2>1, <2>2, <2>4
    <3> QED BY <3>1, Zenon DEF CounterInv
  <2>6. HonouredOnce'
    <3>1. \A w \in suUsed : w.n # counter
      BY <2>1, <2>4
    <3>2. new.past = {}
      BY <2>2, <3>1, Zenon
    <3>3. suKind # "agent"
      BY <2>1
    <3>4. Once(new)
      BY <3>2, <3>3, Zenon DEF Once
    <3>5. \A v \in suUsed : Once(v)
      BY <1>0, Zenon DEF HonouredOnce, Once
    <3> QED BY <2>1, <3>4, <3>5, Zenon DEF HonouredOnce, Once
  <2> QED BY <2>1, <2>3, <2>5, <2>6, Zenon DEF SuInv, RegistryInv
<1>7. CASE SingleUseTick
  <2>1. suNow' = suNow + 1 /\ UNCHANGED <<suKind, suSeen, suCount, suReq, suUsed>> /\ \A q \in suReq : suNow - q.at < MaxLate
    BY <1>7, Zenon DEF SingleUseTick
  <2>2. SuTypeOK'
    BY <1>0, <2>1, SingleUseAssumption DEF SuTypeOK
  <2>3. RegistryInv'
    <3> SUFFICES ASSUME suKind # "webauthn", NEW u \in suUsed, u.n # NoNonce PROVE StillSeen(u)' \/ Expired(u)'
      BY <2>1, Zenon DEF RegistryInv
    <3>1. suNow \in Nat /\ u.when \in Nat /\ u.until \in Nat /\ u.ahead \in Nat
      BY <1>0, Zenon DEF SuTypeOK
    <3>2. CASE StillSeen(u)
      BY <2>1, <3>2, Zenon DEF StillSeen
    <3>3. CASE Expired(u)
      BY <2>1, <3>1, <3>3, SingleUseAssumption DEF Expired
    <3> QED BY <1>0, <3>2, <3>3, Zenon DEF RegistryInv
  <2>4. CounterInv' /\ HonouredOnce'
    BY <1>0, <2>1, Zenon DEF CounterInv, HonouredOnce
  <2> QED BY <2>2, <2>3, <2>4, Zenon DEF SuInv
<1>8. CASE UNCHANGED suVars
  BY <1>0, <1>8, Zenon DEF suVars, SuInv, SuTypeOK, RegistryInv, StillSeen, Expired, CounterInv, HonouredOnce
<1> QED
  BY <1>1, <1>2, <1>3, <1>4, <1>5, <1>6, <1>7, <1>8, Zenon DEF SingleUseNext

\* Whatever the retention, the cap, the skew and the number of callers that read
\* the clock before they had the lock: nothing consumed is honoured again inside
\* its window, no assertion twice, no signature with a nonce twice in its life, and
\* none at all after it.
THEOREM HonouredOnceAlways == SingleUseSpec => []HonouredOnce
<1>1. SuInv => HonouredOnce
  BY Zenon DEF SuInv
<1> QED BY <1>1, SuInitially, SuStep, PTL DEF SingleUseSpec

-----------------------------------------------------------------------------
(***************************************************************************)
(* The Pass challenge: what a solve has paid, and how often it is attempted. *)
(***************************************************************************)
(* The placement arithmetic *)

\* Every row of every difficulty has exactly one offset inside its width that the
\* verifier accepts, the one SolutionOffsets computes: no instance is unsolvable
\* and none can be passed by a second placement (Verify, SolutionOffsets, dims).
THEOREM OneSolution ==
  ASSUME NEW difficulty \in Int, NEW key \in Int, NEW offset \in Int
  PROVE  LET b == dims(difficulty) IN
           offset \in 0..(b.n - 1) =>
             (Aligned(key, offset, b.n, b.center) <=> offset = SolutionOffset(key, b.n, b.center))
<1>1. \/ dims(difficulty) = [n |-> 9, center |-> 4]
      \/ dims(difficulty) = [n |-> 11, center |-> 5]
      \/ dims(difficulty) = [n |-> 13, center |-> 6]
      \/ dims(difficulty) = [n |-> 15, center |-> 7]
  BY DEF dims
<1>2. offset \in 0..8 => ((key + offset) % 9 = 4 <=> offset = (4 - key) % 9)
  OBVIOUS
<1>3. offset \in 0..10 => ((key + offset) % 11 = 5 <=> offset = (5 - key) % 11)
  OBVIOUS
<1>4. offset \in 0..12 => ((key + offset) % 13 = 6 <=> offset = (6 - key) % 13)
  OBVIOUS
<1>5. offset \in 0..14 => ((key + offset) % 15 = 7 <=> offset = (7 - key) % 15)
  OBVIOUS
<1>6. CASE dims(difficulty) = [n |-> 9, center |-> 4]
  BY <1>2, <1>6 DEF Aligned, SolutionOffset
<1>7. CASE dims(difficulty) = [n |-> 11, center |-> 5]
  BY <1>3, <1>7 DEF Aligned, SolutionOffset
<1>8. CASE dims(difficulty) = [n |-> 13, center |-> 6]
  BY <1>4, <1>8 DEF Aligned, SolutionOffset
<1>9. CASE dims(difficulty) = [n |-> 15, center |-> 7]
  BY <1>5, <1>9 DEF Aligned, SolutionOffset
<1> QED
  BY <1>1, <1>6, <1>7, <1>8, <1>9, Zenon

\* A riskier session never gets an easier placement or less work, and both stay
\* inside their ranges whatever score and velocity are measured (passDifficulty,
\* handlePassNew).
THEOREM DifficultyMonotone ==
  ASSUME NEW r1 \in Int, NEW r2 \in Int, NEW v1 \in Nat, NEW v2 \in Nat, r1 <= r2, v1 <= v2
  PROVE  /\ passDifficulty(r1) \in 0..3 /\ passDifficulty(r1) <= passDifficulty(r2)
         /\ powDifficulty(passDifficulty(r1), v1) \in 14..20
         /\ powDifficulty(passDifficulty(r1), v1) <= powDifficulty(passDifficulty(r2), v2)
<1>1. passDifficulty(r1) \in 0..3 /\ passDifficulty(r2) \in 0..3 /\ passDifficulty(r1) <= passDifficulty(r2)
  BY DEF passDifficulty
<1> QED
  BY <1>1 DEF powDifficulty

-----------------------------------------------------------------------------
(* The invariant                                                               *)

SessType == [nonce : Nat, bucket : Nat, tries : Nat, solved : BOOLEAN, powOK : BOOLEAN, attest : BOOLEAN]

ReqType ==
  {PaIdle} \cup [pc : {"new"}, nonce : Nat, at : Nat, flagged : BOOLEAN] \cup [pc : {"pow"}, nonce : Nat]
  \cup [pc : {"solve"}, at : Nat, nonce : Nat, bucket : Nat, powOK : BOOLEAN, attest : BOOLEAN]
  \cup [pc : {"grant"}, nonce : Nat, trace : PaTraces, at : Nat]

Typed ==
  /\ paNow \in Nat /\ paMinted \in 0..PaMaxMinted
  /\ paSess \in SessType /\ paReq \in [PaHandlers -> ReqType]
  /\ paTried \in [Instances -> Nat]
  /\ paGrants \subseteq [nonce : Nat, trace : PaTraces, at : Nat] /\ paNeeds \subseteq Nat
  /\ \A e \in paUsed : e.at \in Nat

\* A nonce that /new has minted and not yet installed is nobody else's.
Unknown(n) ==
  /\ n # paSess.nonce /\ n \notin paNeeds
  /\ \A g \in paGrants : g.nonce # n
  /\ n \in Instances => paTried[n] = 0

Minting ==
  /\ \A n \in Nat : n > paMinted =>
       Unknown(n) /\ \A h \in PaHandlers : ~PaAt(h, "idle") => paReq[h].nonce # n
  /\ NoInstance \notin paNeeds
  /\ \A h \in PaHandlers : PaAt(h, "new") =>
       /\ paReq[h].nonce # NoInstance /\ Unknown(paReq[h].nonce)
       /\ \A g \in PaHandlers : g # h /\ ~PaAt(g, "idle") => paReq[g].nonce # paReq[h].nonce

\* Whoever is past the crypto axis has paid for the nonce they hold.
Paid ==
  /\ paSess.powOK => paSess.nonce \in paPaid
  /\ \A h \in PaHandlers :
       /\ PaAt(h, "pow") \/ PaAt(h, "grant") => paReq[h].nonce \in paPaid
       /\ PaAt(h, "solve") /\ paReq[h].powOK => paReq[h].nonce \in paPaid
  /\ \A g \in paGrants : g.nonce \in paPaid

\* Whoever holds a nonce that demands a token knows it, and has it once granted.
HasToken(n) == \E t \in paTokens : t.nonce = n
Attested ==
  /\ paSess.nonce \in paNeeds => paSess.attest
  /\ \A h \in PaHandlers :
       /\ PaAt(h, "solve") /\ paReq[h].nonce \in paNeeds => paReq[h].attest
       /\ PaAt(h, "grant") /\ paReq[h].nonce \in paNeeds => HasToken(paReq[h].nonce)
  /\ \A g \in paGrants : g.nonce \in paNeeds => HasToken(g.nonce)

\* The session's counter is that of its instance.
Tried ==
  /\ paSess.tries <= PassMaxTries
  /\ paSess.nonce \in Instances => paTried[paSess.nonce] = paSess.tries
  /\ \A i \in Instances : paTried[i] <= PassMaxTries

\* A reserved trace belongs to one grant, given or about to be given: it is in the
\* registry, or its window has passed.
Held(trace, at) == (\E e \in paUsed : e.trace = trace /\ e.at = at) \/ paNow - at > PaTraceTTL
Reserved ==
  /\ \A g \in paGrants : Held(g.trace, g.at)
  /\ \A g1, g2 \in paGrants : g1.trace = g2.trace => g1 = g2 \/ Apart(g1.at, g2.at)
  /\ \A h \in PaHandlers : PaAt(h, "grant") =>
       /\ Held(paReq[h].trace, paReq[h].at)
       /\ \A g \in paGrants : g.trace = paReq[h].trace => Apart(g.at, paReq[h].at)
       /\ \A k \in PaHandlers : k # h /\ PaAt(k, "grant") /\ paReq[k].trace = paReq[h].trace
                                => Apart(paReq[k].at, paReq[h].at)
  /\ paSess.solved => paGrants # {}

PassInv == Typed /\ Minting /\ Paid /\ Attested /\ Tried /\ Reserved

LEMMA PassInitInv == PassInit => PassInv
<1> SUFFICES ASSUME PassInit PROVE PassInv
  BY Zenon
<1>1. Typed
  BY PassAssumption, SMTT(30) DEF PassInit, Typed, SessType, ReqType, FreshSession, NoInstance, Instances
<1>2. Minting
  BY SMTT(30) DEF PassInit, Minting, Unknown, FreshSession, NoInstance, PaAt, PaIdle
<1>3. Paid /\ Attested /\ Tried /\ Reserved
  BY PassAssumption DEF PassInit, Paid, Attested, Tried, Reserved, FreshSession, PaAt, PaIdle
<1> QED
  BY <1>1, <1>2, <1>3, Zenon DEF PassInv

LEMMA Moved ==
  ASSUME Typed, NEW h \in PaHandlers, NEW r \in ReqType, PaGoto(h, r)
  PROVE  /\ paReq' \in [PaHandlers -> ReqType]
         /\ paReq'[h] = r /\ \A g \in PaHandlers : g # h => paReq'[g] = paReq[g]
  BY Zenon DEF Typed, PaGoto

\* The step of a request tells what it holds.
LEMMA ReqKinds ==
  ASSUME NEW q \in ReqType
  PROVE  /\ q.pc # "idle" => q.nonce \in Nat
         /\ q.pc = "new" => q.at \in Nat /\ q.flagged \in BOOLEAN
         /\ q.pc = "grant" => q.trace \in PaTraces /\ q.at \in Nat
<1>1. CASE q = PaIdle
  <2>1. q.pc = "idle"
    BY <1>1, Zenon DEF PaIdle
  <2> QED BY <2>1
<1>2. CASE q \in [pc : {"new"}, nonce : Nat, at : Nat, flagged : BOOLEAN]
  <2>1. q.pc = "new" /\ q.nonce \in Nat /\ q.at \in Nat /\ q.flagged \in BOOLEAN
    BY <1>2, Zenon
  <2> QED BY <2>1, Zenon
<1>3. CASE q \in [pc : {"pow"}, nonce : Nat]
  <2>1. q.pc = "pow" /\ q.nonce \in Nat
    BY <1>3, Zenon
  <2> QED BY <2>1, Zenon
<1>4. CASE q \in [pc : {"solve"}, at : Nat, nonce : Nat, bucket : Nat, powOK : BOOLEAN, attest : BOOLEAN]
  <2>1. q.pc = "solve" /\ q.nonce \in Nat
    BY <1>4, Zenon
  <2> QED BY <2>1, Zenon
<1>5. CASE q \in [pc : {"grant"}, nonce : Nat, trace : PaTraces, at : Nat]
  <2>1. q.pc = "grant" /\ q.nonce \in Nat /\ q.trace \in PaTraces /\ q.at \in Nat
    BY <1>5, Zenon
  <2> QED BY <2>1, Zenon
<1> QED BY <1>1, <1>2, <1>3, <1>4, <1>5, Zenon DEF ReqType

LEMMA IdleType == PaIdle \in ReqType /\ PaIdle.pc = "idle"
  BY Zenon DEF ReqType, PaIdle

\* A step that mints nothing, and in which a request holds on to its nonce, comes to
\* rest or takes up the session's, keeps what is known of the nonces.
LEMMA MintingKept ==
  ASSUME Minting, paMinted' = paMinted, paNeeds' = paNeeds,
         \A n : Unknown(n) /\ (\A g \in PaHandlers : PaAt(g, "grant") => paReq[g].nonce # n) => Unknown(n)',
         \A g \in PaHandlers : \/ PaAt(g, "idle")'
                               \/ ~PaAt(g, "idle") /\ paReq'[g].nonce = paReq[g].nonce
                               \/ paReq'[g].nonce = paSess.nonce,
         \A g \in PaHandlers : PaAt(g, "new")' => PaAt(g, "new") /\ paReq'[g].nonce = paReq[g].nonce
  PROVE  Minting'
<1>1. \A g \in PaHandlers : PaAt(g, "grant") \/ PaAt(g, "new") => ~PaAt(g, "idle")
  BY Zenon DEF PaAt
<1>2. ASSUME NEW n \in Nat, n > paMinted'
      PROVE  Unknown(n)' /\ \A h \in PaHandlers : ~PaAt(h, "idle")' => paReq'[h].nonce # n
  <2>1. Unknown(n) /\ \A h \in PaHandlers : ~PaAt(h, "idle") => paReq[h].nonce # n
    BY <1>2, Zenon DEF Minting
  <2>2. n # paSess.nonce
    BY <2>1, Zenon DEF Unknown
  <2> QED BY <1>1, <2>1, <2>2, Zenon
<1>3. ASSUME NEW h \in PaHandlers, PaAt(h, "new")'
      PROVE  /\ paReq'[h].nonce # NoInstance /\ Unknown(paReq[h].nonce)'
             /\ \A g \in PaHandlers : g # h /\ ~PaAt(g, "idle")' => paReq'[g].nonce # paReq'[h].nonce
  <2>1. PaAt(h, "new") /\ paReq'[h].nonce = paReq[h].nonce
    BY <1>3, Zenon
  <2>2. /\ paReq[h].nonce # NoInstance /\ Unknown(paReq[h].nonce)
        /\ \A g \in PaHandlers : g # h /\ ~PaAt(g, "idle") => paReq[g].nonce # paReq[h].nonce
    BY <2>1, Zenon DEF Minting
  <2>3. paReq[h].nonce # paSess.nonce
    BY <2>2, Zenon DEF Unknown
  <2>4. \A g \in PaHandlers : PaAt(g, "grant") => paReq[g].nonce # paReq[h].nonce
    <3>1. ~PaAt(h, "grant")
      BY <2>1, Zenon DEF PaAt
    <3> QED BY <1>1, <2>2, <3>1, Zenon
  <2>5. \A n : n = paReq[h].nonce => Unknown(n)'
    BY <2>2, <2>4, Zenon
  <2> QED BY <2>1, <2>2, <2>3, <2>5, Zenon DEF Unknown
<1> QED BY <1>2, <1>3, Zenon DEF Minting

\* What is granted or about to be is held, and their times are apart: all of them as
\* they were, when what is held still is.
LEMMA ReservedKept ==
  ASSUME Reserved, paGrants' = paGrants, paSess'.solved => paSess.solved,
         \A t : \A at \in Nat : Held(t, at) => Held(t, at)', Typed,
         \A g \in PaHandlers : PaAt(g, "grant")' => PaAt(g, "grant") /\ paReq'[g] = paReq[g]
  PROVE  Reserved'
<1>1. ASSUME NEW g \in paGrants' PROVE Held(g.trace, g.at)'
  <2>1. g.at \in Nat /\ Held(g.trace, g.at)
    BY Zenon DEF Reserved, Typed
  <2> QED BY <2>1, Zenon
<1>2. ASSUME NEW h \in PaHandlers, PaAt(h, "grant")', NEW r, r = paReq[h]
      PROVE  /\ PaAt(h, "grant") /\ paReq'[h] = r /\ Held(r.trace, r.at)'
             /\ \A g \in paGrants' : g.trace = r.trace => Apart(g.at, r.at)
             /\ \A k \in PaHandlers : k # h /\ PaAt(k, "grant")' /\ paReq'[k].trace = r.trace
                                      => Apart(paReq'[k].at, r.at)
  <2>1. PaAt(h, "grant") /\ paReq'[h] = r
    BY <1>2, Zenon
  <2>2. r.at \in Nat
    BY <1>2, <2>1, ReqKinds, Zenon DEF Typed, PaAt
  <2>3. Held(r.trace, r.at)
    BY <1>2, <2>1, Zenon DEF Reserved
  <2>4. Held(r.trace, r.at)'
    BY <2>2, <2>3, Zenon
  <2> QED BY <1>2, <2>1, <2>4, Zenon DEF Reserved
<1> QED BY <1>1, <1>2, Zenon DEF Reserved

\* The registry, or the clock alone.
LEMMA HeldKept ==
  ASSUME Typed, paUsed \subseteq paUsed', paNow' \in Nat, paNow <= paNow', NEW t, NEW at \in Nat, Held(t, at)
  PROVE  Held(t, at)'
<1>1. paNow \in Nat
  BY Zenon DEF Typed
<1>2. paNow - at > PaTraceTTL => paNow' - at > PaTraceTTL
  <2>1. PaTraceTTL \in Nat
    BY PassAssumption, Zenon
  <2>2. \A s, u, a, n \in Nat : s <= u /\ s - a > n => u - a > n
    OBVIOUS
  <2> QED BY <1>1, <2>1, <2>2, Zenon
<1> QED BY <1>2, Zenon DEF Held

LEMMA HeldStill ==
  ASSUME UNCHANGED <<paUsed, paNow>> PROVE \A t : \A at \in Nat : Held(t, at) => Held(t, at)'
  BY Zenon DEF Held

\* /new mints a nonce that exists nowhere.
LEMMA NewBeginsInv ==
  ASSUME PassInv, NEW h \in PaHandlers, PassNewBegins(h) PROVE PassInv'
<1> USE DEF PassInv
<1>1. PICK flagged \in BOOLEAN : PaGoto(h, [pc |-> "new", nonce |-> paMinted + 1, at |-> paNow, flagged |-> flagged])
  BY Zenon DEF PassNewBegins
<1>2. [pc |-> "new", nonce |-> paMinted + 1, at |-> paNow, flagged |-> flagged] \in ReqType
  BY DEF Typed, ReqType
<1>3. /\ paReq' \in [PaHandlers -> ReqType]
      /\ paReq'[h] = [pc |-> "new", nonce |-> paMinted + 1, at |-> paNow, flagged |-> flagged]
      /\ \A g \in PaHandlers : g # h => paReq'[g] = paReq[g]
  BY <1>1, <1>2, Moved, Zenon
<1>4. /\ paMinted' = paMinted + 1 /\ paMinted < PaMaxMinted
      /\ UNCHANGED <<paNow, paSess, paTokens, paUsed, paNeeds, paPaid, paTried, paGrants>>
  BY Zenon DEF PassNewBegins
<1>5. Typed'
  BY <1>3, <1>4, PassAssumption DEF Typed
<1>6. Minting'
  <2>1. Unknown(paMinted)' /\ \A g \in PaHandlers : ~PaAt(g, "idle") => paReq[g].nonce # paMinted'
    BY <1>4, SMTT(30) DEF Minting, Unknown, Typed
  <2>2. \A n \in Nat : n > paMinted' => Unknown(n)' /\ \A g \in PaHandlers : ~PaAt(g, "idle")' => paReq'[g].nonce # n
    BY <1>3, <1>4 DEF Minting, Unknown, PaAt, Typed
  <2>3. ASSUME NEW k \in PaHandlers, PaAt(k, "new")'
        PROVE  /\ paReq'[k].nonce # NoInstance /\ Unknown(paReq[k].nonce)'
               /\ \A g \in PaHandlers : g # k /\ ~PaAt(g, "idle")' => paReq'[g].nonce # paReq'[k].nonce
    <3>1. CASE k = h
      <4>1. paReq'[k].nonce = paMinted' /\ paMinted' # NoInstance
        BY <1>3, <1>4, <3>1, SMTT(30) DEF NoInstance, Typed
      <4> QED
        BY <1>3, <2>1, <3>1, <4>1, Zenon DEF PaAt, Unknown
    <3>2. CASE k # h
      BY <1>3, <1>4, <2>1, <2>3, <3>2, SMTT(30) DEF Minting, Unknown, PaAt, Typed
    <3> QED
      BY <3>1, <3>2, Zenon
  <2> QED
    BY <1>4, <2>2, <2>3, Zenon DEF Minting
<1>7. Paid' /\ Attested' /\ Tried'
  <2>1. paReq'[h].pc = "new"
    BY ONLY <1>3
  <2>2. ASSUME NEW g \in PaHandlers, NEW pc \in {"pow", "solve", "grant"}, PaAt(g, pc)'
        PROVE  paReq'[g] = paReq[g] /\ PaAt(g, pc)
    <3>1. g # h
      BY <2>1, <2>2, Zenon DEF PaAt
    <3> QED BY <1>3, <2>2, <3>1, Zenon DEF PaAt
  <2>3. Paid'
    BY <1>4, <2>2, Zenon DEF Paid
  <2>4. Attested'
    <3>1. ASSUME NEW g \in PaHandlers, PaAt(g, "solve")', paReq'[g].nonce \in paNeeds' PROVE paReq'[g].attest
      BY <1>4, <2>2, <3>1, Zenon DEF Attested
    <3>2. ASSUME NEW g \in PaHandlers, PaAt(g, "grant")', paReq'[g].nonce \in paNeeds'
          PROVE  HasToken(paReq[g].nonce)'
      <4>1. paReq'[g] = paReq[g] /\ HasToken(paReq[g].nonce)
        BY <1>4, <2>2, <3>2, Zenon DEF Attested
      <4> QED BY <1>4, <4>1, Zenon DEF HasToken
    <3>3. \A n : HasToken(n) => HasToken(n)'
      BY <1>4, Zenon DEF HasToken
    <3>4. \A g \in paGrants' : g.nonce \in paNeeds' => HasToken(g.nonce)'
      BY <1>4, <3>3, Zenon DEF Attested
    <3>5. paSess'.nonce \in paNeeds' => paSess'.attest
      BY <1>4, Zenon DEF Attested
    <3> QED BY <3>1, <3>2, <3>4, <3>5, Zenon DEF Attested
  <2>5. Tried'
    BY <1>4, Zenon DEF Tried
  <2> QED BY <2>3, <2>4, <2>5, Zenon
<1>8. Reserved'
  <2>1. \A g \in PaHandlers : PaAt(g, "grant")' => PaAt(g, "grant") /\ paReq'[g] = paReq[g]
    <3>1. paReq'[h].pc = "new"
      BY ONLY <1>3
    <3>2. ~PaAt(h, "grant")'
      BY <3>1 DEF PaAt
    <3> QED BY <1>3, <3>2, Zenon DEF PaAt
  <2> QED BY <1>4, <2>1, ReservedKept, HeldStill, Zenon
<1> QED
  BY <1>5, <1>6, <1>7, <1>8, Zenon

\* /new installs its nonce; nobody has paid, tried or solved anything under it.
LEMMA NewInv ==
  ASSUME PassInv, NEW h \in PaHandlers, handlePassNew(h) PROVE PassInv'
<1> USE DEF PassInv
<1> DEFINE r == paReq[h]
<1>1. /\ paReq' \in [PaHandlers -> ReqType]
      /\ paReq'[h] = PaIdle /\ \A g \in PaHandlers : g # h => paReq'[g] = paReq[g]
  BY Moved, IdleType, Zenon DEF handlePassNew
<1>2. /\ r.pc = "new" /\ r.nonce \in Nat /\ r.at \in Nat /\ r.flagged \in BOOLEAN
  <2>1. r.pc = "new" /\ r \in ReqType
    BY Zenon DEF handlePassNew, PaAt, Typed
  <2> QED BY <2>1, ReqKinds, Zenon
<1>3. /\ paSess' = [nonce |-> r.nonce, bucket |-> r.at, tries |-> 0, solved |-> FALSE, powOK |-> FALSE, attest |-> r.flagged]
      /\ paNeeds' = IF r.flagged THEN paNeeds \cup {r.nonce} ELSE paNeeds
      /\ UNCHANGED <<paNow, paMinted, paTokens, paUsed, paPaid, paTried, paGrants>>
  BY Zenon DEF handlePassNew
<1>4. /\ r.nonce # NoInstance /\ Unknown(r.nonce)
      /\ \A g \in PaHandlers : g # h /\ ~PaAt(g, "idle") => paReq[g].nonce # r.nonce
      /\ r.nonce <= paMinted
  BY <1>2 DEF Minting, PaAt, Typed
<1> HIDE DEF r
<1>5. Typed'
  BY <1>1, <1>2, <1>3, Zenon DEF Typed, SessType
<1>6. Minting'
  <2>1. ASSUME NEW n \in Nat, Unknown(n), n # r.nonce PROVE Unknown(n)'
    BY <1>3, <2>1, Zenon DEF Unknown
  <2>2. ASSUME NEW n \in Nat, n > paMinted'
        PROVE  Unknown(n)' /\ \A g \in PaHandlers : ~PaAt(g, "idle")' => paReq'[g].nonce # n
    BY <1>1, <1>3, <1>4, <2>1, <2>2, IdleType DEF Minting, PaAt, Typed
  <2>3. ASSUME NEW k \in PaHandlers, PaAt(k, "new")'
        PROVE  /\ paReq'[k].nonce # NoInstance /\ Unknown(paReq[k].nonce)'
               /\ \A g \in PaHandlers : g # k /\ ~PaAt(g, "idle")' => paReq'[g].nonce # paReq'[k].nonce
    <3>1. k # h /\ paReq'[k] = paReq[k] /\ PaAt(k, "new")
      BY <1>1, <2>3, IdleType, Zenon DEF PaAt
    <3>2. paReq[k].nonce # r.nonce /\ paReq[k].nonce # NoInstance /\ Unknown(paReq[k].nonce) /\ paReq[k].nonce \in Nat
      <4>1. ~PaAt(k, "idle") /\ paReq[k] \in ReqType
        BY <3>1, Zenon DEF PaAt, Typed
      <4>2. paReq[k].nonce \in Nat
        BY <4>1, ReqKinds, Zenon DEF PaAt
      <4> QED BY <1>4, <3>1, <4>1, <4>2, Zenon DEF Minting
    <3>3. Unknown(paReq[k].nonce)'
      BY <1>3, <3>1, <3>2, Zenon DEF Unknown
    <3> QED
      BY <1>1, <3>1, <3>2, <3>3, IdleType, ZenonT(30) DEF Minting, PaAt
  <2>4. NoInstance \notin paNeeds'
    BY <1>3, <1>4, Zenon DEF Minting
  <2> QED
    BY <2>2, <2>3, <2>4, Zenon DEF Minting
<1>7. Paid'
  BY <1>1, <1>3, IdleType, Zenon DEF Paid, PaAt
<1>8. Attested'
  <2>1. paSess'.nonce = r.nonce /\ paSess'.attest = r.flagged
    BY <1>3, Zenon
  <2>2. \A n : n \in paNeeds' => n \in paNeeds \/ (n = r.nonce /\ r.flagged)
    BY <1>3, Zenon
  <2>3. \A n : HasToken(n) => HasToken(n)'
    BY <1>3, Zenon DEF HasToken
  <2>4. r.nonce \notin paNeeds /\ \A g \in paGrants : g.nonce # r.nonce
    BY <1>4, Zenon DEF Unknown
  <2>5. ASSUME NEW g \in PaHandlers, PaAt(g, "solve")' \/ PaAt(g, "grant")', paReq'[g].nonce \in paNeeds'
        PROVE  /\ paReq'[g] = paReq[g] /\ paReq[g].nonce \in paNeeds
               /\ (PaAt(g, "solve") <=> PaAt(g, "solve")') /\ (PaAt(g, "grant") <=> PaAt(g, "grant")')
    <3>1. g # h
      BY <1>1, <2>5, IdleType, Zenon DEF PaAt
    <3>2. paReq'[g] = paReq[g] /\ ~PaAt(g, "idle")
      BY <1>1, <2>5, <3>1, Zenon DEF PaAt
    <3>3. paReq[g].nonce # r.nonce
      BY <1>4, <3>1, <3>2, Zenon
    <3>4. paReq[g].nonce \in paNeeds'
      BY <2>5, <3>2, Zenon
    <3>5. paReq[g].nonce \in paNeeds
      BY <2>2, <3>3, <3>4, Zenon
    <3>6. (PaAt(g, "solve") <=> PaAt(g, "solve")') /\ (PaAt(g, "grant") <=> PaAt(g, "grant")')
      BY <3>2, Zenon DEF PaAt
    <3> QED BY <3>2, <3>5, <3>6, Zenon
  <2>6. paSess'.nonce \in paNeeds' => paSess'.attest
    BY <2>1, <2>2, <2>4, Zenon
  <2>7. \A g \in paGrants' : g.nonce \in paNeeds' => HasToken(g.nonce)'
    BY <1>3, <2>2, <2>3, <2>4, Zenon DEF Attested
  <2>8. ASSUME NEW g \in PaHandlers
        PROVE  /\ PaAt(g, "solve")' /\ paReq'[g].nonce \in paNeeds' => paReq'[g].attest
               /\ PaAt(g, "grant")' /\ paReq'[g].nonce \in paNeeds' => HasToken(paReq[g].nonce)'
    <3>1. CASE (PaAt(g, "solve")' \/ PaAt(g, "grant")') /\ paReq'[g].nonce \in paNeeds'
      <4>1. /\ paReq'[g] = paReq[g] /\ paReq[g].nonce \in paNeeds
            /\ (PaAt(g, "solve") <=> PaAt(g, "solve")') /\ (PaAt(g, "grant") <=> PaAt(g, "grant")')
        BY <2>5, <3>1, Zenon
      <4>2. PaAt(g, "solve") => paReq[g].attest
        BY <4>1, Zenon DEF Attested
      <4>3. PaAt(g, "grant") => HasToken(paReq[g].nonce)
        BY <4>1, Zenon DEF Attested
      <4>4. PaAt(g, "grant") => HasToken(paReq[g].nonce)'
        BY <1>3, <4>1, <4>3, Zenon DEF HasToken
      <4> QED BY <4>1, <4>2, <4>4, Zenon
    <3> QED BY <3>1, Zenon
  <2> QED BY <2>6, <2>7, <2>8, Zenon DEF Attested
<1>9. Tried'
  <2>1. paSess'.nonce = r.nonce /\ paSess'.tries = 0
    BY <1>3, Zenon
  <2>2. 0 <= PassMaxTries
    BY ONLY PassAssumption
  <2>3. r.nonce \in Instances => paTried[r.nonce] = 0
    BY <1>4, Zenon DEF Unknown
  <2> QED BY <1>3, <2>1, <2>2, <2>3, Zenon DEF Tried
<1>10. Reserved'
  <2>1. \A g \in PaHandlers : PaAt(g, "grant")' => PaAt(g, "grant") /\ paReq'[g] = paReq[g]
    BY <1>1, IdleType, Zenon DEF PaAt
  <2>2. ~paSess'.solved
    BY <1>3, Zenon
  <2> QED BY <1>3, <2>1, <2>2, ReservedKept, HeldStill, Zenon
<1> QED
  BY <1>5, <1>6, <1>7, <1>8, <1>9, <1>10, Zenon

\* A token and the clock take nothing away.
LEMMA AttestInv ==
  ASSUME PassInv, handlePassAttest \/ PassTick PROVE PassInv'
<1> USE DEF PassInv
<1>1. /\ paTokens \subseteq paTokens' /\ paNow' \in Nat /\ paNow <= paNow'
      /\ UNCHANGED <<paSess, paReq, paMinted, paUsed, paNeeds, paPaid, paTried, paGrants>>
  BY DEF handlePassAttest, PassTick, Typed
<1>2. Typed' /\ Minting' /\ Paid' /\ Tried'
  BY <1>1, ZenonT(30) DEF Typed, Minting, Unknown, Paid, Tried, PaAt
<1>3. Attested'
  BY <1>1, Zenon DEF Attested, HasToken, PaAt
<1>4. Reserved'
  <2>1. \A t : \A at \in Nat : Held(t, at) => Held(t, at)'
    BY <1>1, HeldKept, Zenon
  <2> QED BY <1>1, <2>1, ReservedKept, Zenon DEF PaAt
<1> QED
  BY <1>2, <1>3, <1>4, Zenon

\* /pow pays for the nonce it read.
LEMMA PoWBeginsInv ==
  ASSUME PassInv, NEW h \in PaHandlers, PassPoWBegins(h) PROVE PassInv'
<1> USE DEF PassInv
<1> DEFINE r == [pc |-> "pow", nonce |-> paSess.nonce]
<1>1. r \in ReqType
  BY Zenon DEF Typed, SessType, ReqType
<1>2. /\ paReq' \in [PaHandlers -> ReqType]
      /\ paReq'[h] = r /\ \A g \in PaHandlers : g # h => paReq'[g] = paReq[g]
  BY <1>1, Moved, Zenon DEF PassPoWBegins
<1>3. /\ PaAt(h, "idle") /\ paPaid' = paPaid \cup {paSess.nonce}
      /\ UNCHANGED <<paNow, paSess, paMinted, paTokens, paUsed, paNeeds, paTried, paGrants>>
  BY Zenon DEF PassPoWBegins
<1>4. r.pc = "pow" /\ r.nonce = paSess.nonce
  BY Zenon
<1> HIDE DEF r
<1>5. Typed'
  BY <1>2, <1>3, Zenon DEF Typed
<1>6. Minting'
  <2>1. \A n : Unknown(n) => Unknown(n)'
    BY <1>3, Zenon DEF Unknown
  <2>2. \A g \in PaHandlers : PaAt(g, "new")' => PaAt(g, "new") /\ paReq'[g].nonce = paReq[g].nonce
    BY <1>2, <1>4, Zenon DEF PaAt
  <2>3. \A g \in PaHandlers : \/ PaAt(g, "idle")'
                              \/ ~PaAt(g, "idle") /\ paReq'[g].nonce = paReq[g].nonce
                              \/ paReq'[g].nonce = paSess.nonce
    BY <1>2, <1>4, Zenon DEF PaAt
  <2> QED BY <1>3, <2>1, <2>2, <2>3, MintingKept, Zenon
<1>7. Paid'
  BY <1>2, <1>3, <1>4, Zenon DEF Paid, PaAt
<1>8. Attested'
  BY <1>2, <1>3, <1>4, ZenonT(50) DEF Attested, HasToken, PaAt
<1>9. Tried'
  BY <1>3, Zenon DEF Tried
<1>10. Reserved'
  <2>1. \A g \in PaHandlers : PaAt(g, "grant")' => PaAt(g, "grant") /\ paReq'[g] = paReq[g]
    BY <1>2, <1>4, Zenon DEF PaAt
  <2> QED BY <1>3, <2>1, ReservedKept, HeldStill, Zenon
<1> QED
  BY <1>5, <1>6, <1>7, <1>8, <1>9, <1>10, Zenon

\* /pow marks the axis only if the instance is still the one it was paid for.
LEMMA PoWInv ==
  ASSUME PassInv, NEW h \in PaHandlers, handlePassPoW(h) PROVE PassInv'
<1> USE DEF PassInv
<1>1. /\ paReq' \in [PaHandlers -> ReqType]
      /\ paReq'[h] = PaIdle /\ \A g \in PaHandlers : g # h => paReq'[g] = paReq[g]
  BY Moved, IdleType, Zenon DEF handlePassPoW
<1>2. /\ paSess' \in SessType /\ paSess'.nonce = paSess.nonce /\ paSess'.tries = paSess.tries
      /\ paSess'.solved = paSess.solved /\ paSess'.attest = paSess.attest
      /\ paSess'.powOK => paSess.powOK \/ paSess.nonce = paReq[h].nonce
  BY Zenon DEF handlePassPoW, Typed, SessType, StillIssued
<1>3. /\ PaAt(h, "pow")
      /\ UNCHANGED <<paNow, paMinted, paTokens, paUsed, paNeeds, paPaid, paTried, paGrants>>
  BY Zenon DEF handlePassPoW
<1>4. Typed'
  BY <1>1, <1>2, <1>3, Zenon DEF Typed
<1>5. Minting'
  <2>1. \A n : Unknown(n) => Unknown(n)'
    BY <1>2, <1>3, Zenon DEF Unknown
  <2>2. \A g \in PaHandlers : PaAt(g, "idle")' \/ (g # h /\ paReq'[g] = paReq[g] /\ ~PaAt(g, "idle"))
    BY <1>1, IdleType, Zenon DEF PaAt
  <2>3. \A g \in PaHandlers : PaAt(g, "new")' => PaAt(g, "new") /\ paReq'[g].nonce = paReq[g].nonce
    BY <1>1, IdleType, Zenon DEF PaAt
  <2> QED BY <1>2, <1>3, <2>1, <2>2, <2>3, MintingKept, Zenon
<1>6. Paid'
  BY <1>1, <1>2, <1>3, IdleType, Zenon DEF Paid, PaAt
<1>7. Attested'
  BY <1>1, <1>2, <1>3, IdleType, ZenonT(70) DEF Attested, HasToken, PaAt
<1>8. Tried'
  BY <1>2, <1>3, Zenon DEF Tried
<1>9. Reserved'
  <2>1. \A g \in PaHandlers : PaAt(g, "grant")' => PaAt(g, "grant") /\ paReq'[g] = paReq[g]
    BY <1>1, IdleType, Zenon DEF PaAt
  <2> QED BY <1>2, <1>3, <2>1, ReservedKept, HeldStill, Zenon
<1> QED
  BY <1>4, <1>5, <1>6, <1>7, <1>8, <1>9, Zenon

\* The retry cap is checked and counted in one critical section.
LEMMA SolveBeginsInv ==
  ASSUME PassInv, NEW h \in PaHandlers, PassSolveBegins(h) PROVE PassInv'
<1> USE DEF PassInv
<1> DEFINE r == [pc |-> "solve", at |-> paNow, nonce |-> paSess.nonce, bucket |-> paSess.bucket,
                 powOK |-> paSess.powOK, attest |-> paSess.attest]
<1>1. r \in ReqType
  BY Zenon DEF Typed, SessType, ReqType
<1>2. /\ paReq' \in [PaHandlers -> ReqType]
      /\ paReq'[h] = r /\ \A g \in PaHandlers : g # h => paReq'[g] = paReq[g]
  BY <1>1, Moved, Zenon DEF PassSolveBegins
<1>3. /\ PaAt(h, "idle") /\ paSess.tries < PassMaxTries
      /\ paSess' = [paSess EXCEPT !.tries = @ + 1]
      /\ paTried' = [i \in Instances |-> IF i = paSess.nonce THEN paTried[i] + 1 ELSE paTried[i]]
      /\ UNCHANGED <<paNow, paMinted, paTokens, paUsed, paNeeds, paPaid, paGrants>>
  BY Zenon DEF PassSolveBegins, TriesLeft
<1>4. /\ paSess' \in SessType /\ paSess'.nonce = paSess.nonce /\ paSess'.tries = paSess.tries + 1
      /\ paSess'.solved = paSess.solved /\ paSess'.attest = paSess.attest /\ paSess'.powOK = paSess.powOK
  BY <1>3 DEF Typed, SessType
<1>5. /\ r.pc = "solve" /\ r.nonce = paSess.nonce /\ r.powOK = paSess.powOK /\ r.attest = paSess.attest
  BY Zenon
<1>u. UNCHANGED <<paNeeds, paPaid, paTokens, paGrants>>
  BY <1>3, Zenon
<1> HIDE DEF r
<1>6. Typed'
  BY <1>2, <1>3, <1>4, SMTT(30) DEF Typed
<1>7. Minting'
  <2>1. ASSUME NEW n, Unknown(n) PROVE /\ n # paSess'.nonce /\ n \notin paNeeds'
                                       /\ \A g \in paGrants' : g.nonce # n
                                       /\ n \in Instances => paTried'[n] = 0
    BY <1>3, <1>4, <2>1, Zenon DEF Unknown
  <2>2. \A n : Unknown(n) => Unknown(n)'
    BY <2>1, Zenon DEF Unknown
  <2>3. \A g \in PaHandlers : PaAt(g, "new")' => PaAt(g, "new") /\ paReq'[g].nonce = paReq[g].nonce
    BY <1>2, <1>5, Zenon DEF PaAt
  <2>4. \A g \in PaHandlers : \/ PaAt(g, "idle")'
                              \/ ~PaAt(g, "idle") /\ paReq'[g].nonce = paReq[g].nonce
                              \/ paReq'[g].nonce = paSess.nonce
    BY <1>2, <1>5, Zenon DEF PaAt
  <2> QED BY <1>3, <2>2, <2>3, <2>4, MintingKept, Zenon
<1>8. Tried'
  BY <1>3, <1>4, PassAssumption, SMTT(30) DEF Tried, Typed, SessType
<1>9. Paid'
  <2>1. ~PaAt(h, "pow")' /\ ~PaAt(h, "grant")'
    BY <1>2, <1>5, Zenon DEF PaAt
  <2>2. PaAt(h, "solve")' /\ paReq'[h].powOK => paReq'[h].nonce \in paPaid'
    BY <1>2, <1>u, <1>5, Zenon DEF Paid
  <2>3. \A g \in PaHandlers : g # h =>
          /\ PaAt(g, "pow")' \/ PaAt(g, "grant")' => paReq'[g].nonce \in paPaid'
          /\ PaAt(g, "solve")' /\ paReq'[g].powOK => paReq'[g].nonce \in paPaid'
    BY <1>2, <1>u, Zenon DEF Paid, PaAt
  <2>4. (paSess'.powOK => paSess'.nonce \in paPaid') /\ \A g \in paGrants' : g.nonce \in paPaid'
    BY <1>u, <1>4, Zenon DEF Paid
  <2>5. ASSUME NEW g \in PaHandlers
        PROVE  /\ PaAt(g, "pow")' \/ PaAt(g, "grant")' => paReq'[g].nonce \in paPaid'
               /\ PaAt(g, "solve")' /\ paReq'[g].powOK => paReq'[g].nonce \in paPaid'
    BY ONLY <2>1, <2>2, <2>3, <2>5, Zenon
  <2> QED BY <2>4, <2>5, Zenon DEF Paid
<1>10. Attested'
  <2>1. ~PaAt(h, "grant")' /\ (PaAt(h, "solve")' /\ paReq'[h].nonce \in paNeeds' => paReq'[h].attest)
    BY <1>2, <1>u, <1>5, Zenon DEF PaAt, Attested
  <2>2. \A n : HasToken(n)' <=> HasToken(n)
    BY <1>u, Zenon DEF HasToken
  <2>3. \A g \in PaHandlers : g # h =>
          /\ PaAt(g, "solve")' /\ paReq'[g].nonce \in paNeeds' => paReq'[g].attest
          /\ PaAt(g, "grant")' /\ paReq'[g].nonce \in paNeeds' => HasToken(paReq'[g].nonce)
    BY <1>2, <1>u, Zenon DEF Attested, PaAt
  <2>4. /\ paSess'.nonce \in paNeeds' => paSess'.attest
        /\ \A g \in paGrants' : g.nonce \in paNeeds' => HasToken(g.nonce)
    BY <1>u, <1>4, Zenon DEF Attested
  <2>5. ASSUME NEW g \in PaHandlers
        PROVE  /\ PaAt(g, "solve")' /\ paReq'[g].nonce \in paNeeds' => paReq'[g].attest
               /\ PaAt(g, "grant")' /\ paReq'[g].nonce \in paNeeds' => HasToken(paReq'[g].nonce)
    BY ONLY <2>1, <2>3, <2>5, Zenon
  <2> QED BY <2>2, <2>4, <2>5, Zenon DEF Attested, HasToken
<1>11. Reserved'
  <2>1. \A g \in PaHandlers : PaAt(g, "grant")' => PaAt(g, "grant") /\ paReq'[g] = paReq[g]
    BY <1>2, <1>5, Zenon DEF PaAt
  <2> QED BY <1>3, <1>4, <2>1, ReservedKept, HeldStill, Zenon
<1> QED
  BY <1>6, <1>7, <1>8, <1>9, <1>10, <1>11, Zenon

\* A solve that clears every axis reserves a trace nobody has used.
LEMMA SolveInv ==
  ASSUME PassInv, NEW h \in PaHandlers, handlePassSolve(h) PROVE PassInv'
<1> USE DEF PassInv
<1> DEFINE r == paReq[h]
<1>1. PICK sent \in 0..paMinted, trace \in PaTraces, proof \in {"human", "synthetic", "misplaced"} :
        \/ /\ Cleared(r, sent, proof) /\ \A e \in TracesKept : e.trace # trace
           /\ paUsed' = TracesKept \cup {[trace |-> trace, at |-> paNow]}
           /\ PaGoto(h, [pc |-> "grant", nonce |-> r.nonce, trace |-> trace, at |-> paNow])
        \/ PaGoto(h, PaIdle) /\ paUsed' \in {paUsed, TracesKept}
  BY Zenon DEF handlePassSolve, reserveTrace, FreshTrace
<1>2. /\ r.pc = "solve" /\ r.nonce \in Nat
      /\ UNCHANGED <<paNow, paSess, paMinted, paTokens, paNeeds, paPaid, paTried, paGrants>>
  <2>1. r.pc = "solve" /\ r \in ReqType
    BY Zenon DEF handlePassSolve, PaAt, Typed
  <2>2. r.nonce \in Nat
    BY <2>1, ReqKinds, Zenon
  <2> QED BY <2>1, <2>2, Zenon DEF handlePassSolve
<1>k. TracesKept \subseteq paUsed /\ \A e \in paUsed : e \in TracesKept \/ paNow - e.at > PaTraceTTL
  BY PassAssumption DEF TracesKept, Typed
<1>h. ASSUME TracesKept \subseteq paUsed', NEW t, NEW at \in Nat, Held(t, at)
      PROVE  Held(t, at)'
  <2>1. CASE paNow - at > PaTraceTTL
    BY <1>2, <2>1, Zenon DEF Held
  <2>2. ASSUME NEW e \in paUsed, e.trace = t, e.at = at PROVE Held(t, at)'
    BY <1>2, <1>h, <1>k, <2>2, Zenon DEF Held
  <2> QED BY <1>h, <2>1, <2>2, Zenon DEF Held
<1>3. CASE PaGoto(h, PaIdle) /\ paUsed' \in {paUsed, TracesKept}
  <2>1. /\ paReq' \in [PaHandlers -> ReqType]
        /\ paReq'[h] = PaIdle /\ \A g \in PaHandlers : g # h => paReq'[g] = paReq[g]
    BY <1>3, Moved, IdleType, Zenon
  <2>2. Typed'
    BY <1>2, <1>3, <1>k, <2>1, Zenon DEF Typed
  <2>3. Minting'
    <3>1. \A n : Unknown(n) => Unknown(n)'
      BY <1>2, Zenon DEF Unknown
    <3>2. \A g \in PaHandlers : PaAt(g, "idle")' \/ (g # h /\ paReq'[g] = paReq[g] /\ ~PaAt(g, "idle"))
      BY <2>1, IdleType, Zenon DEF PaAt
    <3>3. \A g \in PaHandlers : PaAt(g, "new")' => PaAt(g, "new") /\ paReq'[g].nonce = paReq[g].nonce
      BY <2>1, IdleType, Zenon DEF PaAt
    <3> QED BY <1>2, <3>1, <3>2, <3>3, MintingKept, Zenon
  <2>4. Paid'
    BY <1>2, <2>1, IdleType, Zenon DEF Paid, PaAt
  <2>5. Attested'
    BY <1>2, <2>1, IdleType, ZenonT(60) DEF Attested, HasToken, PaAt
  <2>6. Tried'
    BY <1>2, Zenon DEF Tried
  <2>7. Reserved'
    <3>1. \A g \in PaHandlers : PaAt(g, "grant")' => PaAt(g, "grant") /\ paReq'[g] = paReq[g]
      BY <2>1, IdleType, Zenon DEF PaAt
    <3>2. TracesKept \subseteq paUsed'
      BY <1>3, <1>k, Zenon
    <3>3. \A t : \A at \in Nat : Held(t, at) => Held(t, at)'
      BY <1>h, <3>2, Zenon
    <3> QED BY <1>2, <3>1, <3>3, ReservedKept, Zenon
  <2> QED
    BY <2>2, <2>3, <2>4, <2>5, <2>6, <2>7, Zenon
<1>4. CASE /\ Cleared(r, sent, proof) /\ \A e \in TracesKept : e.trace # trace
           /\ paUsed' = TracesKept \cup {[trace |-> trace, at |-> paNow]}
           /\ PaGoto(h, [pc |-> "grant", nonce |-> r.nonce, trace |-> trace, at |-> paNow])
  <2> DEFINE q == [pc |-> "grant", nonce |-> r.nonce, trace |-> trace, at |-> paNow]
             entry == [trace |-> trace, at |-> paNow]
  <2>1. q \in ReqType
    BY <1>2, Zenon DEF ReqType, Typed
  <2>2. /\ paReq' \in [PaHandlers -> ReqType]
        /\ paReq'[h] = q /\ \A g \in PaHandlers : g # h => paReq'[g] = paReq[g]
    BY <1>4, <2>1, Moved, Zenon
  <2>3. q.pc = "grant" /\ q.nonce = r.nonce /\ q.trace = trace /\ q.at = paNow
    BY Zenon
  <2>e. entry.trace = trace /\ entry.at = paNow /\ paUsed' = TracesKept \cup {entry}
    BY <1>4, Zenon
  <2>4. r.powOK /\ (r.attest => HasToken(r.nonce))
    BY <1>4, Zenon DEF Cleared, AttestVerify, HasToken
  <2>5. r.nonce \in paPaid /\ (r.nonce \in paNeeds => HasToken(r.nonce))
    BY <1>2, <2>4, Zenon DEF Paid, Attested, PaAt
  <2> HIDE DEF q, entry
  <2>6. Typed'
    <3>1. \A e \in paUsed' : e.at \in Nat
      BY <1>k, <2>e, Zenon DEF Typed
    <3> QED BY <1>2, <2>2, <3>1, Zenon DEF Typed
  <2>7. Minting'
    <3>1. \A n : Unknown(n) => Unknown(n)'
      BY <1>2, Zenon DEF Unknown
    <3>2. \A g \in PaHandlers : PaAt(g, "new")' => PaAt(g, "new") /\ paReq'[g].nonce = paReq[g].nonce
      BY <2>2, <2>3, Zenon DEF PaAt
    <3>3. \A g \in PaHandlers : PaAt(g, "idle")' \/ (~PaAt(g, "idle") /\ paReq'[g].nonce = paReq[g].nonce)
      BY <1>2, <2>2, <2>3, Zenon DEF PaAt
    <3> QED BY <1>2, <3>1, <3>2, <3>3, MintingKept, Zenon
  <2>8. Paid'
    BY <1>2, <2>2, <2>3, <2>5, Zenon DEF Paid, PaAt
  <2>9. Attested'
    BY <1>2, <2>2, <2>3, <2>5, ZenonT(90) DEF Attested, HasToken, PaAt
  <2>10. Tried'
    BY <1>2, Zenon DEF Tried
  <2>11. Reserved'
    <3>1. ASSUME NEW at \in Nat, Held(trace, at) PROVE Apart(at, paNow) /\ Apart(paNow, at)
      <4>1. ASSUME NEW e \in paUsed, e.trace = trace, e.at = at PROVE paNow - at > PaTraceTTL
        BY <1>4, <1>k, <4>1, Zenon
      <4>2. paNow - at > PaTraceTTL
        BY <3>1, <4>1, Zenon DEF Held
      <4> QED BY <4>2, Zenon DEF Apart
    <3>2. \A t : \A at \in Nat : Held(t, at) => Held(t, at)'
      BY <1>h, <2>e, Zenon
    <3>3. \A g \in PaHandlers : PaAt(g, "grant")' => g = h \/ (g # h /\ PaAt(g, "grant") /\ paReq'[g] = paReq[g])
      BY <2>2, Zenon DEF PaAt
    <3>4. paReq'[h].trace = trace /\ paReq'[h].at = paNow
      BY <2>2, <2>3, Zenon
    <3>5. ASSUME NEW g \in paGrants PROVE Held(g.trace, g.at)' /\ (g.trace = trace => Apart(g.at, paNow))
      <4>1. g.at \in Nat /\ Held(g.trace, g.at)
        BY Zenon DEF Reserved, Typed
      <4> QED BY <3>1, <3>2, <4>1, Zenon
    <3>6. ASSUME NEW k \in PaHandlers, k # h, PaAt(k, "grant")', NEW w, w = paReq[k]
          PROVE  /\ paReq'[k] = w /\ Held(w.trace, w.at)'
                 /\ w.trace = trace => Apart(w.at, paNow) /\ Apart(paNow, w.at)
                 /\ \A g \in paGrants : g.trace = w.trace => Apart(g.at, w.at)
      <4>1. PaAt(k, "grant") /\ paReq'[k] = w
        BY <3>3, <3>6, Zenon
      <4>2. w.at \in Nat
        BY <3>6, <4>1, ReqKinds, Zenon DEF Typed, PaAt
      <4>3. Held(w.trace, w.at) /\ \A g \in paGrants : g.trace = w.trace => Apart(g.at, w.at)
        BY <3>6, <4>1, Zenon DEF Reserved
      <4> QED BY <3>1, <3>2, <4>1, <4>2, <4>3, Zenon
    <3>7. ASSUME NEW k \in PaHandlers, PaAt(k, "grant")', NEW w, w = paReq'[k]
          PROVE  Held(w.trace, w.at)' /\ \A g \in paGrants : g.trace = w.trace => Apart(g.at, w.at)
      <4>1. CASE k = h
        <5>1. w.trace = trace /\ w.at = paNow
          BY <3>4, <3>7, <4>1, Zenon
        <5>2. entry \in paUsed'
          BY <2>e, Zenon
        <5>3. Held(w.trace, w.at)'
          BY <2>e, <5>1, <5>2, Zenon DEF Held
        <5> QED BY <3>5, <5>1, <5>3, Zenon
      <4>2. CASE k # h
        <5>1. w = paReq[k]
          BY <3>3, <3>7, <4>2, Zenon
        <5> QED BY <3>6, <3>7, <4>2, <5>1, Zenon
      <4> QED BY <4>1, <4>2, Zenon
    <3>8. ASSUME NEW g \in PaHandlers, PaAt(g, "grant")', NEW k \in PaHandlers, PaAt(k, "grant")', k # g,
                 paReq'[k].trace = paReq'[g].trace
          PROVE  Apart(paReq'[k].at, paReq'[g].at)
      <4>1. CASE g = h
        BY <3>4, <3>6, <3>8, <4>1, Zenon
      <4>2. CASE k = h
        BY <3>4, <3>6, <3>8, <4>2, Zenon
      <4>3. CASE g # h /\ k # h
        BY <3>3, <3>8, <4>3, Zenon DEF Reserved
      <4> QED BY <4>1, <4>2, <4>3, Zenon
    <3>9. \A g1, g2 \in paGrants' : g1.trace = g2.trace => g1 = g2 \/ Apart(g1.at, g2.at)
      BY <1>2, Zenon DEF Reserved
    <3>10. paSess'.solved => paGrants' # {}
      BY <1>2, Zenon DEF Reserved
    <3>11. \A g \in paGrants' : Held(g.trace, g.at)'
      BY <1>2, <3>5, Zenon
    <3>12. paGrants' = paGrants
      BY <1>2, Zenon
    <3> QED
      BY <3>7, <3>8, <3>9, <3>10, <3>11, <3>12, Zenon DEF Reserved
  <2> QED
    BY <2>6, <2>7, <2>8, <2>9, <2>10, <2>11, Zenon
<1> QED
  BY <1>1, <1>3, <1>4, Zenon

\* The grant is recorded; the session counts as solved.
LEMMA GrantInv ==
  ASSUME PassInv, NEW h \in PaHandlers, PassGrant(h) PROVE PassInv'
<1> USE DEF PassInv
<1> DEFINE r == paReq[h]
           g0 == [nonce |-> r.nonce, trace |-> r.trace, at |-> r.at]
<1>1. /\ paReq' \in [PaHandlers -> ReqType]
      /\ paReq'[h] = PaIdle /\ \A g \in PaHandlers : g # h => paReq'[g] = paReq[g]
  BY Moved, IdleType, Zenon DEF PassGrant
<1>2. /\ r.pc = "grant" /\ r.nonce \in Nat /\ r.trace \in PaTraces /\ r.at \in Nat
  <2>1. r.pc = "grant" /\ r \in ReqType
    BY Zenon DEF PassGrant, PaAt, Typed
  <2> QED BY <2>1, ReqKinds, Zenon
<1>3. /\ paGrants' = paGrants \cup {g0} /\ g0.nonce = r.nonce /\ g0.trace = r.trace /\ g0.at = r.at
      /\ g0 \in [nonce : Nat, trace : PaTraces, at : Nat]
      /\ UNCHANGED <<paNow, paMinted, paTokens, paUsed, paNeeds, paPaid, paTried>>
  BY <1>2, Zenon DEF PassGrant
<1>4. /\ paSess' \in SessType /\ paSess'.nonce = paSess.nonce /\ paSess'.tries = paSess.tries
      /\ paSess'.attest = paSess.attest /\ paSess'.powOK = paSess.powOK
  BY Zenon DEF PassGrant, Typed, SessType
<1> HIDE DEF g0
<1>5. Typed'
  BY <1>1, <1>3, <1>4, Zenon DEF Typed
<1>6. Minting'
  <2>1. ASSUME NEW n, Unknown(n), n # r.nonce PROVE Unknown(n)'
    BY <1>3, <1>4, <2>1, Zenon DEF Unknown
  <2>2. \A g \in PaHandlers : PaAt(g, "idle")' \/ (g # h /\ paReq'[g] = paReq[g] /\ ~PaAt(g, "idle"))
    BY <1>1, IdleType, Zenon DEF PaAt
  <2>3. \A g \in PaHandlers : PaAt(g, "new")' => PaAt(g, "new") /\ paReq'[g].nonce = paReq[g].nonce
    BY <1>1, IdleType, Zenon DEF PaAt
  <2>4. \A n : Unknown(n) /\ (\A g \in PaHandlers : PaAt(g, "grant") => paReq[g].nonce # n) => Unknown(n)'
    BY <1>2, <2>1, Zenon DEF PaAt
  <2> QED BY <1>3, <2>2, <2>3, <2>4, MintingKept, Zenon
<1>7. Paid'
  BY <1>1, <1>2, <1>3, <1>4, IdleType, Zenon DEF Paid, PaAt
<1>8. Attested'
  <2>1. \A n : HasToken(n)' <=> HasToken(n)
    BY <1>3, Zenon DEF HasToken
  <2>2. r.nonce \in paNeeds => HasToken(r.nonce)
    BY <1>2, Zenon DEF Attested, PaAt
  <2>3. \A g \in PaHandlers :
          /\ PaAt(g, "solve")' /\ paReq'[g].nonce \in paNeeds' => paReq'[g].attest
          /\ PaAt(g, "grant")' /\ paReq'[g].nonce \in paNeeds' => HasToken(paReq[g].nonce)'
    BY <1>1, <1>3, IdleType, ZenonT(80) DEF Attested, PaAt, HasToken
  <2>4. \A g \in paGrants' : g.nonce \in paNeeds' => HasToken(g.nonce)'
    BY <1>3, <2>1, <2>2, Zenon DEF Attested
  <2> QED BY <1>3, <1>4, <2>3, <2>4, Zenon DEF Attested
<1>9. Tried'
  BY <1>3, <1>4, Zenon DEF Tried
<1>10. Reserved'
  <2>1. \A g \in PaHandlers : PaAt(g, "grant")' => g # h /\ PaAt(g, "grant") /\ paReq'[g] = paReq[g]
    BY <1>1, IdleType, Zenon DEF PaAt
  <2>2. /\ Held(r.trace, r.at) /\ \A g \in paGrants : g.trace = r.trace => Apart(g.at, r.at)
        /\ \A g \in PaHandlers : g # h /\ PaAt(g, "grant") /\ paReq[g].trace = r.trace => Apart(paReq[g].at, r.at)
        /\ \A g \in PaHandlers : g # h /\ PaAt(g, "grant") /\ paReq[g].trace = r.trace => Apart(r.at, paReq[g].at)
    BY <1>2, Zenon DEF Reserved, PaAt
  <2>3. \A g \in paGrants' : g = g0 \/ g \in paGrants
    BY <1>3, Zenon
  <2>h. \A t : \A at \in Nat : Held(t, at) => Held(t, at)'
    BY <1>3, HeldStill, Zenon
  <2>4. /\ \A g \in paGrants' : Held(g.trace, g.at)'
        /\ \A g1, g2 \in paGrants' : g1.trace = g2.trace => g1 = g2 \/ Apart(g1.at, g2.at)
    <3>1. ASSUME NEW g \in paGrants' PROVE Held(g.trace, g.at)'
      <4>1. g.at \in Nat /\ Held(g.trace, g.at)
        BY <1>2, <1>3, <2>2, <2>3, Zenon DEF Reserved, Typed
      <4> QED BY <2>h, <4>1, Zenon
    <3>2. ASSUME NEW g \in paGrants, g.trace = g0.trace PROVE Apart(g.at, g0.at) /\ Apart(g0.at, g.at)
      BY <1>3, <2>2, <3>2, Zenon DEF Apart
    <3>3. ASSUME NEW g1 \in paGrants', NEW g2 \in paGrants', g1.trace = g2.trace PROVE g1 = g2 \/ Apart(g1.at, g2.at)
      <4>2. g1 \in paGrants /\ g2 \in paGrants => g1 = g2 \/ Apart(g1.at, g2.at)
        BY <3>3, Zenon DEF Reserved
      <4> QED BY <2>3, <3>2, <3>3, <4>2, Zenon
    <3> QED BY <3>1, <3>3, Zenon
  <2>5. ASSUME NEW g \in PaHandlers, PaAt(g, "grant")', NEW w, w = paReq'[g]
        PROVE  Held(w.trace, w.at)' /\ \A x \in paGrants' : x.trace = w.trace => Apart(x.at, w.at)
    <3>1. PaAt(g, "grant") /\ g # h /\ w = paReq[g]
      BY <2>1, <2>5, Zenon
    <3>2. w.at \in Nat
      BY <3>1, ReqKinds, Zenon DEF Typed, PaAt
    <3>3. Held(w.trace, w.at) /\ \A x \in paGrants : x.trace = w.trace => Apart(x.at, w.at)
      BY <3>1, Zenon DEF Reserved
    <3>4. g0.trace = w.trace => Apart(g0.at, w.at)
      BY <1>3, <2>2, <3>1, Zenon
    <3> QED BY <2>3, <2>h, <3>2, <3>3, <3>4, Zenon
  <2>6. ASSUME NEW g \in PaHandlers, PaAt(g, "grant")', NEW k \in PaHandlers, PaAt(k, "grant")', k # g,
               paReq'[k].trace = paReq'[g].trace
        PROVE  Apart(paReq'[k].at, paReq'[g].at)
    BY <2>1, <2>6, Zenon DEF Reserved
  <2>7. paGrants' # {}
    BY <1>3, Zenon
  <2> QED BY <2>4, <2>5, <2>6, <2>7, Zenon DEF Reserved
<1> QED
  BY <1>5, <1>6, <1>7, <1>8, <1>9, <1>10, Zenon

\* A session swept and made again holds no nonce.
LEMMA SweepInv ==
  ASSUME PassInv, PassSweep PROVE PassInv'
<1> USE DEF PassInv
<1>1. /\ paSess' = [nonce |-> 0, bucket |-> paNow, tries |-> 0, solved |-> FALSE, powOK |-> FALSE, attest |-> FALSE]
      /\ \A h \in PaHandlers : PaAt(h, "idle")
      /\ UNCHANGED <<paNow, paReq, paMinted, paTokens, paUsed, paNeeds, paPaid, paTried, paGrants>>
  BY Zenon DEF PassSweep, FreshSession, NoInstance
<1>2. Typed'
  BY <1>1, Zenon DEF Typed, SessType
<1>3. Minting'
  BY <1>1, SMTT(30) DEF Minting, Unknown, PaAt, Typed, NoInstance
<1>4. /\ paSess'.nonce = 0 /\ paSess'.tries = 0 /\ ~paSess'.solved /\ ~paSess'.powOK
  BY <1>1, Zenon
<1>5. Paid'
  BY <1>1, <1>4, Zenon DEF Paid, PaAt
<1>6. Attested'
  BY <1>1, <1>4, Zenon DEF Attested, HasToken, PaAt, Minting, NoInstance
<1>7. 0 <= PassMaxTries /\ 0 \notin Instances
  BY PassAssumption DEF Instances
<1>8. Tried'
  BY <1>1, <1>4, <1>7, Zenon DEF Tried
<1>9. Reserved'
  <2>1. \A t : \A at \in Nat : Held(t, at) => Held(t, at)'
    BY <1>1, HeldStill, Zenon
  <2> QED BY <1>1, <1>4, <2>1, ReservedKept, Zenon DEF PaAt
<1> QED
  BY <1>2, <1>3, <1>5, <1>6, <1>8, <1>9, Zenon

LEMMA PassNextInv == PassInv /\ [PassNext]_paVars => PassInv'
<1> SUFFICES ASSUME PassInv, [PassNext]_paVars PROVE PassInv'
  BY Zenon
<1>1. CASE UNCHANGED paVars
  <2>1. UNCHANGED <<paNow, paSess, paReq, paMinted, paTokens, paUsed, paNeeds, paPaid, paTried, paGrants>>
    BY <1>1, Zenon DEF paVars
  <2>2. Typed' /\ Minting'
    BY <2>1, Zenon DEF PassInv, Typed, Minting, Unknown, PaAt
  <2>3. Paid' /\ Attested'
    BY <2>1, Zenon DEF PassInv, Paid, Attested, HasToken, PaAt
  <2>4. Tried' /\ Reserved'
    BY <2>1, Zenon DEF PassInv, Tried, Reserved, Held, PaAt
  <2> QED BY <2>2, <2>3, <2>4, Zenon DEF PassInv
<1>2. CASE handlePassAttest \/ PassSweep \/ PassTick
  BY <1>2, AttestInv, SweepInv, Zenon
<1>3. ASSUME NEW h \in PaHandlers,
             \/ PassNewBegins(h) \/ handlePassNew(h) \/ PassPoWBegins(h) \/ handlePassPoW(h)
             \/ PassSolveBegins(h) \/ handlePassSolve(h) \/ PassGrant(h)
      PROVE  PassInv'
  BY <1>3, NewBeginsInv, NewInv, PoWBeginsInv, PoWInv, SolveBeginsInv, SolveInv, GrantInv, Zenon
<1> QED
  BY <1>1, <1>2, <1>3, ZenonT(30) DEF PassNext

\* Every accepted solve paid for the instance it solves and was attested when that
\* instance demands it, however /new, /pow, /attest, /solve and the sweep
\* interleave (handlePassPoW, handlePassSolve).
THEOREM SolvesAreEarned == PassSpec => []GrantsEarned
<1>1. PassInv => GrantsEarned
  BY Zenon DEF PassInv, GrantsEarned, Paid, Attested, HasToken, Reserved
<1> QED
  BY PassInitInv, PassNextInv, <1>1, PTL DEF PassSpec

\* No instance is attempted more often than the cap, and no motor trace is accepted
\* twice within its retention window, for any number of racing requests, any
\* retention and any cap on the registry (handlePassSolve, reserveTrace).
THEOREM SolvesAreBounded == PassSpec => []AttemptsBounded
<1>1. PassInv => AttemptsBounded
  BY Zenon DEF PassInv, AttemptsBounded, Tried, Reserved, PaAt
<1> QED
  BY PassInitInv, PassNextInv, <1>1, PTL DEF PassSpec

-----------------------------------------------------------------------------
(***************************************************************************)
(* Trust tokens: a step-up proof is earned, and no token outlives its expiry. *)
(***************************************************************************)
Bucket(t) == t \div EpochWindow

\* When a token was minted, as its expiry tells.
MintedAt(tok) == tok.exp - TokenTTL

\* The advances of the epoch a token has seen.
BumpOf(tok) == tok.epoch - Bucket(MintedAt(tok))

\* Receipts and step-up tokens name sessions that solved a Pass.
Earned ==
    /\ \A rc \in tkReceipts : rc.sid \in tkSolved
    /\ \A tok \in tkTokens : tok.kind = "su" => tok.sid \in tkSolved

\* Nothing is minted ahead of the clock or of the advances.
TokensPast == \A tok \in tkTokens : MintedAt(tok) \in 0..tkNow /\ BumpOf(tok) \in 0..tkBump

\* A request read its clock and its first epoch after its token was minted.
RequestsPast ==
    \A q \in tkReq :
        /\ q.now <= tkNow /\ q.first - Bucket(q.now) <= tkBump
        /\ q.tok \in TokenType =>
             MintedAt(q.tok) \in 0..q.now /\ BumpOf(q.tok) <= q.first - Bucket(q.now)

TokensInv == TokensTypeOK /\ Earned /\ TokensPast /\ RequestsPast

LEMMA SidType ==
  ASSUME NEW sid \in Sids PROVE sid \in Seq(SidFields) /\ Len(sid) \in Nat \ {0} /\ (Plain(sid) => sid = <<sid[1]>>)
  BY TokensAssumption DEF Plain

\* How long a payload is, and where its fields are when the session id is one.
LEMMA VerdictPayload ==
  ASSUME NEW tok \in TokenType, tok.kind = "vt", NEW p, p = Payload(tok)
  PROVE  /\ Len(p) = Len(tok.sid) + 3
         /\ Plain(tok.sid) => p[1] = tok.sid[1] /\ p[2] = tok.bind /\ p[3] = tok.exp /\ p[4] = tok.epoch
<1>1. p = tok.sid \o <<tok.bind, tok.exp, tok.epoch>> /\ tok.sid \in Sids
  BY Zenon DEF Payload, TokenType
<1>2. tok.sid \in Seq(SidFields) /\ (Plain(tok.sid) => tok.sid = <<tok.sid[1]>>)
  BY <1>1, SidType, Zenon
<1>3. Len(p) = Len(tok.sid) + 3
  BY ONLY <1>1, <1>2
<1>4. ASSUME Plain(tok.sid) PROVE p = <<tok.sid[1]>> \o <<tok.bind, tok.exp, tok.epoch>>
  BY <1>1, <1>2, <1>4, Zenon
<1>5. ASSUME Plain(tok.sid) PROVE p[1] = tok.sid[1] /\ p[2] = tok.bind /\ p[3] = tok.exp /\ p[4] = tok.epoch
  BY ONLY <1>4, <1>5
<1> QED
  BY <1>3, <1>5, Zenon

LEMMA StepUpPayload ==
  ASSUME NEW tok \in TokenType, tok.kind = "su", NEW p, p = Payload(tok)
  PROVE  /\ Len(p) = Len(tok.sid) + 4
         /\ Plain(tok.sid) => /\ p[2] = tok.sid[1] /\ Tail(p)[1] = tok.sid[1] /\ Tail(p)[2] = tok.bind
                              /\ Tail(p)[3] = tok.exp /\ Tail(p)[4] = tok.epoch
<1>1. p = <<"su">> \o tok.sid \o <<tok.bind, tok.exp, tok.epoch>> /\ tok.sid \in Sids
  BY DEF Payload, TokenType
<1>2. tok.sid \in Seq(SidFields) /\ (Plain(tok.sid) => tok.sid = <<tok.sid[1]>>)
  BY <1>1, SidType, Zenon
<1>3. Len(p) = Len(tok.sid) + 4
  BY ONLY <1>1, <1>2
<1>4. ASSUME Plain(tok.sid) PROVE p = <<"su">> \o <<tok.sid[1]>> \o <<tok.bind, tok.exp, tok.epoch>>
  BY <1>1, <1>2, <1>4, Zenon
<1>5. ASSUME Plain(tok.sid) PROVE p[2] = tok.sid[1]
  BY ONLY <1>4, <1>5
<1>6. ASSUME Plain(tok.sid)
      PROVE  Tail(p)[1] = tok.sid[1] /\ Tail(p)[2] = tok.bind /\ Tail(p)[3] = tok.exp /\ Tail(p)[4] = tok.epoch
  <2>0. p = <<"su">> \o <<tok.sid[1]>> \o <<tok.bind, tok.exp, tok.epoch>>
    BY <1>4, <1>6, Zenon
  <2>1. Tail(p)[1] = tok.sid[1] BY ONLY <2>0
  <2>2. Tail(p)[2] = tok.bind BY ONLY <2>0
  <2>3. Tail(p)[3] = tok.exp BY ONLY <2>0
  <2>4. Tail(p)[4] = tok.epoch BY ONLY <2>0
  <2> QED BY <2>1, <2>2, <2>3, <2>4, Zenon
<1> QED
  BY <1>3, <1>5, <1>6, Zenon

LEMMA ReceiptPayload ==
  ASSUME NEW rc \in ReceiptType, NEW p, p = Payload(rc)
  PROVE  Len(p) = Len(rc.sid) + 2 /\ (Plain(rc.sid) => p[2] = rc.sid[1])
<1>1. p = <<"sur">> \o rc.sid \o <<rc.exp>> /\ rc.sid \in Sids
  BY DEF Payload, ReceiptType
<1>2. rc.sid \in Seq(SidFields) /\ (Plain(rc.sid) => rc.sid = <<rc.sid[1]>>)
  BY <1>1, SidType, Zenon
<1>3. Len(p) = Len(rc.sid) + 2
  BY ONLY <1>1, <1>2
<1>4. ASSUME Plain(rc.sid) PROVE p = <<"sur">> \o <<rc.sid[1]>> \o <<rc.exp>>
  BY <1>1, <1>2, <1>4, Zenon
<1>5. ASSUME Plain(rc.sid) PROVE p[2] = rc.sid[1]
  BY ONLY <1>4, <1>5
<1> QED
  BY <1>3, <1>5, Zenon

\* What HasValid asks for.
Verified(tok, kind, bind, sid, now, epochs) ==
    IF kind = "su" THEN VerifyStepUpToken(Payload(tok), bind, sid, now, epochs)
    ELSE VerifyVerdictToken(Payload(tok), bind, sid, now, epochs)

\* What is honoured for a plain session id is what was minted: its kind can be told
\* from the number of its fields.
LEMMA KindTold ==
  ASSUME NEW tok \in TokenType \cup ReceiptType, Plain(tok.sid), NEW kind \in {"vt", "su"}, NEW bind, NEW sid,
         NEW now, NEW epochs, Verified(tok, kind, bind, sid, now, epochs)
  PROVE  /\ tok \in TokenType /\ tok.kind = kind /\ now <= tok.exp /\ tok.epoch \in epochs
         /\ tok.bind = bind /\ (sid # NoSid => tok.sid = sid)
<1> DEFINE p == Payload(tok)
<1>0. Len(p) = (IF kind = "su" THEN 5 ELSE 4) /\ Len(tok.sid) = 1 /\ kind \in {"vt", "su"}
  BY DEF Verified, VerifyStepUpToken, VerifyVerdictToken, Plain
<1>1. tok.sid \in Sids
  BY DEF TokenType, ReceiptType
<1>2. tok.sid = <<tok.sid[1]>>
  BY <1>1, SidType, Zenon
<1>3. CASE tok \in ReceiptType
  <2>1. Len(p) = Len(tok.sid) + 2
    BY <1>3, ReceiptPayload, Zenon
  <2> QED
    BY ONLY <1>0, <2>1
<1>4. CASE tok \in TokenType
  <2>1. tok.kind = "vt" => Len(p) = Len(tok.sid) + 3
    BY <1>4, VerdictPayload, Zenon
  <2>2. tok.kind = "su" => Len(p) = Len(tok.sid) + 4
    BY <1>4, StepUpPayload, Zenon
  <2>3. tok.kind = kind /\ kind \in {"vt", "su"}
    <3>1. tok.kind \in {"vt", "su"}
      BY <1>4, Zenon DEF TokenType
    <3> QED BY ONLY <1>0, <2>1, <2>2, <3>1
  <2>4. CASE kind = "vt"
    <3>1. p[1] = tok.sid[1] /\ p[2] = tok.bind /\ p[3] = tok.exp /\ p[4] = tok.epoch
      BY <1>4, <2>3, <2>4, VerdictPayload, Zenon
    <3>2. LiveAndBound(p, bind, sid, now, epochs)
      BY <2>4 DEF Verified, VerifyVerdictToken
    <3> HIDE DEF p
    <3> QED
      BY <1>2, <1>4, <2>3, <3>1, <3>2, Zenon DEF LiveAndBound
  <2>5. CASE kind = "su"
    <3>1. /\ p[2] = tok.sid[1] /\ Tail(p)[1] = tok.sid[1] /\ Tail(p)[2] = tok.bind
          /\ Tail(p)[3] = tok.exp /\ Tail(p)[4] = tok.epoch
      BY <1>4, <2>3, <2>5, StepUpPayload, Zenon
    <3>2. LiveAndBound(Tail(p), bind, sid, now, epochs)
      BY <2>5 DEF Verified, VerifyStepUpToken
    <3> HIDE DEF p
    <3> QED
      BY <1>2, <1>4, <2>3, <3>1, <3>2, Zenon DEF LiveAndBound
  <2> QED
    BY <2>3, <2>4, <2>5, Zenon
<1> QED
  BY <1>3, <1>4, Zenon

\* What is redeemed is a receipt, and it names the session.
LEMMA ReceiptNames ==
  ASSUME NEW rc \in TokenType \cup ReceiptType, NEW sid, NEW now, VerifyStepUpReceipt(Payload(rc), sid, now)
  PROVE  rc \in ReceiptType /\ rc.sid = sid
<1> DEFINE p == Payload(rc)
<1>0. Len(p) = 3 /\ <<p[2]>> = sid
  BY Zenon DEF VerifyStepUpReceipt
<1>p. Len(p) = 3
  BY <1>0, Zenon
<1>1. rc.sid \in Sids
  BY DEF TokenType, ReceiptType
<1>2. Len(rc.sid) \in Nat \ {0} /\ (Plain(rc.sid) => rc.sid = <<rc.sid[1]>>)
  BY <1>1, SidType, Zenon
<1>3. CASE rc \in TokenType
  <2>1. rc.kind = "vt" \/ rc.kind = "su"
    BY <1>3, Zenon DEF TokenType
  <2>2. Len(p) = Len(rc.sid) + 3 \/ Len(p) = Len(rc.sid) + 4
    BY <1>3, <2>1, VerdictPayload, StepUpPayload, Zenon
  <2>3. Len(rc.sid) \in Nat \ {0}
    BY <1>2, Zenon
  <2> HIDE DEF p
  <2> QED
    BY ONLY <1>p, <2>2, <2>3
<1>4. CASE rc \in ReceiptType
  <2>1. Len(p) = Len(rc.sid) + 2 /\ (Plain(rc.sid) => p[2] = rc.sid[1])
    BY <1>4, ReceiptPayload, Zenon
  <2>2. Plain(rc.sid)
    <3>1. Len(rc.sid) = 1
      <4>1. Len(p) = Len(rc.sid) + 2 /\ Len(rc.sid) \in Nat
        BY <1>2, <2>1, Zenon
      <4>2. \A n \in Nat : 3 = n + 2 => n = 1
        OBVIOUS
      <4> QED BY <1>p, <4>1, <4>2, Zenon
    <3> QED
      BY <3>1, Zenon DEF Plain
  <2> QED
    BY <1>0, <1>2, <1>4, <2>1, <2>2, Zenon
<1> QED
  BY <1>3, <1>4, Zenon

LEMMA BucketType == ASSUME NEW t \in Nat PROVE Bucket(t) \in Nat
  BY TokensAssumption DEF Bucket

LEMMA BucketGrows == ASSUME NEW s \in Nat, NEW t \in Nat, s <= t PROVE Bucket(s) <= Bucket(t)
  BY TokensAssumption DEF Bucket

LEMMA BucketBounds ==
  ASSUME NEW t \in Nat
  PROVE  Bucket(t) * EpochWindow <= t /\ t < (Bucket(t) + 1) * EpochWindow
  BY TokensAssumption DEF Bucket

\* Two moments in neighbouring buckets are less than two windows apart.
LEMMA NeighboursClose ==
  ASSUME NEW s \in Nat, NEW t \in Nat, Bucket(t) <= Bucket(s) + 1
  PROVE  t - s < 2 * EpochWindow
<1> DEFINE a == Bucket(s)
           b == Bucket(t)
<1>1. a \in Nat /\ b \in Nat /\ b <= a + 1 /\ EpochWindow \in Nat
  BY BucketType, TokensAssumption, Zenon
<1>2. a * EpochWindow <= s /\ t < (b + 1) * EpochWindow
  BY BucketBounds, Zenon
<1> HIDE DEF a, b
<1>3. (b + 1) * EpochWindow <= (a + 2) * EpochWindow
  BY <1>1
<1>4. (a + 2) * EpochWindow = a * EpochWindow + 2 * EpochWindow
  BY <1>1
<1> QED
  BY <1>1, <1>2, <1>3, <1>4

LEMMA TokensInitInv == TokensInit => TokensInv
  BY DEF TokensInit, TokensInv, TokensTypeOK, Earned, TokensPast, RequestsPast

\* A token minted now is of this bucket and has seen every advance.
LEMMA IssuedNow ==
  ASSUME TokensInv, NEW sid \in Sids, NEW bind \in Binds,
         NEW tok \in {IssueVerdictToken(sid, bind), IssueStepUpToken(sid, bind)}
  PROVE  tok \in TokenType /\ MintedAt(tok) = tkNow /\ BumpOf(tok) = tkBump /\ tok.sid = sid
<1>1. tkNow \in Nat /\ tkBump \in Nat /\ Bucket(tkNow) \in Nat /\ TokenTTL \in Nat
  BY BucketType, TokensAssumption, Zenon DEF TokensInv, TokensTypeOK
<1>2. tok.exp = tkNow + TokenTTL /\ tok.epoch = Bucket(tkNow) + tkBump + 0 /\ tok.sid = sid
  BY DEF IssueVerdictToken, IssueStepUpToken, EpochAt, Bucket
<1>3. tok \in TokenType
  BY <1>1, <1>2 DEF IssueVerdictToken, IssueStepUpToken, TokenType
<1>4. MintedAt(tok) = tkNow
  BY <1>1, <1>2 DEF MintedAt
<1>5. BumpOf(tok) = tkBump
  BY <1>1, <1>2, <1>4 DEF BumpOf
<1> QED
  BY <1>2, <1>3, <1>4, <1>5, Zenon

LEMMA MintInv ==
  ASSUME TokensInv, NEW sid \in Sids, NEW bind \in Binds,
         NEW tok \in {IssueVerdictToken(sid, bind), IssueStepUpToken(sid, bind)},
         tok.kind = "su" => sid \in tkSolved, Mint(tok)
  PROVE  TokensInv'
<1>1. tok \in TokenType /\ MintedAt(tok) = tkNow /\ BumpOf(tok) = tkBump /\ tok.sid = sid
  BY IssuedNow, Zenon
<1>2. /\ \A x \in tkTokens' : x \in tkTokens \/ x = tok
      /\ UNCHANGED <<tkNow, tkBump, tkSolved, tkReceipts, tkReq>> /\ tkHonoured' = {}
  BY Zenon DEF Mint
<1>3. TokensTypeOK'
  BY <1>1, <1>2, Zenon DEF TokensInv, TokensTypeOK
<1>4. Earned'
  BY <1>1, <1>2, Zenon DEF TokensInv, Earned
<1>5. tkNow \in 0..tkNow /\ tkBump \in 0..tkBump
  BY DEF TokensInv, TokensTypeOK
<1>6. TokensPast'
  BY <1>1, <1>2, <1>5, Zenon DEF TokensInv, TokensPast
<1>7. RequestsPast'
  BY <1>2, Zenon DEF TokensInv, RequestsPast
<1> QED
  BY <1>3, <1>4, <1>6, <1>7, Zenon DEF TokensInv

LEMMA HandOutInv ==
  ASSUME TokensInv, NEW sid \in Sids, sid \in tkSolved', tkSolved \subseteq tkSolved', tkSolved' \subseteq Sids,
         HandOut(IssueStepUpReceipt(sid)), UNCHANGED <<tkNow, tkBump, tkTokens, tkReq>>, tkHonoured' = {}
  PROVE  TokensInv'
<1> DEFINE rc == IssueStepUpReceipt(sid)
<1>1. rc \in ReceiptType /\ rc.sid = sid
  BY TokensAssumption DEF IssueStepUpReceipt, TokensInv, TokensTypeOK, ReceiptType
<1>2. \A x \in tkReceipts' : x \in tkReceipts \/ x = rc
  BY Zenon DEF HandOut
<1> HIDE DEF rc
<1>3. TokensTypeOK'
  BY <1>1, <1>2, Zenon DEF TokensInv, TokensTypeOK
<1>4. Earned'
  BY <1>1, <1>2, Zenon DEF TokensInv, Earned
<1> QED
  BY <1>3, <1>4, Zenon DEF TokensInv, TokensPast, RequestsPast

LEMMA PresentInv ==
  ASSUME TokensInv, NEW tok \in tkTokens \cup tkReceipts, Present(tok) PROVE TokensInv'
<1> DEFINE q == [tok |-> tok, now |-> tkNow, first |-> EpochAt(0)]
<1>1. /\ tkReq' = {q} /\ tkHonoured' = {}
      /\ UNCHANGED <<tkNow, tkBump, tkSolved, tkReceipts, tkTokens>>
  BY Zenon DEF Present
<1>2. tok \in TokenType \cup ReceiptType /\ tkNow \in Nat /\ tkBump \in Nat /\ Bucket(tkNow) \in Nat
  BY BucketType, Zenon DEF TokensInv, TokensTypeOK
<1>3. q.first = Bucket(tkNow) + tkBump /\ q.now = tkNow /\ q.tok = tok /\ EpochAt(0) \in Int
  BY <1>2 DEF EpochAt, Bucket
<1>4. q \in [tok : TokenType \cup ReceiptType, now : Nat, first : Int]
  BY <1>2, <1>3, Zenon
<1>5. tok \in TokenType => MintedAt(tok) \in 0..tkNow /\ BumpOf(tok) \in 0..tkBump
  <2>1. ASSUME tok \in TokenType PROVE tok \notin ReceiptType
    BY <2>1 DEF TokenType, ReceiptType
  <2> QED
    BY <2>1, Zenon DEF TokensInv, TokensTypeOK, TokensPast
<1> HIDE DEF q
<1>6. TokensTypeOK'
  BY <1>1, <1>4, Zenon DEF TokensInv, TokensTypeOK
<1>7. /\ q.now <= tkNow /\ q.first - Bucket(q.now) <= tkBump
      /\ q.tok \in TokenType => MintedAt(q.tok) \in 0..q.now /\ BumpOf(q.tok) <= q.first - Bucket(q.now)
  BY <1>2, <1>3, <1>5
<1>8. RequestsPast'
  BY <1>1, <1>7, Zenon DEF RequestsPast
<1> QED
  BY <1>1, <1>6, <1>8, Zenon DEF TokensInv, Earned, TokensPast

\* What a verification honours, the verifier has looked at.
LEMMA HasValidInv ==
  ASSUME TokensInv, NEW q \in tkReq, NEW kind \in {"vt", "su"}, NEW sid \in Sids \cup {NoSid}, NEW bind \in Binds,
         HasValid(q, kind, sid, bind)
  PROVE  TokensInv' /\ StepUpEarned' /\ OneGraceBucket'
<1> DEFINE h == [tok |-> q.tok, kind |-> kind, sid |-> sid, bind |-> bind, now |-> q.now, first |-> q.first]
<1>1. /\ tkReq' = {} /\ UNCHANGED <<tkNow, tkBump, tkSolved, tkReceipts, tkTokens>>
      /\ \A x \in tkHonoured' : x = h /\ Verified(q.tok, kind, bind, sid, q.now, {q.first, EpochAt(-1)})
  BY DEF HasValid, Verified
<1>2. q.tok \in TokenType \cup ReceiptType /\ q.now \in Nat /\ q.first \in Int /\ h \in HonouredType
  BY Zenon DEF TokensInv, TokensTypeOK, HonouredType
<1>3. h.tok = q.tok /\ h.kind = kind /\ h.sid = sid /\ h.bind = bind /\ h.now = q.now /\ h.first = q.first
  BY Zenon
<1> HIDE DEF h
<1>4. TokensInv'
  BY <1>1, <1>2, Zenon DEF TokensInv, TokensTypeOK, Earned, TokensPast, RequestsPast
<1>a. ASSUME tkHonoured' # {}, Plain(q.tok.sid)
      PROVE  /\ q.tok \in TokenType /\ q.tok.kind = kind /\ q.now <= q.tok.exp
             /\ q.tok.epoch \in {q.first, EpochAt(-1)} /\ q.tok.bind = bind /\ (sid # NoSid => q.tok.sid = sid)
  <2> DEFINE t == q.tok
             es == {q.first, EpochAt(-1)}
             now == q.now
  <2>1. Verified(t, kind, bind, sid, now, es)
    BY <1>1, <1>a, Zenon
  <2>2. t \in TokenType \cup ReceiptType /\ Plain(t.sid)
    BY <1>2, <1>a, Zenon
  <2> HIDE DEF t, es, now
  <2>3. t \in TokenType /\ t.kind = kind /\ now <= t.exp /\ t.epoch \in es /\ t.bind = bind /\ (sid # NoSid => t.sid = sid)
    BY ONLY <2>1, <2>2, kind \in {"vt", "su"}, KindTold, Zenon
  <2> QED
    BY <2>3, Zenon DEF t, es, now
<1>5. StepUpEarned'
  BY <1>1, <1>3, <1>4, <1>a, Zenon DEF StepUpEarned, TokensInv, Earned
<1>6. OneGraceBucket'
  <2> SUFFICES ASSUME tkHonoured' # {}, Plain(q.tok.sid)
               PROVE  /\ q.now <= q.tok.exp
                      /\ q.first - 1 <= q.tok.epoch
                      /\ MintedAt(q.tok) < (Bucket(q.now) + 1) * EpochWindow
                      /\ q.now - MintedAt(q.tok) < 2 * EpochWindow
    BY <1>1, <1>3, Zenon DEF OneGraceBucket, MintedAt, Bucket
  <2> DEFINE m == MintedAt(q.tok)
  <2>a. q.tok \in TokenType /\ q.now <= q.tok.exp /\ q.tok.epoch \in {q.first, EpochAt(-1)}
    BY <1>a, Zenon
  <2>1. /\ q.now <= tkNow /\ q.first - Bucket(q.now) <= tkBump
        /\ m \in 0..q.now /\ q.tok.epoch - Bucket(m) <= q.first - Bucket(q.now)
    BY <2>a, Zenon DEF TokensInv, RequestsPast, BumpOf
  <2>2. tkNow \in Nat /\ tkBump \in Nat /\ q.tok.epoch \in Int
    BY <2>a, ZenonT(30) DEF TokensInv, TokensTypeOK, TokenType
  <2> HIDE DEF m
  <2>3. m \in Nat /\ Bucket(m) \in Nat /\ Bucket(q.now) \in Nat /\ Bucket(tkNow) \in Nat /\ Bucket(q.now) <= Bucket(tkNow)
    <3>1. m \in Nat
      BY ONLY <1>2, <2>1, SMTT(30)
    <3> QED BY <1>2, <2>1, <2>2, <3>1, BucketType, BucketGrows, Zenon
  <2>4. q.tok.epoch \in {q.first, Bucket(tkNow) + tkBump - 1} /\ q.now <= q.tok.exp
    <3>1. EpochAt(-1) = Bucket(tkNow) + tkBump - 1
      <4>1. EpochAt(-1) = Bucket(tkNow) + tkBump + (-1)
        BY Zenon DEF EpochAt, Bucket
      <4>2. \A b, c \in Nat : b + c + (-1) = b + c - 1
        BY ONLY TRUE
      <4> QED BY <2>2, <2>3, <4>1, <4>2, Zenon
    <3> QED BY <2>a, <3>1, Zenon
  <2>5. q.first - 1 <= q.tok.epoch
    <3>1. q.tok.epoch = q.first \/ q.tok.epoch = Bucket(tkNow) + tkBump - 1
      BY <2>4, Zenon
    <3> QED BY ONLY <1>2, <2>1, <2>2, <2>3, <3>1, SMTT(30)
  <2>6. Bucket(q.now) <= Bucket(m) + 1
    BY ONLY <1>2, <2>1, <2>2, <2>3, <2>5, SMTT(30)
  <2>7. m < (Bucket(q.now) + 1) * EpochWindow
    <3>1. q.now < (Bucket(q.now) + 1) * EpochWindow /\ (Bucket(q.now) + 1) * EpochWindow \in Int
      BY <1>2, <2>3, BucketBounds, TokensAssumption
    <3> QED
      BY ONLY <1>2, <2>1, <2>3, <3>1, SMTT(30)
  <2>8. q.now - m < 2 * EpochWindow
    BY <1>2, <2>3, <2>6, NeighboursClose, Zenon
  <2> QED
    BY <2>4, <2>5, <2>7, <2>8, Zenon DEF m
<1> QED
  BY <1>4, <1>5, <1>6, Zenon

\* Without a verification nothing is honoured.
LEMMA NothingHonoured ==
  ASSUME TokensInv, tkHonoured = {} PROVE StepUpEarned /\ OneGraceBucket
  BY Zenon DEF TokensInv, Earned, StepUpEarned, OneGraceBucket

TokensGood == TokensInv /\ StepUpEarned /\ OneGraceBucket

LEMMA TokensNextInv == TokensGood /\ [TokensNext]_tkVars => TokensGood'
<1> SUFFICES ASSUME TokensGood, [TokensNext]_tkVars PROVE TokensGood'
  BY Zenon
<1>0. TokensInv
  BY Zenon DEF TokensGood
<1>q. ASSUME TokensInv', tkHonoured' = {} PROVE TokensGood'
  BY <1>q, Zenon DEF TokensGood, TokensInv, Earned, StepUpEarned, OneGraceBucket
<1>1. ASSUME NEW sid \in Sids, SolvePass(sid) PROVE TokensGood'
  <2>1. /\ tkSolved' = tkSolved \cup {sid} /\ HandOut(IssueStepUpReceipt(sid))
        /\ UNCHANGED <<tkNow, tkBump, tkTokens, tkReq>> /\ tkHonoured' = {}
    BY <1>1, Zenon DEF SolvePass
  <2>2. tkSolved' \subseteq Sids
    BY <1>0, <2>1, Zenon DEF TokensInv, TokensTypeOK
  <2> QED
    BY <1>0, <2>1, <2>2, HandOutInv, <1>q, Zenon
<1>2. ASSUME NEW sid \in Sids, Repoll(sid) PROVE TokensGood'
  <2>1. /\ sid \in tkSolved /\ tkSolved' = tkSolved /\ HandOut(IssueStepUpReceipt(sid))
        /\ UNCHANGED <<tkNow, tkBump, tkTokens, tkReq>> /\ tkHonoured' = {}
    BY <1>2, Zenon DEF Repoll
  <2>2. tkSolved' \subseteq Sids
    BY <1>0, <2>1, Zenon DEF TokensInv, TokensTypeOK
  <2> QED
    BY <1>0, <2>1, <2>2, HandOutInv, <1>q, Zenon
<1>3. ASSUME NEW sid \in Sids, NEW bind \in Binds, IssueVerdictTokenOnAllow(sid, bind) PROVE TokensGood'
  <2>1. IssueVerdictToken(sid, bind).kind # "su" /\ Mint(IssueVerdictToken(sid, bind)) /\ tkHonoured' = {}
    BY <1>3, Zenon DEF IssueVerdictTokenOnAllow, IssueVerdictToken, Mint
  <2> QED
    BY <1>0, <2>1, MintInv, <1>q, Zenon
<1>4. ASSUME NEW sid \in Sids \cup {NoSid}, NEW bind \in Binds, NEW rc \in tkReceipts \cup tkTokens,
             HandleStepUp(sid, bind, rc)
      PROVE  TokensGood'
  <2>1. sid # NoSid /\ VerifyStepUpReceipt(Payload(rc), sid, tkNow) /\ Mint(IssueStepUpToken(sid, bind)) /\ tkHonoured' = {}
    BY <1>4, Zenon DEF HandleStepUp, VerifyStepUpReceipt, Mint
  <2>2. sid \in tkSolved /\ sid \in Sids
    <3>1. tkTokens \subseteq TokenType /\ tkReceipts \subseteq ReceiptType
      BY <1>0, Zenon DEF TokensInv, TokensTypeOK
    <3>2. rc \in ReceiptType /\ rc.sid = sid
      BY <1>4, <2>1, <3>1, ReceiptNames, Zenon
    <3>3. rc \notin TokenType
      BY <3>2 DEF TokenType, ReceiptType
    <3> QED
      BY <1>0, <1>4, <2>1, <3>1, <3>2, <3>3, Zenon DEF TokensInv, Earned
  <2> QED
    BY <1>0, <2>1, <2>2, MintInv, <1>q, Zenon
<1>5. ASSUME NEW tok \in tkTokens \cup tkReceipts, Present(tok) PROVE TokensGood'
  BY <1>0, <1>5, PresentInv, <1>q, Zenon DEF Present
<1>6. ASSUME NEW q \in tkReq, NEW kind \in {"vt", "su"}, NEW sid \in Sids \cup {NoSid}, NEW bind \in Binds,
             HasValid(q, kind, sid, bind)
      PROVE  TokensGood'
  BY <1>0, <1>6, HasValidInv, Zenon DEF TokensGood
<1>7. CASE Advance \/ TokensTick
  <2>1. /\ UNCHANGED <<tkSolved, tkReceipts, tkTokens, tkReq>> /\ tkHonoured' = {}
        /\ tkNow' \in Nat /\ tkBump' \in Nat /\ tkNow <= tkNow' /\ tkBump <= tkBump'
        /\ tkNow \in Nat /\ tkBump \in Nat
    BY <1>0, <1>7 DEF Advance, TokensTick, TokensInv, TokensTypeOK
  <2>2. TokensTypeOK' /\ Earned'
    BY <1>0, <2>1, Zenon DEF TokensInv, TokensTypeOK, Earned
  <2>3. TokensPast'
    BY <1>0, <2>1, SMTT(30) DEF TokensInv, TokensPast
  <2>4. RequestsPast'
    <3> SUFFICES ASSUME NEW q \in tkReq PROVE q.now <= tkNow' /\ q.first - Bucket(q.now) <= tkBump'
      BY <1>0, <2>1, Zenon DEF TokensInv, RequestsPast
    <3>1. q.now \in Nat /\ q.first \in Int /\ Bucket(q.now) \in Nat
      BY <1>0, BucketType, Zenon DEF TokensInv, TokensTypeOK
    <3> QED
      BY <1>0, <2>1, <3>1 DEF TokensInv, RequestsPast
  <2> QED
    BY <2>1, <2>2, <2>3, <2>4, <1>q, Zenon DEF TokensInv
<1>8. CASE UNCHANGED tkVars
  BY <1>8, Zenon DEF tkVars, TokensGood, TokensInv, TokensTypeOK, Earned, TokensPast, RequestsPast, StepUpEarned, OneGraceBucket
<1> QED
  BY <1>1, <1>2, <1>3, <1>4, <1>5, <1>6, <1>7, <1>8, Zenon DEF TokensNext

LEMMA TokensAlwaysGood == TokensSpec => []TokensGood
<1>1. TokensInit => TokensGood
  BY TokensInitInv, NothingHonoured, Zenon DEF TokensInit, TokensGood
<1> QED
  BY <1>1, TokensNextInv, PTL DEF TokensSpec

\* No receipt and no step-up proof exists for a session that has not solved a
\* Pass, and the edge honours a proof only from its socket and its session
\* (handlePassSolve, handleStepUp, verifyStepUpToken).
THEOREM StepUpIsEarned == TokensSpec => []StepUpEarned
<1>1. TokensGood => StepUpEarned
  BY Zenon DEF TokensGood
<1> QED
  BY TokensAlwaysGood, <1>1, PTL

\* Whatever the epoch window and however the clock and manual advances fall
\* between the two readings of the epoch, an honoured token is unexpired and at
\* most one bucket past its minting (EpochManager.Accepted, verifyToken).
THEOREM TokensExpire == TokensSpec => []OneGraceBucket
<1>1. TokensGood => OneGraceBucket
  BY Zenon DEF TokensGood
<1> QED
  BY TokensAlwaysGood, <1>1, PTL

=============================================================================
