------------------------------ MODULE SingleUse ------------------------------
(***************************************************************************)
(* The anti-replay registries: the beacon nonces and the Web Bot Auth      *)
(* nonces (NonceCache), the spent Private Access Tokens (PATVerifier), the *)
(* motor traces of Pass (passStore.reserveTrace) and the WebAuthn          *)
(* counters.  All but the last are one algorithm written three times: a    *)
(* map from what was consumed to when, an expiry sweep at most once per    *)
(* ttl/4 or when the map is full, and a hard cap at which new entries are  *)
(* refused.  They do not touch each other, so suKind picks the registry a  *)
(* behaviour is about.                                                     *)
(*                                                                         *)
(* A caller reads the clock before it takes the lock: suReq holds the      *)
(* callers in between, and the clock may pass them by at most MaxLate.     *)
(* Signatures are verified outside the model: what is presented here is    *)
(* authentic, and only freshness and reuse are left to decide.             *)
(***************************************************************************)
EXTENDS Integers, FiniteSets

CONSTANTS Nonces, NoNonce, NonceTTL, NonceMax, SigSkew, MaxLate,
          SigCreated, SigExpires,  \* times a signature may carry; zero stands for none
          SuCounters,              \* counters an assertion may carry
          SuMaxTime, MaxCallers    \* bounds: the clock, callers at once

ASSUME SingleUseAssumption ==
    /\ NonceTTL \in Nat /\ NonceMax \in Nat /\ SigSkew \in Nat /\ MaxLate \in Nat
    /\ SigCreated \subseteq Nat /\ SigExpires \subseteq Nat /\ SuCounters \subseteq Nat
    /\ SuMaxTime \in Nat /\ MaxCallers \in Nat /\ NoNonce \notin Nonces

MaxLifetime == NonceTTL   \* one hour, both

VARIABLES suKind, suNow, suSeen, suSwept, suCount, suReq, suUsed
suVars == <<suKind, suNow, suSeen, suSwept, suCount, suReq, suUsed>>

\* Entries older than the retention window, dropped when a sweep is due.
SweepDue(seen, swept, now) == 4 * (now - swept) > NonceTTL \/ Cardinality(seen) >= NonceMax
InRetention(seen, now) == {e \in seen : now - e.at <= NonceTTL}
Kept(now) == IF SweepDue(suSeen, suSwept, now) THEN InRetention(suSeen, now) ELSE suSeen

\* What is honoured is recorded with the time it was honoured, what was honoured
\* before under the same name and, for a signature, the end of its declared life
\* and how far its creation was ahead of the clock.
Past(n) == {[when |-> u.when, end |-> u.until - u.ahead] : u \in {w \in suUsed : w.n = n}}
Honoured(n, until, ahead) == [n |-> n, when |-> suNow, until |-> until, ahead |-> ahead, past |-> Past(n)]

\* A registry that forgets what it saw when it is full, instead of refusing.
ConsumeEvicting(n, now, until, ahead) ==
    LET kept  == IF Cardinality(Kept(now)) >= NonceMax THEN {} ELSE Kept(now)
        fresh == \A e \in kept : e.n # n
    IN  /\ suSeen' = IF fresh THEN kept \cup {[n |-> n, at |-> now]} ELSE kept
        /\ suUsed' = IF fresh THEN suUsed \cup {Honoured(n, until, ahead)} ELSE suUsed
        /\ suSwept' = IF SweepDue(suSeen, suSwept, now) THEN now ELSE suSwept

\* NonceCache.Use under its lock, with the clock its caller read: a duplicate is
\* a replay, and a full registry refuses.
Consume(n, now, until, ahead) ==
    LET kept  == Kept(now)
        fresh == (\A e \in kept : e.n # n) /\ Cardinality(kept) < NonceMax
    IN  /\ suSeen' = IF fresh THEN kept \cup {[n |-> n, at |-> now]} ELSE kept
        /\ suUsed' = IF fresh THEN suUsed \cup {Honoured(n, until, ahead)} ELSE suUsed
        /\ suSwept' = IF SweepDue(suSeen, suSwept, now) THEN now ELSE suSwept

\* What carries no nonce is honoured without the registry, each time it comes; the
\* record holds the last time.
HonourUnnamed(until, ahead) ==
    /\ suUsed' = {u \in suUsed : u.n # NoNonce}
                   \cup {[n |-> NoNonce, when |-> suNow, until |-> until, ahead |-> ahead, past |-> {}]}
    /\ UNCHANGED <<suSeen, suSwept>>

Caller(kind, n, created, expires) ==
    /\ suKind = kind
    /\ Cardinality(suReq) < MaxCallers
    /\ suReq' = suReq \cup {[n |-> n, at |-> suNow, created |-> created, expires |-> expires]}
    /\ UNCHANGED <<suKind, suNow, suSeen, suSwept, suCount, suUsed>>

Done(q) == suReq' = suReq \ {q} /\ UNCHANGED <<suKind, suNow, suCount>>

\* rejectBeaconReplay: a beacon without the header is not a replay.
BeaconArrives(n) == Caller("beacon", n, 0, 0)
RejectBeaconReplay(q) ==
    /\ suKind = "beacon"
    /\ IF q.n = NoNonce
       THEN HonourUnnamed(SuMaxTime + NonceTTL, 0)
       ELSE Consume(q.n, q.at, SuMaxTime + NonceTTL, 0)
    /\ Done(q)

\* verifyPrivateToken after the RSA check; reserveTrace after a verified solve.
TokenArrives(n) == Caller("pat", n, 0, 0)
VerifyPrivateToken(q) ==
    /\ suKind = "pat"
    /\ Consume(q.n, q.at, SuMaxTime + NonceTTL, 0)
    /\ Done(q)

TraceArrives(n) == Caller("trace", n, 0, 0)
ReserveTrace(q) ==
    /\ suKind = "trace"
    /\ Consume(q.n, q.at, SuMaxTime + NonceTTL, 0)
    /\ Done(q)

\* The freshness rules of verifyAgent; zero stands for an absent parameter.
FreshSignature(created, expires, now) ==
    /\ created # 0 => created <= now + SigSkew
    /\ expires # 0 =>
         /\ expires >= now - SigSkew
         /\ expires - now <= MaxLifetime
         /\ created # 0 => expires - created <= MaxLifetime
    /\ (expires = 0 /\ created # 0) => now - created <= MaxLifetime
    /\ expires # 0 \/ created # 0

\* The life a signature declares, and the skew its creation shows.
DeclaredEnd(created, expires) == IF expires # 0 THEN expires ELSE created + MaxLifetime
Ahead(created, now) == IF created > now THEN created - now ELSE 0

\* One nonce is bound to one signature: a signer does not reuse nonces, so the
\* signature a nonce names has one creation and one expiry.
AgentArrives(n, created, expires) ==
    /\ \A u \in suUsed : (u.n = n /\ n # NoNonce) => u.until = DeclaredEnd(created, expires)
    /\ \A q \in suReq : (q.n = n /\ n # NoNonce) => q.created = created /\ q.expires = expires
    /\ Caller("agent", n, created, expires)
VerifyAgent(q) ==
    LET fresh == FreshSignature(q.created, q.expires, q.at)
        until == DeclaredEnd(q.created, q.expires)
        ahead == Ahead(q.created, q.at)
    IN  /\ suKind = "agent"
        /\ \/ ~fresh /\ UNCHANGED <<suSeen, suSwept, suUsed>>
           \/ fresh /\ q.n = NoNonce /\ HonourUnnamed(until, ahead)
           \/ fresh /\ q.n # NoNonce /\ Consume(q.n, q.at, until, ahead)
        /\ Done(q)

\* WebAuthnRegistry.verify after the signature check, under its lock: the
\* counter of the one credential must advance, and zero is refused.
VerifyAssertion(counter) ==
    /\ suKind = "webauthn"
    /\ counter # 0 /\ counter > suCount
    /\ suCount' = counter
    /\ suUsed' = suUsed \cup {Honoured(counter, SuMaxTime + NonceTTL, 0)}
    /\ UNCHANGED <<suKind, suNow, suSeen, suSwept, suReq>>

SingleUseTick ==
    /\ suNow < SuMaxTime
    /\ \A q \in suReq : suNow - q.at < MaxLate
    /\ suNow' = suNow + 1
    /\ UNCHANGED <<suKind, suSeen, suSwept, suCount, suReq, suUsed>>

SingleUseInit ==
    /\ suKind \in {"beacon", "pat", "trace", "agent", "webauthn"}
    /\ suNow = 1 /\ suCount = 0 /\ suSwept = 1 - NonceTTL
    /\ suSeen = {} /\ suReq = {} /\ suUsed = {}

SingleUseNext ==
    \/ \E n \in Nonces \cup {NoNonce} : BeaconArrives(n)
    \/ \E q \in suReq : RejectBeaconReplay(q)
    \/ \E n \in Nonces : TokenArrives(n)
    \/ \E q \in suReq : VerifyPrivateToken(q)
    \/ \E n \in Nonces : TraceArrives(n)
    \/ \E q \in suReq : ReserveTrace(q)
    \/ \E n \in Nonces \cup {NoNonce}, created \in SigCreated, expires \in SigExpires :
         AgentArrives(n, created, expires)
    \/ \E q \in suReq : VerifyAgent(q)
    \/ \E counter \in SuCounters : VerifyAssertion(counter)
    \/ SingleUseTick

SingleUseSpec == SingleUseInit /\ [][SingleUseNext]_suVars
-----------------------------------------------------------------------------
\* What was consumed under a name is not honoured again inside its retention
\* window, short of the lateness of a caller's clock, nor a WebAuthn assertion
\* ever; and a Web Bot Auth signature that carries a nonce is never honoured twice
\* within the life it declares, short of what its creation was ahead of the clock
\* that accepted it, although the registry keeps its nonce for one hour and the
\* verifier tolerates clock skew.  One without a nonce is honoured as often as it
\* comes, and like every other no later than the skew after its life (gate.go:341,
\* webbotauth.go:149; token.go:263; pass_store.go:57).
HonouredOnce ==
    \A v \in suUsed :
        /\ v.n # NoNonce => \A u \in v.past : /\ suKind # "webauthn" /\ v.when - u.when > NonceTTL - MaxLate
                                              /\ suKind = "agent" => v.when > u.end
        /\ suKind = "agent" => v.when <= v.until + SigSkew + MaxLate

=============================================================================
