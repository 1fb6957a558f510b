---------------------------- MODULE PassChallenge ----------------------------
(***************************************************************************)
(* The Pass challenge of one session (cmd/server/pass_*.go, internal/pass, *)
(* internal/attestation): a client asks for an instance, pays its proof of *)
(* work, obtains an attestation token when the session's cadence demands   *)
(* one, and submits a placement with an interaction proof.  Handlers share *)
(* the session's passSession and take its lock for moments only, so /new,  *)
(* /pow and /solve interleave: one step here is one critical section.      *)
(*                                                                         *)
(* An instance is named by its nonce, in the order nonces are minted.      *)
(* What the handlers write into the session report is modelled in          *)
(* SessionCore.  reserveTrace is called with the clock read right before   *)
(* its lock, here in one step; callers that are late for the lock are      *)
(* those of SingleUse.                                                     *)
(***************************************************************************)
EXTENDS Integers, FiniteSets

CONSTANTS PaHandlers,   \* request slots
          PaTraces,     \* digests of motor traces
          PassMaxTries, \* passMaxTries
          PaMaxAge,     \* pass.MaxBucketAge
          PaSessionTTL, \* age at which a session may be swept under pressure
          PaTraceTTL,   \* traceTTL
          PaMaxTraces,  \* maxTraces
          PaMaxTime,    \* bound: clock, in pass buckets
          PaMaxMinted,  \* bound: instances
          PaMaxReq      \* bound: /pow, /attest and /solve requests

\* A swept session's challenge has expired.
ASSUME PassAssumption ==
  /\ PassMaxTries \in Nat \ {0} /\ PaMaxAge \in Nat /\ PaSessionTTL \in Nat /\ PaSessionTTL > PaMaxAge
  /\ PaMaxMinted \in Nat /\ PaTraceTTL \in Nat /\ PaMaxTraces \in Nat

VARIABLES paNow, paSess, paReq, paMinted, paReqs,
          paTokens,  \* attestation tokens issued: [nonce, window]
          paUsed,    \* passStore.traces: [trace, at]
          paSwept,   \* passStore.lastSweep
          paNeeds,   \* instances that demand an attestation token
          paPaid,    \* instances whose proof of work was verified
          paTried,   \* attempts taken on each instance
          paGrants   \* accepted solves: [nonce, trace, at]

paVars == <<paNow, paSess, paReq, paMinted, paReqs, paTokens, paUsed, paSwept, paNeeds, paPaid, paTried, paGrants>>

NoInstance == 0
Instances == 1..PaMaxMinted
FreshSession(now) == [nonce |-> NoInstance, bucket |-> now, tries |-> 0, solved |-> FALSE, powOK |-> FALSE, attest |-> FALSE]
PaIdle == [pc |-> "idle"]

-----------------------------------------------------------------------------
(***************************************************************************)
(* internal/pass, internal/attestation, pass_scoring.go: the pure parts.   *)
(***************************************************************************)
\* pass.Fresh, and the placement arithmetic of Verify and SolutionOffsets.
Fresh(bucket, current) == current >= bucket /\ current - bucket <= PaMaxAge

dims(difficulty) ==
  LET d == IF difficulty < 0 THEN 0 ELSE IF difficulty > 3 THEN 3 ELSE difficulty
  IN  [n |-> 9 + 2 * d, center |-> (9 + 2 * d) \div 2]

Aligned(key, offset, n, center) == (key + offset) % n = center
SolutionOffset(key, n, center) == (center - key) % n

\* A longer row for a riskier session, never outside the four sizes.
passDifficulty(risk) ==
  LET d == (risk - 20) \div 15
  IN  IF risk < 20 \/ d < 0 THEN 0 ELSE IF d > 3 THEN 3 ELSE d

powDifficulty(difficulty, velocity) ==
  LET d == 14 + difficulty + 2 * velocity IN IF d > 20 THEN 20 ELSE d

\* attestation.Verify: a token of this nonce from a neighbouring window.
AttestVerify(tokens, nonce, current) == \E t \in tokens : t.nonce = nonce /\ t.window - current \in -1..1

-----------------------------------------------------------------------------
PassInit ==
  /\ paNow = 0 /\ paSess = FreshSession(0) /\ paReq = [h \in PaHandlers |-> PaIdle]
  /\ paMinted = 0 /\ paReqs = 0 /\ paTokens = {} /\ paUsed = {} /\ paNeeds = {} /\ paPaid = {}
  /\ paTried = [i \in Instances |-> 0] /\ paGrants = {} /\ paSwept = -PaTraceTTL - 1

PaAt(h, pc) == paReq[h].pc = pc
PaGoto(h, r) == paReq' = [paReq EXCEPT ![h] = r]
PaCounted == paReqs < PaMaxReq /\ paReqs' = paReqs + 1

\* handlePassNew mints the nonce and meters the cadence before it takes the lock.
PassNewBegins(h) ==
  /\ PaAt(h, "idle") /\ paMinted < PaMaxMinted
  /\ paMinted' = paMinted + 1
  /\ \E flagged \in BOOLEAN : PaGoto(h, [pc |-> "new", nonce |-> paMinted + 1, at |-> paNow, flagged |-> flagged])
  /\ UNCHANGED <<paNow, paSess, paReqs, paTokens, paUsed, paSwept, paNeeds, paPaid, paTried, paGrants>>

handlePassNew(h) ==
  LET r == paReq[h]
  IN  /\ PaAt(h, "new")
      /\ paSess' = [nonce |-> r.nonce, bucket |-> r.at, tries |-> 0, solved |-> FALSE, powOK |-> FALSE, attest |-> r.flagged]
      /\ paNeeds' = IF r.flagged THEN paNeeds \cup {r.nonce} ELSE paNeeds
      /\ PaGoto(h, PaIdle)
      /\ UNCHANGED <<paNow, paMinted, paReqs, paTokens, paUsed, paSwept, paPaid, paTried, paGrants>>

\* handlePassAttest: the nonce of the current instance, while the budget lasts.
handlePassAttest ==
  /\ PaCounted
  /\ paSess.nonce # NoInstance
  /\ paTokens' = paTokens \cup {[nonce |-> paSess.nonce, window |-> paNow]}
  /\ UNCHANGED <<paNow, paSess, paReq, paMinted, paUsed, paSwept, paNeeds, paPaid, paTried, paGrants>>

\* handlePassPoW: the nonce is read, the work verified outside the lock, and
\* the axis marked if the instance is still the same.
PassPoWBegins(h) ==
  /\ PaAt(h, "idle") /\ PaCounted
  /\ ~paSess.solved /\ paSess.nonce # NoInstance
  /\ paPaid' = paPaid \cup {paSess.nonce}
  /\ PaGoto(h, [pc |-> "pow", nonce |-> paSess.nonce])
  /\ UNCHANGED <<paNow, paSess, paMinted, paTokens, paUsed, paSwept, paNeeds, paTried, paGrants>>

StillAny(nonce) == TRUE
StillIssued(nonce) == paSess.nonce = nonce

handlePassPoW(h) ==
  /\ PaAt(h, "pow")
  /\ paSess' = IF StillIssued(paReq[h].nonce) THEN [paSess EXCEPT !.powOK = TRUE] ELSE paSess
  /\ PaGoto(h, PaIdle)
  /\ UNCHANGED <<paNow, paMinted, paReqs, paTokens, paUsed, paSwept, paNeeds, paPaid, paTried, paGrants>>

(***************************************************************************)
(* handlePassSolve.                                                        *)
(***************************************************************************)
MoreTries(tries) == tries <= PassMaxTries
TriesLeft(tries) == tries < PassMaxTries

\* The retry cap and the snapshot of the instance, in one critical section.  A
\* session already solved only gets its receipt again.
PassSolveBegins(h) ==
  /\ PaAt(h, "idle") /\ PaCounted
  /\ ~paSess.solved /\ TriesLeft(paSess.tries)
  /\ paSess' = [paSess EXCEPT !.tries = @ + 1]
  /\ paTried' = [i \in Instances |-> IF i = paSess.nonce THEN paTried[i] + 1 ELSE paTried[i]]
  /\ PaGoto(h, [pc |-> "solve", at |-> paNow, nonce |-> paSess.nonce, bucket |-> paSess.bucket,
                powOK |-> paSess.powOK, attest |-> paSess.attest])
  /\ UNCHANGED <<paNow, paMinted, paTokens, paUsed, paSwept, paNeeds, paPaid, paGrants>>

\* Binding, crypto axis, identity axis, real-event filter, expiry, placement;
\* the trace is reserved only once all of them hold.
Cleared(r, sent, proof) ==
  /\ r.nonce # NoInstance /\ sent = r.nonce
  /\ r.powOK
  /\ r.attest => AttestVerify(paTokens, r.nonce, paNow)
  /\ proof # "synthetic"
  /\ Fresh(r.bucket, r.at)
  /\ proof # "misplaced"

\* passStore.reserveTrace under its lock: the expiry sweep, at most once per
\* traceTTL/4 or when the registry is full; then a duplicate and a full registry
\* are refused.
TraceSweepDue == 4 * (paNow - paSwept) > PaTraceTTL \/ Cardinality(paUsed) >= PaMaxTraces
TracesKept == IF TraceSweepDue THEN {e \in paUsed : paNow - e.at <= PaTraceTTL} ELSE paUsed
FreshTrace(trace) == (\A e \in TracesKept : e.trace # trace) /\ Cardinality(TracesKept) < PaMaxTraces

reserveTrace(trace) ==
  /\ paUsed' = IF FreshTrace(trace) THEN TracesKept \cup {[trace |-> trace, at |-> paNow]} ELSE TracesKept
  /\ paSwept' = IF TraceSweepDue THEN paNow ELSE paSwept

\* The rest of the request is first looked at here.
handlePassSolve(h) ==
  \E sent \in 0..paMinted, trace \in PaTraces, proof \in {"human", "synthetic", "misplaced"} :
    LET r == paReq[h]
    IN  /\ PaAt(h, "solve")
        /\ \/ /\ Cleared(r, sent, proof) /\ reserveTrace(trace)
              /\ PaGoto(h, IF FreshTrace(trace) THEN [pc |-> "grant", nonce |-> r.nonce, trace |-> trace, at |-> paNow]
                           ELSE PaIdle)
           \/ ~Cleared(r, sent, proof) /\ PaGoto(h, PaIdle) /\ UNCHANGED <<paUsed, paSwept>>
        /\ UNCHANGED <<paNow, paSess, paMinted, paReqs, paTokens, paNeeds, paPaid, paTried, paGrants>>

\* The flag is set on whatever instance the session holds by now.
PassGrant(h) ==
  /\ PaAt(h, "grant")
  /\ paSess' = [paSess EXCEPT !.solved = TRUE]
  /\ paGrants' = paGrants \cup {[nonce |-> paReq[h].nonce, trace |-> paReq[h].trace, at |-> paReq[h].at]}
  /\ PaGoto(h, PaIdle)
  /\ UNCHANGED <<paNow, paMinted, paReqs, paTokens, paUsed, paSwept, paNeeds, paPaid, paTried>>

\* passStore.get under pressure: a stale session is dropped and comes back new.
PassSweep ==
  /\ \A h \in PaHandlers : PaAt(h, "idle")
  /\ paNow - paSess.bucket > PaSessionTTL
  /\ paSess' = FreshSession(paNow)
  /\ UNCHANGED <<paNow, paReq, paMinted, paReqs, paTokens, paUsed, paSwept, paNeeds, paPaid, paTried, paGrants>>

PassTick ==
  /\ paNow < PaMaxTime /\ paNow' = paNow + 1
  /\ UNCHANGED <<paSess, paReq, paMinted, paReqs, paTokens, paUsed, paSwept, paNeeds, paPaid, paTried, paGrants>>

PassNext ==
  \/ handlePassAttest \/ PassSweep \/ PassTick
  \/ \E h \in PaHandlers :
       \/ PassNewBegins(h) \/ handlePassNew(h) \/ PassPoWBegins(h) \/ handlePassPoW(h)
       \/ PassSolveBegins(h) \/ handlePassSolve(h) \/ PassGrant(h)

PassSpec == PassInit /\ [][PassNext]_paVars

-----------------------------------------------------------------------------
\* Every accepted solve paid the proof of work of the very instance it solves,
\* and its attestation when that instance demanded one, however /new, /pow and
\* /solve interleave; and a session counts as solved (so that a re-poll hands
\* out step-up receipts) only after such a solve (handlePassPoW,
\* handlePassSolve).
GrantsEarned ==
  /\ \A g \in paGrants : /\ g.nonce \in paPaid
                         /\ g.nonce \in paNeeds => \E t \in paTokens : t.nonce = g.nonce
  /\ paSess.solved => paGrants # {}

\* No instance is attempted more often than the retry cap; and a motor trace is
\* accepted again only when its retention window has passed, whether the solves it
\* was accepted for are granted or about to be, however many requests race and
\* whenever the registry is swept (handlePassSolve, reserveTrace).
Apart(s, t) == s - t > PaTraceTTL \/ t - s > PaTraceTTL
AttemptsBounded ==
  /\ \A i \in Instances : paTried[i] <= PassMaxTries
  /\ \A g1, g2 \in paGrants : g1.trace = g2.trace => g1 = g2 \/ Apart(g1.at, g2.at)
  /\ \A h \in PaHandlers : PaAt(h, "grant") =>
       /\ \A g \in paGrants : g.trace = paReq[h].trace => Apart(g.at, paReq[h].at)
       /\ \A k \in PaHandlers \ {h} : (PaAt(k, "grant") /\ paReq[k].trace = paReq[h].trace) => Apart(paReq[k].at, paReq[h].at)

=============================================================================
