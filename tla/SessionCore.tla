----------------------------- MODULE SessionCore -----------------------------
(***************************************************************************)
(* One session of the core service (cmd/server) and the handlers that work *)
(* on it concurrently: /api/session, /api/collect, /api/pow, /csp-report,  *)
(* the report writes of the Pass handlers and the sweep of the session     *)
(* store (internal/collector).  The store locks each call, not each        *)
(* request, so a handler is a sequence of steps, one for every store call, *)
(* with its local state in seReq.                                          *)
(*                                                                         *)
(* The report is the set of server signal ids it carries and the kind of   *)
(* client report last merged; its score is what SeScores says of the two   *)
(* (SessionScoring takes it from Scoring).  Time is counted in request-    *)
(* integrity buckets (ritWindow).  A request token is the counter and      *)
(* bucket its HMAC binds.                                                  *)
(***************************************************************************)
EXTENDS Integers, Sequences

CONSTANTS SeHandlers,   \* request slots of the server
          SeScores,     \* the engine: <<client kind, scored signal ids>> |-> [risk, verdict, ...]
          SePoint,      \* a point of risk in the units of SeScores
          SeObservations, \* what a collect request can bring: [kind, net, extra, token]
          SeTTL,        \* Store.ttl, in buckets (30 minutes: 180)
          SeMaxTime,    \* bound: clock
          SeMaxReq,     \* bound: requests
          SeLastBy,     \* bound: the last of them begins, and the clock stops, by this time
          NoClient      \* the kind of a session no client report was merged into

\* The session lifetime exceeds the span in which a request token is fresh.
ASSUME SessionAssumption == SeTTL \in Nat /\ SeTTL >= 2

VARIABLES seNow,      \* the clock
          seSess,     \* Store.m[sid]: {} or {sessionState}
          seReq,      \* what each request slot is doing
          seCount,    \* requests begun
          seUsed,     \* request tokens accepted so far
          seReplayed, \* some token was accepted after an earlier acceptance of it
          seSettled,  \* evidence the report held when no request could still replace it
          seHeld      \* difficulties delivered in this challenge cycle by requests that ran alone

seVars == <<seNow, seSess, seReq, seCount, seUsed, seReplayed, seSettled, seHeld>>

-----------------------------------------------------------------------------
(***************************************************************************)
(* internal/collector/session.go                                           *)
(***************************************************************************)
NotIssued == 0 - 1
NewSession == [ritN |-> 0, boot |-> FALSE, pinned |-> FALSE, net |-> {}, client |-> NoClient,
               solved |-> FALSE, issued |-> NotIssued, diff |-> 0, tooFast |-> FALSE, updated |-> seNow]

Ensured == IF seSess = {} THEN NewSession ELSE CHOOSE s \in seSess : TRUE
Touch(s) == {[s EXCEPT !.updated = seNow]}

RITCounter == Ensured.ritN
AdvanceRIT == Touch([Ensured EXCEPT !.ritN = @ + 1])
ClaimRITBootstrap == Touch([Ensured EXCEPT !.boot = TRUE])
SetPowSolved == {[s EXCEPT !.solved = TRUE, !.issued = NotIssued, !.diff = 0, !.updated = seNow] : s \in seSess}
SetPowIssued(d) == {IF s.issued = NotIssued THEN [s EXCEPT !.issued = seNow, !.diff = d] ELSE s : s \in seSess}
SetPowTooFast == {[s EXCEPT !.tooFast = TRUE] : s \in seSess}
PowDifficulty == Ensured.diff
PowSolved == Ensured.solved
PowTooFast == Ensured.tooFast

(***************************************************************************)
(* internal/collector/merge.go                                             *)
(***************************************************************************)
requestScopedNetwork == {"l5.header.proxy_hop"}

MergeNetworkUnpinned(net) == Touch([Ensured EXCEPT !.pinned = TRUE, !.net = net])

MergeNetwork(net) ==
  Touch([Ensured EXCEPT !.pinned = TRUE,
                        !.net = IF Ensured.pinned THEN @ \cup (net \cap requestScopedNetwork) ELSE net])

MergeClient(kind) == Touch([Ensured EXCEPT !.client = kind])
AppendNetworkSignals(id) == Touch([Ensured EXCEPT !.net = @ \cup {id}])
StoreScored(rep) == Touch([Ensured EXCEPT !.net = rep.net, !.client = rep.client])
GetReport == [net |-> Ensured.net, client |-> Ensured.client]

\* A snapshot of the report shares the array of its signals with the store.
\* An append outside the lock (handlePoW) and an append under it can write the
\* same slot: the outcomes for a signal added after the snapshot was taken.
Clobbered(net, base, id) == {net} \cup {(net \ {x}) \cup {id} : x \in net \ base}

-----------------------------------------------------------------------------
(***************************************************************************)
(* The score of a stored report.                                           *)
(***************************************************************************)
Upgrade == "l7.pow.solved"
TooFastId == "l7.pow.too_fast"
NetIds == {"l5.rit.ok", "l5.rit.bootstrap", "l5.rit.absent", "l5.rit.stale_replay", "l5.rit.header_tampered",
           "l5.header.proxy_hop", "l5.abuse.flood", "l3.guard.csp_violation", Upgrade, TooFastId, "l7.pass.flood", "l7.pass.solved"}

\* A token that is in order contributes nothing to a score.
ScoredIds == NetIds \ {"l5.rit.ok", "l5.rit.bootstrap"}

\* pow.go: the difficulty a risk asks for.
DifficultyFor(risk) ==
  CASE risk >= 70 * SePoint -> 17
    [] risk >= 50 * SePoint /\ risk < 70 * SePoint -> 16
    [] risk >= 30 * SePoint /\ risk < 50 * SePoint -> 14
    [] OTHER -> 0

-----------------------------------------------------------------------------
(***************************************************************************)
(* Requests.                                                               *)
(***************************************************************************)
Idle == [pc |-> "idle"]
Active(h) == seReq[h].pc # "idle"
Busy == {h \in SeHandlers : Active(h)}

Counted == /\ seCount < SeMaxReq /\ (seCount + 1 = SeMaxReq => seNow <= SeLastBy)
           /\ seCount' = seCount + 1

\* A request begins: nobody it overlaps runs alone any more.
Begin(h, r) ==
  /\ ~Active(h) /\ Counted
  /\ seReq' = [g \in SeHandlers |-> IF g = h THEN [r EXCEPT !.alone = Busy = {}]
                                    ELSE IF Active(g) THEN [seReq[g] EXCEPT !.alone = FALSE] ELSE seReq[g]]

Goto(h, r) == seReq' = [seReq EXCEPT ![h] = r]
At(h, pc) == seReq[h].pc = pc

\* What the report holds once nobody is left who could store an older one.
Settle(sess) == UNION {IF s.pinned THEN s.net ELSE {} : s \in sess}

Finish(h, sess) ==
  /\ seSess' = sess
  /\ seReq' = [seReq EXCEPT ![h] = Idle]
  /\ seSettled' = IF Busy = {h} THEN Settle(sess) ELSE seSettled

\* An append under the lock, and the slots of the snapshots it may share.
Shares(h, g, id) == At(g, "powstore") /\ g # h /\ Ensured.net = seReq[g].base
Appends(h, id, r) ==
  /\ seSess' = AppendNetworkSignals(id)
  /\ \E lose \in SUBSET {g \in SeHandlers : Shares(h, g, id)} :
       seReq' = [g \in SeHandlers |-> IF g = h THEN r
                                      ELSE IF g \in lose THEN [seReq[g] EXCEPT !.rep.net = seReq[g].base \cup {id}]
                                      ELSE seReq[g]]

SessionInit ==
  /\ seNow = 0 /\ seSess = {} /\ seReq = [h \in SeHandlers |-> Idle] /\ seCount = 0
  /\ seUsed = {} /\ seReplayed = FALSE /\ seSettled = {} /\ seHeld = {}

-----------------------------------------------------------------------------
(***************************************************************************)
(* /api/session: the session exists afterwards; the seed the client gets   *)
(* for the counter it reads lets it sign request ritN + 1.                 *)
(***************************************************************************)
handleSession ==
  /\ Counted
  /\ seSess' = Touch(Ensured)
  /\ UNCHANGED <<seNow, seReq, seUsed, seReplayed, seSettled, seHeld>>

\* /csp-report: one append; no session state is read.
handleCSPReport(h) ==
  /\ ~Active(h) /\ Counted
  /\ Appends(h, "l3.guard.csp_violation", Idle)
  /\ seSettled' = IF Busy = {} THEN Settle(seSess') ELSE seSettled
  /\ UNCHANGED <<seNow, seUsed, seReplayed, seHeld>>

(***************************************************************************)
(* /api/collect, request-integrity part: the counter is read first; the    *)
(* grace is claimed, or the counter advanced, in a later step.             *)
(***************************************************************************)
\* No token; one seen before; the next in sequence, from a client whose clock
\* is ahead; or one whose HMAC does not match the request.
Tokens(which) ==
  CASE which = "none" -> {{}}
    [] which = "used" -> {{t} : t \in seUsed}
    [] OTHER -> {{[n |-> RITCounter + 1, tb |-> seNow + 1, good |-> which = "next"]}}

ReadRIT(h) ==
  \E o \in SeObservations :
    \E token \in Tokens(o.token) :
      /\ Begin(h, [pc |-> "rit", alone |-> TRUE, seen |-> o, token |-> token, lastN |-> RITCounter, tb |-> seNow,
                   again |-> token \cap seUsed # {}])
      /\ UNCHANGED <<seNow, seSess, seUsed, seReplayed, seSettled, seHeld>>

withinAnyTB(a, b) == TRUE
withinTB(a, b) == a - b \in -1..1

Merging(r, id) == [pc |-> "merge", alone |-> r.alone, seen |-> r.seen, todo |-> <<id>> \o r.seen.extra]

verifyRIT(h) ==
  LET r == seReq[h]
      Answer(id) == Goto(h, Merging(r, id))
      sequenced == \E t \in r.token : t.n = r.lastN + 1 /\ withinTB(t.tb, r.tb)
  IN  /\ At(h, "rit")
      /\ \/ /\ r.token = {} /\ r.lastN = 0
            /\ seSess' = ClaimRITBootstrap
            /\ Answer(IF Ensured.boot THEN "l5.rit.absent" ELSE "l5.rit.bootstrap")
            /\ UNCHANGED <<seUsed, seReplayed>>
         \/ /\ r.token = {} /\ r.lastN # 0
            /\ Answer("l5.rit.absent")
            /\ UNCHANGED <<seSess, seUsed, seReplayed>>
         \/ /\ r.token # {} /\ ~sequenced
            /\ Answer("l5.rit.stale_replay")
            /\ UNCHANGED <<seSess, seUsed, seReplayed>>
         \/ /\ sequenced /\ \E t \in r.token : ~t.good
            /\ Answer("l5.rit.header_tampered")
            /\ UNCHANGED <<seSess, seUsed, seReplayed>>
         \/ /\ sequenced /\ \A t \in r.token : t.good
            /\ seSess' = AdvanceRIT
            /\ Answer("l5.rit.ok")
            /\ seUsed' = seUsed \cup r.token
            /\ seReplayed' = (seReplayed \/ r.again)
      /\ UNCHANGED <<seNow, seCount, seSettled, seHeld>>

(***************************************************************************)
(* /api/collect, the rest of the pipeline: merge, enrich, score, store.    *)
(***************************************************************************)
mergeObservation(h) ==
  LET r == seReq[h]
  IN  \/ /\ At(h, "merge")
         /\ seSess' = MergeNetwork(r.seen.net)
         /\ Goto(h, [r EXCEPT !.pc = "client"])
         /\ UNCHANGED <<seNow, seCount, seUsed, seReplayed, seSettled, seHeld>>
      \/ /\ At(h, "client")
         /\ seSess' = MergeClient(r.seen.kind)
         /\ Goto(h, [r EXCEPT !.pc = "enrich"])
         /\ UNCHANGED <<seNow, seCount, seUsed, seReplayed, seSettled, seHeld>>

\* Each domain appends in a call of its own; a solved challenge is re-read last.
enrichServerSignals(h) ==
  LET r == seReq[h]
      Record(id, next) ==
        /\ Appends(h, id, next)
        /\ seSettled' = IF r.alone THEN seSettled \cup {id} ELSE seSettled
  IN  /\ At(h, "enrich")
      /\ \/ r.todo # <<>> /\ Record(Head(r.todo), [r EXCEPT !.todo = Tail(@)])
         \/ r.todo = <<>> /\ PowSolved /\ Record(Upgrade, [pc |-> "score", alone |-> r.alone])
         \/ /\ r.todo = <<>> /\ ~PowSolved
            /\ Goto(h, [pc |-> "score", alone |-> r.alone])
            /\ UNCHANGED <<seSess, seSettled>>
      /\ UNCHANGED <<seNow, seCount, seUsed, seReplayed, seHeld>>

scoreAndStore(h) ==
  LET r == seReq[h]
  IN  \/ /\ At(h, "score")
         /\ Goto(h, [pc |-> "store", alone |-> r.alone, rep |-> GetReport])
         /\ UNCHANGED <<seNow, seSess, seCount, seUsed, seReplayed, seSettled, seHeld>>
      \/ /\ At(h, "store")
         /\ seSess' = StoreScored(r.rep)
         /\ Goto(h, [pc |-> "issue", alone |-> r.alone, res |-> SeScores[<<r.rep.client, r.rep.net \cap ScoredIds>>]])
         /\ UNCHANGED <<seNow, seCount, seUsed, seReplayed, seSettled, seHeld>>

(***************************************************************************)
(* The challenge header of a collect response: solved?, the difficulty     *)
(* already issued, the delivery.  The response ends the request.           *)
(***************************************************************************)
Redelivers(risk, issued) == DifficultyFor(risk)
Offered(risk, issued) == IF issued > 0 THEN issued ELSE DifficultyFor(risk)

issuePoWHeader(h) ==
  LET r == seReq[h]
  IN  \/ /\ At(h, "issue") /\ (r.res.verdict # "CHALLENGE" \/ PowSolved)
         /\ Finish(h, seSess)
         /\ UNCHANGED <<seNow, seCount, seUsed, seReplayed, seHeld>>
      \/ /\ At(h, "issue") /\ r.res.verdict = "CHALLENGE" /\ ~PowSolved
         /\ Goto(h, [r EXCEPT !.pc = "diff"])
         /\ UNCHANGED <<seNow, seSess, seCount, seUsed, seReplayed, seSettled, seHeld>>
      \/ /\ At(h, "diff") /\ Offered(r.res.risk, PowDifficulty) > 0
         /\ Goto(h, [pc |-> "deliver", alone |-> r.alone, d |-> Offered(r.res.risk, PowDifficulty)])
         /\ UNCHANGED <<seNow, seSess, seCount, seUsed, seReplayed, seSettled, seHeld>>
      \/ /\ At(h, "diff") /\ Offered(r.res.risk, PowDifficulty) <= 0
         /\ Finish(h, seSess)
         /\ UNCHANGED <<seNow, seCount, seUsed, seReplayed, seHeld>>
      \/ /\ At(h, "deliver")
         /\ seHeld' = IF r.alone THEN seHeld \cup {r.d} ELSE seHeld
         /\ Finish(h, SetPowIssued(r.d))
         /\ UNCHANGED <<seNow, seCount, seUsed, seReplayed>>

-----------------------------------------------------------------------------
(***************************************************************************)
(* /api/pow.  The report is read before anything else and stored last.     *)
(* The work a nonce shows (leading zero bits over the seed of a bucket     *)
(* within one of the current) is 0 when it is invalid or stale.            *)
(***************************************************************************)
SolutionBits == {0, 14, 17}

PowGet(h) ==
  /\ seSess # {}
  /\ Begin(h, [pc |-> "powdiff", alone |-> TRUE, rep |-> GetReport])
  /\ UNCHANGED <<seNow, seSess, seUsed, seReplayed, seSettled, seHeld>>

Verify(bits, difficulty) == difficulty > 0 /\ bits >= difficulty

PowVerify(h) ==
  \E bits \in SolutionBits :
    /\ At(h, "powdiff")
    /\ \/ Verify(bits, PowDifficulty) /\ Goto(h, [seReq[h] EXCEPT !.pc = "powtime"]) /\ UNCHANGED <<seSess, seSettled>>
       \/ ~Verify(bits, PowDifficulty) /\ Finish(h, seSess)
    /\ UNCHANGED <<seNow, seCount, seUsed, seReplayed, seHeld>>

\* plausibleBrowserSolve is milliseconds: only an answer of the bucket the
\* challenge was issued in can be too fast.
PowTime(h) ==
  LET r == seReq[h]
  IN  /\ At(h, "powtime")
      /\ \E fast \in {FALSE} \cup {TRUE : s \in {x \in seSess : x.issued = seNow}} :
           Goto(h, [pc |-> "powflag", alone |-> r.alone, rep |-> r.rep, fast |-> fast])
      /\ UNCHANGED <<seNow, seSess, seCount, seUsed, seReplayed, seSettled, seHeld>>

PowFlag(h) ==
  LET r == seReq[h]
      fast == r.fast \/ PowTooFast
  IN  /\ At(h, "powflag")
      /\ Goto(h, [pc |-> "powmark", alone |-> r.alone, rep |-> r.rep, id |-> IF fast THEN TooFastId ELSE Upgrade])
      /\ UNCHANGED <<seNow, seSess, seCount, seUsed, seReplayed, seSettled, seHeld>>

\* The flag is set in the store, and the signal appended to the snapshot.
PowMark(h) ==
  LET r == seReq[h]
      marked == IF r.id = Upgrade THEN SetPowSolved ELSE SetPowTooFast
  IN  /\ At(h, "powmark")
      /\ seSess' \in {{[s EXCEPT !.net = net] : s \in marked} : net \in Clobbered(Ensured.net, r.rep.net, r.id)}
      /\ seHeld' = IF r.id = Upgrade THEN {} ELSE seHeld
      /\ Goto(h, [pc |-> "powstore", alone |-> r.alone, base |-> r.rep.net, rep |-> [r.rep EXCEPT !.net = @ \cup {r.id}]])
      /\ UNCHANGED <<seNow, seCount, seUsed, seReplayed, seSettled>>

PowStore(h) ==
  /\ At(h, "powstore")
  /\ Finish(h, StoreScored(seReq[h].rep))
  /\ UNCHANGED <<seNow, seCount, seUsed, seReplayed, seHeld>>

(***************************************************************************)
(* The Pass handlers' writes to the report: applyPassVelocity's flag and   *)
(* the upgrade of a cleared challenge are each appended to a snapshot and  *)
(* the whole report is stored back.                                        *)
(***************************************************************************)
PassReads(h) ==
  /\ seSess # {}
  /\ \E id \in {"l7.pass.flood", "l7.pass.solved"} :
       Begin(h, [pc |-> "passmark", alone |-> TRUE, rep |-> GetReport, id |-> id])
  /\ UNCHANGED <<seNow, seSess, seUsed, seReplayed, seSettled, seHeld>>

PassAppends(h) ==
  LET r == seReq[h]
  IN  /\ At(h, "passmark")
      /\ seSess' \in {{[s EXCEPT !.net = net] : s \in seSess} : net \in Clobbered(Ensured.net, r.rep.net, r.id)}
      /\ Goto(h, [pc |-> "powstore", alone |-> r.alone, base |-> r.rep.net, rep |-> [r.rep EXCEPT !.net = @ \cup {r.id}]])
      /\ UNCHANGED <<seNow, seCount, seUsed, seReplayed, seSettled, seHeld>>

-----------------------------------------------------------------------------
\* Store.GC: a request lives seconds (the server's read and write timeouts),
\* a session half an hour, so none is in flight when its session expires.
SessionGC ==
  /\ Busy = {} /\ \E s \in seSess : seNow - s.updated > SeTTL
  /\ seSess' = {} /\ seSettled' = {} /\ seHeld' = {}
  /\ UNCHANGED <<seNow, seReq, seCount, seUsed, seReplayed>>

\* A bucket is seconds and a step microseconds: of the moments inside a request
\* only the one between reading the counter and judging the token against it
\* tells a tick from one before or after the request.
SessionTick ==
  /\ seNow < SeMaxTime /\ seNow' = seNow + 1
  /\ (seCount = SeMaxReq => seNow < SeLastBy)
  /\ \A h \in Busy : At(h, "rit")
  /\ UNCHANGED <<seSess, seReq, seCount, seUsed, seReplayed, seSettled, seHeld>>

SessionNext ==
  \/ handleSession \/ SessionGC \/ SessionTick
  \/ \E h \in SeHandlers :
       \/ handleCSPReport(h) \/ ReadRIT(h) \/ verifyRIT(h) \/ mergeObservation(h) \/ enrichServerSignals(h)
       \/ scoreAndStore(h) \/ issuePoWHeader(h)
       \/ PowGet(h) \/ PowVerify(h) \/ PowTime(h) \/ PowFlag(h) \/ PowMark(h) \/ PowStore(h)
       \/ PassReads(h) \/ PassAppends(h)

SessionSpec == SessionInit /\ [][SessionNext]_seVars

-----------------------------------------------------------------------------
(***************************************************************************)
(* Properties.                                                             *)
(***************************************************************************)
\* A request token is accepted a second time only by a request that was
\* already being served when the first acceptance happened: the counter
\* rejects it for the life of the session, and the time bucket after the
\* session has been swept and its counter starts again at zero (verifyRIT,
\* AdvanceRIT, Store.GC).
TokensNotReplayed == ~seReplayed

\* Evidence about a pinned session is never dropped once it is settled: what a
\* request that ran alone appended, and what the report held when no request
\* was in flight, stays in the report through every later collect, solve and
\* racing whole-report store (MergeNetwork, StoreScored, handlePoW).
EvidenceKept == \A s \in seSess : seSettled \subseteq s.net

\* The difficulty a client was handed by a request that ran alone is the one
\* its solution is verified at until a solution is accepted, whatever happens
\* to its risk meanwhile (issuePoWHeader, SetPowIssued, handlePoW).
ChallengeHonoured == \A s \in seSess : \A d \in seHeld : s.diff = d

=============================================================================
