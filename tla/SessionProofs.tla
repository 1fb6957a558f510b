--------------------------- MODULE SessionProofs ----------------------------
(* The core server's session store for any number of concurrent requests, any  *)
(* scoring engine and any session lifetime: request tokens are not replayed,   *)
(* evidence that settled is kept, and a challenge keeps its difficulty.  Of    *)
(* the scoring engine itself: its trace agrees with the score it explains.     *)
EXTENDS SessionCore, Scoring, TLAPS

(***************************************************************************)
(* The session store under concurrent requests                             *)
(***************************************************************************)
WellFormed(s) ==
  s = [ritN |-> s.ritN, boot |-> s.boot, pinned |-> s.pinned, net |-> s.net, client |-> s.client,
       solved |-> s.solved, issued |-> s.issued, diff |-> s.diff, tooFast |-> s.tooFast, updated |-> s.updated]

SessionOK(s, now) ==
  /\ WellFormed(s)
  /\ s.ritN \in Nat /\ s.pinned \in BOOLEAN /\ s.updated \in Nat /\ s.updated <= now
  /\ s.issued \in Nat \cup {NotIssued} /\ s.diff \in Nat
  /\ (s.issued = NotIssued <=> s.diff = 0)

\* A challenge cycle starts with no difficulty held; settled evidence is in the
\* report, and there is none before the first pin.
StoreOK(sess, now, settled, held) ==
  /\ sess = {} => settled = {} /\ held = {}
  /\ sess # {} => \E s : sess = {s}
  /\ \A s \in sess : /\ SessionOK(s, now)
                     /\ settled \subseteq s.net
                     /\ ~s.pinned => settled = {}
                     /\ \A d \in held : s.diff = d /\ s.diff > 0

\* A token already accepted is behind the counter of the session, or its bucket
\* has passed.
UsedOK(used, sess, now) ==
  \A t \in used : /\ t.n \in Nat /\ t.tb \in Nat
                  /\ t.tb + 2 <= now \/ \E s \in sess : t.n <= s.ritN /\ t.tb <= s.updated + 1

\* A collect request between reading the counter and judging its token.
Judging(r, sess, now) ==
  /\ r = [pc |-> "rit", alone |-> r.alone, seen |-> r.seen, token |-> r.token, lastN |-> r.lastN, tb |-> r.tb, again |-> r.again]
  /\ r.lastN \in Nat /\ r.tb \in Nat /\ r.tb <= now
  /\ sess = {} => r.lastN = 0
  /\ \A s \in sess : r.lastN <= s.ritN
  /\ \A t, u \in r.token : t = u
  /\ \A t \in r.token : t.n \in Nat /\ t.tb \in Nat /\ (r.again => t.n <= r.lastN \/ t.tb + 2 <= r.tb)

Merges(r) == r = [pc |-> "merge", alone |-> r.alone, seen |-> r.seen, todo |-> r.todo]

Collecting(r, sess) ==
  \/ /\ r.pc \in {"client", "enrich"}
     /\ r = [pc |-> r.pc, alone |-> r.alone, seen |-> r.seen, todo |-> r.todo]
     /\ \A s \in sess : s.pinned
  \/ r = [pc |-> "score", alone |-> r.alone]

Snapshot(rep, settled) == rep = [net |-> rep.net, client |-> rep.client] /\ settled \subseteq rep.net

\* A request that holds a snapshot of the report, to store it or an extension of it.
Holding(r, settled) ==
  /\ Snapshot(r.rep, settled)
  /\ \/ r.pc \in {"store", "powdiff", "powtime"} /\ r = [pc |-> r.pc, alone |-> r.alone, rep |-> r.rep]
     \/ r = [pc |-> "powflag", alone |-> r.alone, rep |-> r.rep, fast |-> r.fast]
     \/ r.pc \in {"powmark", "passmark"} /\ r = [pc |-> r.pc, alone |-> r.alone, rep |-> r.rep, id |-> r.id]
     \/ r = [pc |-> "powstore", alone |-> r.alone, base |-> r.base, rep |-> r.rep] /\ settled \subseteq r.base

Answering(r, sess) ==
  \/ r.pc \in {"issue", "diff"} /\ r = [pc |-> r.pc, alone |-> r.alone, res |-> r.res]
  \/ /\ r = [pc |-> "deliver", alone |-> r.alone, d |-> r.d]
     /\ r.d \in Nat \ {0}
     /\ r.alone => \A s \in sess : s.diff > 0 => s.diff = r.d

HandlerOK(r, sess, settled, now) ==
  \/ r = Idle
  \/ r.alone \in BOOLEAN /\ (Judging(r, sess, now) \/ Merges(r))
  \/ r.alone \in BOOLEAN /\ sess # {} /\ (Collecting(r, sess) \/ Holding(r, settled) \/ Answering(r, sess))

AloneOK == \A g, h \in SeHandlers : g # h /\ Active(g) /\ Active(h) => ~seReq[g].alone

SeInv ==
  /\ seNow \in Nat
  /\ seReq = [h \in SeHandlers |-> seReq[h]]
  /\ seReplayed = FALSE
  /\ StoreOK(seSess, seNow, seSettled, seHeld)
  /\ UsedOK(seUsed, seSess, seNow)
  /\ \A h \in SeHandlers : HandlerOK(seReq[h], seSess, seSettled, seNow)
  /\ AloneOK

\* What a store call may do to the session others are working on.
Follows(u, s) == s.ritN <= u.ritN /\ s.updated <= u.updated /\ (s.pinned => u.pinned)

\* The fields of a session the properties speak of.
Fields(s, ritN, pinned, net, issued, diff, updated) ==
  /\ WellFormed(s)
  /\ s.ritN = ritN /\ s.pinned = pinned /\ s.net = net /\ s.issued = issued /\ s.diff = diff /\ s.updated = updated

\* An assignment to one field keeps the others.
LEMMA FieldEdits ==
  ASSUME NEW s, WellFormed(s), NEW x
  PROVE  /\ Fields([s EXCEPT !.ritN = x], x, s.pinned, s.net, s.issued, s.diff, s.updated)
         /\ Fields([s EXCEPT !.boot = x], s.ritN, s.pinned, s.net, s.issued, s.diff, s.updated)
         /\ Fields([s EXCEPT !.pinned = x], s.ritN, x, s.net, s.issued, s.diff, s.updated)
         /\ Fields([s EXCEPT !.net = x], s.ritN, s.pinned, x, s.issued, s.diff, s.updated)
         /\ Fields([s EXCEPT !.client = x], s.ritN, s.pinned, s.net, s.issued, s.diff, s.updated)
         /\ Fields([s EXCEPT !.solved = x], s.ritN, s.pinned, s.net, s.issued, s.diff, s.updated)
         /\ Fields([s EXCEPT !.issued = x], s.ritN, s.pinned, s.net, x, s.diff, s.updated)
         /\ Fields([s EXCEPT !.diff = x], s.ritN, s.pinned, s.net, s.issued, x, s.updated)
         /\ Fields([s EXCEPT !.tooFast = x], s.ritN, s.pinned, s.net, s.issued, s.diff, s.updated)
         /\ Fields([s EXCEPT !.updated = x], s.ritN, s.pinned, s.net, s.issued, s.diff, x)
<1>1. PICK a, b, c, d, e, f, g, h, i, j :
        s = [ritN |-> a, boot |-> b, pinned |-> c, net |-> d, client |-> e,
          solved |-> f, issued |-> g, diff |-> h, tooFast |-> i, updated |-> j]
  BY Zenon DEF WellFormed
<1>2. s.ritN = a /\ s.boot = b /\ s.pinned = c /\ s.net = d /\ s.client = e /\ s.solved = f /\ s.issued = g /\ s.diff = h /\ s.tooFast = i /\ s.updated = j
  BY <1>1, Zenon
<1>3. Fields([s EXCEPT !.ritN = x], x, s.pinned, s.net, s.issued, s.diff, s.updated)
  <2>1. [s EXCEPT !.ritN = x] =
          [ritN |-> x, boot |-> b, pinned |-> c, net |-> d, client |-> e,
          solved |-> f, issued |-> g, diff |-> h, tooFast |-> i, updated |-> j]
    BY <1>1
  <2> QED BY <1>2, <2>1, Zenon DEF Fields, WellFormed
<1>4. Fields([s EXCEPT !.boot = x], s.ritN, s.pinned, s.net, s.issued, s.diff, s.updated)
  <2>1. [s EXCEPT !.boot = x] =
          [ritN |-> a, boot |-> x, pinned |-> c, net |-> d, client |-> e,
          solved |-> f, issued |-> g, diff |-> h, tooFast |-> i, updated |-> j]
    BY <1>1
  <2> QED BY <1>2, <2>1, Zenon DEF Fields, WellFormed
<1>5. Fields([s EXCEPT !.pinned = x], s.ritN, x, s.net, s.issued, s.diff, s.updated)
  <2>1. [s EXCEPT !.pinned = x] =
          [ritN |-> a, boot |-> b, pinned |-> x, net |-> d, client |-> e,
          solved |-> f, issued |-> g, diff |-> h, tooFast |-> i, updated |-> j]
    BY <1>1
  <2> QED BY <1>2, <2>1, Zenon DEF Fields, WellFormed
<1>6. Fields([s EXCEPT !.net = x], s.ritN, s.pinned, x, s.issued, s.diff, s.updated)
  <2>1. [s EXCEPT !.net = x] =
          [ritN |-> a, boot |-> b, pinned |-> c, net |-> x, client |-> e,
          solved |-> f, issued |-> g, diff |-> h, tooFast |-> i, updated |-> j]
    BY <1>1
  <2> QED BY <1>2, <2>1, Zenon DEF Fields, WellFormed
<1>7. Fields([s EXCEPT !.client = x], s.ritN, s.pinned, s.net, s.issued, s.diff, s.updated)
  <2>1. [s EXCEPT !.client = x] =
          [ritN |-> a, boot |-> b, pinned |-> c, net |-> d, client |-> x,
          solved |-> f, issued |-> g, diff |-> h, tooFast |-> i, updated |-> j]
    BY <1>1
  <2> QED BY <1>2, <2>1, Zenon DEF Fields, WellFormed
<1>8. Fields([s EXCEPT !.solved = x], s.ritN, s.pinned, s.net, s.issued, s.diff, s.updated)
  <2>1. [s EXCEPT !.solved = x] =
          [ritN |-> a, boot |-> b, pinned |-> c, net |-> d, client |-> e,
          solved |-> x, issued |-> g, diff |-> h, tooFast |-> i, updated |-> j]
    BY <1>1
  <2> QED BY <1>2, <2>1, Zenon DEF Fields, WellFormed
<1>9. Fields([s EXCEPT !.issued = x], s.ritN, s.pinned, s.net, x, s.diff, s.updated)
  <2>1. [s EXCEPT !.issued = x] =
          [ritN |-> a, boot |-> b, pinned |-> c, net |-> d, client |-> e,
          solved |-> f, issued |-> x, diff |-> h, tooFast |-> i, updated |-> j]
    BY <1>1
  <2> QED BY <1>2, <2>1, Zenon DEF Fields, WellFormed
<1>10. Fields([s EXCEPT !.diff = x], s.ritN, s.pinned, s.net, s.issued, x, s.updated)
  <2>1. [s EXCEPT !.diff = x] =
          [ritN |-> a, boot |-> b, pinned |-> c, net |-> d, client |-> e,
          solved |-> f, issued |-> g, diff |-> x, tooFast |-> i, updated |-> j]
    BY <1>1
  <2> QED BY <1>2, <2>1, Zenon DEF Fields, WellFormed
<1>11. Fields([s EXCEPT !.tooFast = x], s.ritN, s.pinned, s.net, s.issued, s.diff, s.updated)
  <2>1. [s EXCEPT !.tooFast = x] =
          [ritN |-> a, boot |-> b, pinned |-> c, net |-> d, client |-> e,
          solved |-> f, issued |-> g, diff |-> h, tooFast |-> x, updated |-> j]
    BY <1>1
  <2> QED BY <1>2, <2>1, Zenon DEF Fields, WellFormed
<1>12. Fields([s EXCEPT !.updated = x], s.ritN, s.pinned, s.net, s.issued, s.diff, x)
  <2>1. [s EXCEPT !.updated = x] =
          [ritN |-> a, boot |-> b, pinned |-> c, net |-> d, client |-> e,
          solved |-> f, issued |-> g, diff |-> h, tooFast |-> i, updated |-> x]
    BY <1>1
  <2> QED BY <1>2, <2>1, Zenon DEF Fields, WellFormed
<1> QED BY <1>3, <1>4, <1>5, <1>6, <1>7, <1>8, <1>9, <1>10, <1>11, <1>12, Zenon

LEMMA SessionEdits ==
  ASSUME NEW s, NEW r, NEW p, NEW n, NEW i, NEW d, NEW t, Fields(s, r, p, n, i, d, t), NEW x
  PROVE  /\ Fields([s EXCEPT !.ritN = x], x, p, n, i, d, t)
         /\ Fields([s EXCEPT !.boot = x], r, p, n, i, d, t)
         /\ Fields([s EXCEPT !.pinned = x], r, x, n, i, d, t)
         /\ Fields([s EXCEPT !.net = x], r, p, x, i, d, t)
         /\ Fields([s EXCEPT !.client = x], r, p, n, i, d, t)
         /\ Fields([s EXCEPT !.solved = x], r, p, n, i, d, t)
         /\ Fields([s EXCEPT !.issued = x], r, p, n, x, d, t)
         /\ Fields([s EXCEPT !.diff = x], r, p, n, i, x, t)
         /\ Fields([s EXCEPT !.tooFast = x], r, p, n, i, d, t)
         /\ Fields([s EXCEPT !.updated = x], r, p, n, i, d, x)
<1>1. WellFormed(s) /\ s.ritN = r /\ s.pinned = p /\ s.net = n /\ s.issued = i /\ s.diff = d /\ s.updated = t
  BY Zenon DEF Fields
<1> QED BY <1>1, FieldEdits, Zenon

LEMMA SeInitially == SessionInit => SeInv
  BY DEF SessionInit, SeInv, StoreOK, UsedOK, HandlerOK, AloneOK, Active, Idle

LEMMA PcOfHandler ==
  ASSUME NEW r, NEW sess, NEW settled, NEW now, HandlerOK(r, sess, settled, now)
  PROVE  r.pc = "idle" <=> r = Idle
BY DEF HandlerOK, Idle, Judging, Merges, Collecting, Holding, Answering

LEMMA HandlerKept ==
  ASSUME NEW r, NEW sess, NEW settled, NEW now \in Nat, HandlerOK(r, sess, settled, now),
         NEW sess2, NEW settled2, settled2 \subseteq settled,
         NEW s, NEW u, SessionOK(u, now), Follows(u, s), s.ritN \in Nat,
         sess = {} => s.ritN = 0, sess # {} => sess = {s}, sess2 = {u},
         r # Idle /\ r.alone => s.diff = u.diff
  PROVE  HandlerOK(r, sess2, settled2, now)
<1>1. CASE r = Idle
  BY <1>1, Zenon DEF HandlerOK
<1>2. CASE r # Idle /\ r.alone \in BOOLEAN /\ Judging(r, sess, now)
  <2>1. r.lastN <= s.ritN /\ s.ritN <= u.ritN /\ r.lastN \in Nat /\ u.ritN \in Nat
    BY <1>2 DEF Judging, Follows, SessionOK
  <2>2. r.lastN <= u.ritN
    BY <2>1
  <2> QED BY <1>2, <2>2, Zenon DEF HandlerOK, Judging
<1>6. CASE r.alone \in BOOLEAN /\ Merges(r)
  BY <1>6, Zenon DEF HandlerOK
<1>3. CASE r # Idle /\ r.alone \in BOOLEAN /\ sess # {} /\ Collecting(r, sess)
  BY <1>3, Zenon DEF HandlerOK, Collecting, Follows
<1>4. CASE r.alone \in BOOLEAN /\ sess # {} /\ Holding(r, settled)
  <2>1. Holding(r, settled2)
    BY <1>4, Zenon DEF Holding, Snapshot
  <2> QED BY <1>4, <2>1, Zenon DEF HandlerOK
<1>5. CASE r # Idle /\ r.alone \in BOOLEAN /\ sess # {} /\ Answering(r, sess)
  <2>1. Answering(r, sess2)
    BY <1>5, Zenon DEF Answering
  <2> QED BY <1>5, <2>1, Zenon DEF HandlerOK
<1> QED BY <1>1, <1>2, <1>3, <1>4, <1>5, <1>6, Zenon DEF HandlerOK

LEMMA AloneEdit ==
  ASSUME NEW r, NEW sess, NEW settled, NEW now, HandlerOK(r, sess, settled, now), r # Idle, NEW x, x = FALSE
  PROVE  /\ HandlerOK([r EXCEPT !.alone = x], sess, settled, now)
         /\ [r EXCEPT !.alone = x].pc = r.pc /\ [r EXCEPT !.alone = x].alone = x
<1> DEFINE q == [r EXCEPT !.alone = x]
<1>2. CASE Judging(r, sess, now)
  <2>0. PICK a, b, c, d, e, f : r = [pc |-> "rit", alone |-> a, seen |-> b, token |-> c, lastN |-> d, tb |-> e, again |-> f]
    BY <1>2, Zenon DEF Judging
  <2>1. q = [pc |-> "rit", alone |-> x, seen |-> b, token |-> c, lastN |-> d, tb |-> e, again |-> f]
    BY <2>0
  <2> HIDE DEF q
  <2>2. q.pc = r.pc /\ q.alone = x /\ q.token = r.token /\ q.lastN = r.lastN /\ q.tb = r.tb /\ q.again = r.again /\ q.seen = r.seen
    BY <2>0, <2>1, Zenon
  <2>3. q = [pc |-> "rit", alone |-> q.alone, seen |-> q.seen, token |-> q.token, lastN |-> q.lastN, tb |-> q.tb, again |-> q.again]
    BY <2>1, Zenon
  <2>4. Judging(q, sess, now)
    BY <1>2, <2>2, <2>3, Zenon DEF Judging
  <2> QED BY <2>2, <2>4, Zenon DEF HandlerOK, q
<1>6. CASE Merges(r)
  <2>0. PICK a, b, c : r = [pc |-> "merge", alone |-> a, seen |-> b, todo |-> c]
    BY <1>6, Zenon DEF Merges
  <2>1. q = [pc |-> "merge", alone |-> x, seen |-> b, todo |-> c]
    BY <2>0
  <2> HIDE DEF q
  <2>2. q.pc = r.pc /\ q.alone = x /\ Merges(q)
    BY <2>0, <2>1, Zenon DEF Merges
  <2> QED BY <2>2, Zenon DEF HandlerOK, q
<1>3. CASE sess # {} /\ Collecting(r, sess)
  <2>0. \/ \E b, c : r = [pc |-> r.pc, alone |-> r.alone, seen |-> b, todo |-> c] /\ r.pc \in {"client", "enrich"}
        \/ r = [pc |-> "score", alone |-> r.alone]
    BY <1>3, Zenon DEF Collecting
  <2>1. \/ q = [pc |-> q.pc, alone |-> q.alone, seen |-> q.seen, todo |-> q.todo] /\ q.pc = r.pc /\ q.alone = x /\ q.pc \in {"client", "enrich"}
        \/ q = [pc |-> "score", alone |-> q.alone] /\ q.pc = r.pc /\ q.alone = x
    <3>1. \A p, a, b, c : r = [pc |-> p, alone |-> a, seen |-> b, todo |-> c] => q = [pc |-> p, alone |-> x, seen |-> b, todo |-> c]
      OBVIOUS
    <3>2. \A p, a : r = [pc |-> p, alone |-> a] => q = [pc |-> p, alone |-> x]
      OBVIOUS
    <3> HIDE DEF q
    <3> QED BY <2>0, <3>1, <3>2
  <2> HIDE DEF q
  <2>3. Collecting(q, sess)
    BY <1>3, <2>1 DEF Collecting
  <2> QED BY <1>3, <2>1, <2>3, Zenon DEF HandlerOK, q
<1>4. CASE sess # {} /\ Holding(r, settled)
  <2>0. \A p, a, b, c : /\ r = [pc |-> p, alone |-> a, rep |-> b] => q = [pc |-> p, alone |-> x, rep |-> b]
                        /\ r = [pc |-> p, alone |-> a, rep |-> b, fast |-> c] => q = [pc |-> p, alone |-> x, rep |-> b, fast |-> c]
                        /\ r = [pc |-> p, alone |-> a, rep |-> b, id |-> c] => q = [pc |-> p, alone |-> x, rep |-> b, id |-> c]
                        /\ r = [pc |-> p, alone |-> a, base |-> c, rep |-> b] => q = [pc |-> p, alone |-> x, base |-> c, rep |-> b]
    OBVIOUS
  <2> HIDE DEF q
  <2>1. \/ q = [pc |-> r.pc, alone |-> x, rep |-> r.rep] /\ r.pc \in {"store", "powdiff", "powtime"}
        \/ q = [pc |-> r.pc, alone |-> x, rep |-> r.rep, fast |-> r.fast] /\ r.pc = "powflag"
        \/ q = [pc |-> r.pc, alone |-> x, rep |-> r.rep, id |-> r.id] /\ r.pc \in {"powmark", "passmark"}
        \/ q = [pc |-> r.pc, alone |-> x, base |-> r.base, rep |-> r.rep] /\ r.pc = "powstore" /\ settled \subseteq r.base
    BY <1>4, <2>0 DEF Holding
  <2>2. q.pc = r.pc /\ q.alone = x /\ q.rep = r.rep
    BY <2>1
  <2>3. Holding(q, settled)
    BY <1>4, <2>1 DEF Holding
  <2> QED BY <1>4, <2>2, <2>3, Zenon DEF HandlerOK, q
<1>5. CASE sess # {} /\ Answering(r, sess)
  <2>0. \A p, a, b : /\ r = [pc |-> p, alone |-> a, res |-> b] => q = [pc |-> p, alone |-> x, res |-> b]
                     /\ r = [pc |-> p, alone |-> a, d |-> b] => q = [pc |-> p, alone |-> x, d |-> b]
    OBVIOUS
  <2> HIDE DEF q
  <2>1. \/ q = [pc |-> r.pc, alone |-> x, res |-> r.res] /\ r.pc \in {"issue", "diff"}
        \/ q = [pc |-> r.pc, alone |-> x, d |-> r.d] /\ r.pc = "deliver" /\ r.d \in Nat \ {0}
    BY <1>5, <2>0 DEF Answering
  <2>2. q.pc = r.pc /\ q.alone = x
    BY <2>1
  <2>3. Answering(q, sess)
    BY <2>1 DEF Answering
  <2> QED BY <1>5, <2>2, <2>3, Zenon DEF HandlerOK, q
<1> QED BY <1>2, <1>3, <1>4, <1>5, <1>6, Zenon DEF HandlerOK

\* A request that a second one overlaps.
LEMMA HandlerOverlapped ==
  ASSUME NEW r, NEW sess, NEW settled, NEW now, HandlerOK(r, sess, settled, now), r # Idle
  PROVE  /\ HandlerOK([r EXCEPT !.alone = FALSE], sess, settled, now)
         /\ [r EXCEPT !.alone = FALSE].pc = r.pc /\ [r EXCEPT !.alone = FALSE].alone = FALSE
BY AloneEdit, Zenon

\* An append that writes the slot a snapshot shares.
LEMMA HandlerClobbered ==
  ASSUME NEW r, NEW sess, NEW settled, NEW now, HandlerOK(r, sess, settled, now), r.pc = "powstore",
         NEW id, NEW q, q = [r EXCEPT !.rep.net = r.base \cup {id}]
  PROVE  HandlerOK(q, sess, settled, now) /\ q.pc = r.pc /\ q.alone = r.alone
<1>1. /\ r.alone \in BOOLEAN /\ sess # {} /\ Snapshot(r.rep, settled)
      /\ r = [pc |-> "powstore", alone |-> r.alone, base |-> r.base, rep |-> r.rep] /\ settled \subseteq r.base
  BY DEF HandlerOK, Idle, Judging, Merges, Collecting, Holding, Answering
<1>2. r.rep = [net |-> r.rep.net, client |-> r.rep.client]
  BY <1>1, Zenon DEF Snapshot
<1>3. [r.rep EXCEPT !.net = r.base \cup {id}] = [net |-> r.base \cup {id}, client |-> r.rep.client]
  BY <1>2
<1>4. q = [r EXCEPT !.rep = [r.rep EXCEPT !.net = r.base \cup {id}]]
  BY Zenon
<1>5. q = [pc |-> "powstore", alone |-> r.alone, base |-> r.base, rep |-> [net |-> r.base \cup {id}, client |-> r.rep.client]]
  BY <1>1, <1>3, <1>4, Zenon
<1>6. Holding(q, settled) /\ q.alone \in BOOLEAN /\ q.pc = r.pc /\ q.alone = r.alone
  BY ONLY <1>1, <1>5, SMTT(30) DEF Holding, Snapshot
<1> QED BY <1>1, <1>6, Zenon DEF HandlerOK

LEMMA UsedKept ==
  ASSUME NEW used, NEW sess, NEW now \in Nat, UsedOK(used, sess, now),
         NEW s, NEW u, SessionOK(s, now), SessionOK(u, now), Follows(u, s), sess = {} \/ sess = {s}
  PROVE  UsedOK(used, {u}, now)
<1> SUFFICES ASSUME NEW t \in used, ~(t.tb + 2 <= now)
             PROVE  t.n \in Nat /\ t.tb \in Nat /\ t.n <= u.ritN /\ t.tb <= u.updated + 1
  BY Zenon DEF UsedOK
<1>1. t.n \in Nat /\ t.tb \in Nat /\ t.n <= s.ritN /\ t.tb <= s.updated + 1
  BY Zenon DEF UsedOK
<1>2. s.ritN \in Nat /\ u.ritN \in Nat /\ s.updated \in Nat /\ u.updated \in Nat /\ s.ritN <= u.ritN /\ s.updated <= u.updated
  BY Zenon DEF SessionOK, Follows
<1> QED BY <1>1, <1>2

\* The session a store call finds or creates.
LEMMA EnsuredIs ==
  ASSUME SeInv
  PROVE  /\ SessionOK(Ensured, seNow)
         /\ Fields(Ensured, Ensured.ritN, Ensured.pinned, Ensured.net, Ensured.issued, Ensured.diff, Ensured.updated)
         /\ seSess = {} => Ensured.ritN = 0 /\ Ensured.diff = 0
         /\ seSess # {} => seSess = {Ensured}
         /\ seSettled \subseteq Ensured.net
         /\ ~Ensured.pinned => seSettled = {}
         /\ \A d \in seHeld : Ensured.diff = d /\ Ensured.diff > 0
<1>1. CASE seSess = {}
  <2> DEFINE e == NewSession
  <2>1. Ensured = e /\ seSettled = {} /\ seHeld = {}
    BY <1>1, Zenon DEF Ensured, SeInv, StoreOK
  <2>2. WellFormed(e) /\ e.ritN = 0 /\ e.pinned = FALSE /\ e.issued = NotIssued /\ e.diff = 0 /\ e.updated = seNow
    BY Zenon DEF NewSession, WellFormed
  <2> HIDE DEF e
  <2>3. SessionOK(e, seNow)
    <3>1. e.updated \in Nat /\ e.updated <= seNow
      BY <2>2 DEF SeInv
    <3>2. e.pinned \in BOOLEAN
      BY <2>2, Zenon
    <3>3. e.ritN \in Nat /\ e.diff \in Nat /\ e.issued \in Nat \cup {NotIssued} /\ (e.issued = NotIssued <=> e.diff = 0)
      BY <2>2
    <3> QED BY <2>2, <3>1, <3>2, <3>3, Zenon DEF SessionOK
  <2> QED BY <1>1, <2>1, <2>2, <2>3, Zenon DEF Fields
<1>2. CASE seSess # {}
  <2>1. PICK s : seSess = {s}
    BY <1>2, Zenon DEF SeInv, StoreOK
  <2>2. Ensured = s
    BY <2>1, Zenon DEF Ensured
  <2> QED BY <1>2, <2>1, <2>2, Zenon DEF SeInv, StoreOK, SessionOK, Fields
<1> QED BY <1>1, <1>2, Zenon

\* What each store call leaves, for any session s it finds.
LEMMA Touched ==
  ASSUME NEW s, NEW r, NEW p, NEW n, NEW i, NEW d, NEW t, Fields(s, r, p, n, i, d, t), NEW z
  PROVE  Fields([s EXCEPT !.updated = z], r, p, n, i, d, z)
BY SessionEdits, Zenon

LEMMA Advanced ==
  ASSUME NEW s, NEW r, NEW p, NEW n, NEW i, NEW d, NEW t, Fields(s, r, p, n, i, d, t), NEW x, NEW z
  PROVE  Fields([[s EXCEPT !.ritN = x] EXCEPT !.updated = z], x, p, n, i, d, z)
<1>1. Fields([s EXCEPT !.ritN = x], x, p, n, i, d, t)
  BY SessionEdits, Zenon
<1> QED BY <1>1, SessionEdits, Zenon

LEMMA Booted ==
  ASSUME NEW s, NEW r, NEW p, NEW n, NEW i, NEW d, NEW t, Fields(s, r, p, n, i, d, t), NEW x, NEW z
  PROVE  Fields([[s EXCEPT !.boot = x] EXCEPT !.updated = z], r, p, n, i, d, z)
<1>1. Fields([s EXCEPT !.boot = x], r, p, n, i, d, t)
  BY SessionEdits, Zenon
<1> QED BY <1>1, SessionEdits, Zenon

LEMMA Pinned ==
  ASSUME NEW s, NEW r, NEW p, NEW n, NEW i, NEW d, NEW t, Fields(s, r, p, n, i, d, t), NEW x, NEW y, NEW z
  PROVE  Fields([[s EXCEPT !.pinned = x, !.net = y] EXCEPT !.updated = z], r, x, y, i, d, z)
<1>1. Fields([s EXCEPT !.pinned = x], r, x, n, i, d, t)
  BY SessionEdits, Zenon
<1>2. Fields([[s EXCEPT !.pinned = x] EXCEPT !.net = y], r, x, y, i, d, t)
  BY <1>1, SessionEdits, Zenon
<1>3. Fields([s EXCEPT !.pinned = x, !.net = y], r, x, y, i, d, t)
  BY <1>2, Zenon
<1> QED BY <1>3, SessionEdits, Zenon

LEMMA ClientMerged ==
  ASSUME NEW s, NEW r, NEW p, NEW n, NEW i, NEW d, NEW t, Fields(s, r, p, n, i, d, t), NEW x, NEW z
  PROVE  Fields([[s EXCEPT !.client = x] EXCEPT !.updated = z], r, p, n, i, d, z)
<1>1. Fields([s EXCEPT !.client = x], r, p, n, i, d, t)
  BY SessionEdits, Zenon
<1> QED BY <1>1, SessionEdits, Zenon

LEMMA Appended ==
  ASSUME NEW s, NEW r, NEW p, NEW n, NEW i, NEW d, NEW t, Fields(s, r, p, n, i, d, t), NEW x, NEW z
  PROVE  Fields([[s EXCEPT !.net = x] EXCEPT !.updated = z], r, p, x, i, d, z)
<1>1. Fields([s EXCEPT !.net = x], r, p, x, i, d, t)
  BY SessionEdits, Zenon
<1> QED BY <1>1, SessionEdits, Zenon

LEMMA Stored ==
  ASSUME NEW s, NEW r, NEW p, NEW n, NEW i, NEW d, NEW t, Fields(s, r, p, n, i, d, t), NEW x, NEW y, NEW z
  PROVE  Fields([[s EXCEPT !.net = x, !.client = y] EXCEPT !.updated = z], r, p, x, i, d, z)
<1>1. Fields([s EXCEPT !.net = x], r, p, x, i, d, t)
  BY SessionEdits, Zenon
<1>2. Fields([[s EXCEPT !.net = x] EXCEPT !.client = y], r, p, x, i, d, t)
  BY <1>1, SessionEdits, Zenon
<1>3. Fields([s EXCEPT !.net = x, !.client = y], r, p, x, i, d, t)
  BY <1>2, Zenon
<1> QED BY <1>3, SessionEdits, Zenon

LEMMA Issued ==
  ASSUME NEW s, NEW r, NEW p, NEW n, NEW i, NEW d, NEW t, Fields(s, r, p, n, i, d, t), NEW x, NEW y
  PROVE  Fields([s EXCEPT !.issued = x, !.diff = y], r, p, n, x, y, t)
<1>1. Fields([s EXCEPT !.issued = x], r, p, n, x, d, t)
  BY SessionEdits, Zenon
<1>2. Fields([[s EXCEPT !.issued = x] EXCEPT !.diff = y], r, p, n, x, y, t)
  BY <1>1, SessionEdits, Zenon
<1> QED BY <1>2, Zenon

LEMMA MarkedFast ==
  ASSUME NEW s, NEW r, NEW p, NEW n, NEW i, NEW d, NEW t, Fields(s, r, p, n, i, d, t), NEW x, NEW y
  PROVE  Fields([[s EXCEPT !.tooFast = x] EXCEPT !.net = y], r, p, y, i, d, t)
<1>1. Fields([s EXCEPT !.tooFast = x], r, p, n, i, d, t)
  BY SessionEdits, Zenon
<1> QED BY <1>1, SessionEdits, Zenon

LEMMA MarkedSolved ==
  ASSUME NEW s, NEW r, NEW p, NEW n, NEW i, NEW d, NEW t, Fields(s, r, p, n, i, d, t), NEW x, NEW y, NEW z, NEW w, NEW v
  PROVE  Fields([[s EXCEPT !.solved = x, !.issued = y, !.diff = z, !.updated = w] EXCEPT !.net = v], r, p, v, y, z, w)
<1>1. Fields([s EXCEPT !.solved = x], r, p, n, i, d, t)
  BY SessionEdits, Zenon
<1>2. Fields([[s EXCEPT !.solved = x] EXCEPT !.issued = y], r, p, n, y, d, t)
  BY <1>1, SessionEdits, Zenon
<1>3. Fields([[[s EXCEPT !.solved = x] EXCEPT !.issued = y] EXCEPT !.diff = z], r, p, n, y, z, t)
  BY <1>2, SessionEdits, Zenon
<1>4. Fields([[[[s EXCEPT !.solved = x] EXCEPT !.issued = y] EXCEPT !.diff = z] EXCEPT !.updated = w], r, p, n, y, z, w)
  BY <1>3, SessionEdits, Zenon
<1>5. Fields([s EXCEPT !.solved = x, !.issued = y, !.diff = z, !.updated = w], r, p, n, y, z, w)
  BY <1>4, Zenon
<1> QED BY <1>5, SessionEdits, Zenon

\* What a step of h leaves of another request: itself, or the slot of its
\* snapshot overwritten.
Kept(g) ==
  \/ seReq'[g] = seReq[g]
  \/ seReq[g].pc = "powstore" /\ \E id : seReq'[g] = [seReq[g] EXCEPT !.rep.net = seReq[g].base \cup {id}]

\* The session after a step of h.
Updated(h) ==
  \/ seSess' = seSess
  \/ \E u : /\ seSess' = {u} /\ SessionOK(u, seNow) /\ Follows(u, Ensured)
            /\ u.diff = Ensured.diff \/ Active(h)

Alone(h) == \A g \in SeHandlers \ {h} : ~Active(g)

LEMMA RequestStep ==
  ASSUME SeInv, NEW h \in SeHandlers, seNow' = seNow,
         seReq' = [g \in SeHandlers |-> seReq'[g]],
         \A g \in SeHandlers \ {h} : Kept(g),
         Updated(h),
         seSettled' \subseteq seSettled \/ Alone(h),
         StoreOK(seSess', seNow, seSettled', seHeld'),
         UsedOK(seUsed', seSess', seNow),
         seReplayed' = FALSE,
         HandlerOK(seReq'[h], seSess', seSettled', seNow),
         seReq'[h] = Idle \/ (Active(h) /\ (seReq'[h].alone => seReq[h].alone))
  PROVE  SeInv'
<1>0. seNow \in Nat /\ \A g \in SeHandlers : HandlerOK(seReq[g], seSess, seSettled, seNow)
  BY Zenon DEF SeInv
<1>1. \A g \in SeHandlers : Active(g) <=> seReq[g] # Idle
  BY <1>0, PcOfHandler, Zenon DEF Active
<1>2. ASSUME NEW g \in SeHandlers \ {h}
      PROVE  HandlerOK(seReq[g], seSess', seSettled', seNow)
  <2>1. CASE ~Active(g)
    BY <1>1, <2>1, Zenon DEF HandlerOK
  <2>2. CASE Active(g)
    <3>1. seSettled' \subseteq seSettled
      BY <2>2, Zenon DEF Alone
    <3>2. CASE seSess' = seSess
      <4>1. HandlerOK(seReq[g], seSess, seSettled, seNow)
        BY <1>0, Zenon
      <4> QED BY <3>1, <3>2, <4>1, Zenon DEF HandlerOK, Holding, Snapshot
    <3>3. CASE seSess' # seSess
      <4>1. PICK u : /\ seSess' = {u} /\ SessionOK(u, seNow) /\ Follows(u, Ensured)
                     /\ u.diff = Ensured.diff \/ Active(h)
        BY <3>3, Zenon DEF Updated
      <4>2. seReq[g] # Idle /\ seReq[g].alone => Ensured.diff = u.diff
        <5>1. Active(h) => ~seReq[g].alone
          BY <2>2, Zenon DEF SeInv, AloneOK
        <5> QED BY <4>1, <5>1, Zenon
      <4>3. /\ seSess = {} => Ensured.ritN = 0
            /\ seSess # {} => seSess = {Ensured}
            /\ Ensured.ritN \in Nat
        BY EnsuredIs, Zenon DEF SessionOK
      <4> QED BY <1>0, <3>1, <4>1, <4>2, <4>3, HandlerKept, Zenon
    <3> QED BY <3>2, <3>3, Zenon
  <2> QED BY <2>1, <2>2, Zenon
<1>3. ASSUME NEW g \in SeHandlers \ {h}
      PROVE  /\ HandlerOK(seReq'[g], seSess', seSettled', seNow)
             /\ seReq'[g].pc = seReq[g].pc /\ (seReq[g] # Idle => seReq'[g].alone = seReq[g].alone)
  <2>1. CASE seReq'[g] = seReq[g]
    BY <1>2, <2>1, Zenon
  <2>2. CASE seReq'[g] # seReq[g]
    <3>1. PICK id : seReq[g].pc = "powstore" /\ seReq'[g] = [seReq[g] EXCEPT !.rep.net = seReq[g].base \cup {id}]
      BY <2>2, Zenon DEF Kept
    <3>2. HandlerOK(seReq'[g], seSess', seSettled', seNow) /\ seReq'[g].pc = seReq[g].pc /\ seReq'[g].alone = seReq[g].alone
      <4> DEFINE r == seReq[g]
                 q == seReq'[g]
      <4>1. HandlerOK(r, seSess', seSettled', seNow)
        BY <1>2, Zenon
      <4>2. r.pc = "powstore" /\ q = [r EXCEPT !.rep.net = r.base \cup {id}]
        BY <3>1, Zenon
      <4> HIDE DEF r, q
      <4>3. HandlerOK(q, seSess', seSettled', seNow) /\ q.pc = r.pc /\ q.alone = r.alone
        BY <4>1, <4>2, HandlerClobbered
      <4> QED BY <4>3, Zenon DEF r, q
    <3> QED BY <3>2, Zenon
  <2> QED BY <2>1, <2>2, Zenon
<1>4. \A g \in SeHandlers : HandlerOK(seReq'[g], seSess', seSettled', seNow)
  BY <1>3, Zenon
<1>5. AloneOK'
  <2> SUFFICES ASSUME NEW f \in SeHandlers, NEW g \in SeHandlers, f # g, seReq'[f].pc # "idle", seReq'[g].pc # "idle"
               PROVE  ~seReq'[f].alone
    BY Zenon DEF AloneOK, Active
  <2>1. \A k \in SeHandlers : seReq'[k].pc # "idle" => Active(k) /\ (seReq'[k].alone => seReq[k].alone)
    <3>1. seReq'[h].pc # "idle" => seReq'[h] # Idle
      BY DEF Idle
    <3> QED BY <1>1, <1>3, <3>1, Zenon DEF Active
  <2>2. ~seReq[f].alone
    BY <2>1, Zenon DEF SeInv, AloneOK
  <2> QED BY <2>1, <2>2, Zenon
<1> QED BY <1>0, <1>4, <1>5, Zenon DEF SeInv

LEMMA BeginStep ==
  ASSUME SeInv, NEW h \in SeHandlers, NEW r, NEW q, Begin(h, r), q = [r EXCEPT !.alone = (Busy = {})],
         UNCHANGED <<seNow, seSess, seUsed, seReplayed, seSettled, seHeld>>,
         HandlerOK(q, seSess, seSettled, seNow), q.alone <=> (Busy = {})
  PROVE  SeInv'
<1>0. seNow \in Nat /\ \A g \in SeHandlers : HandlerOK(seReq[g], seSess, seSettled, seNow)
  BY Zenon DEF SeInv
<1>1. \A g \in SeHandlers : Active(g) <=> seReq[g] # Idle
  BY <1>0, PcOfHandler, Zenon DEF Active
<1>2. ~Active(h) /\ seReq' = [g \in SeHandlers |-> IF g = h THEN q
                                  ELSE IF Active(g) THEN [seReq[g] EXCEPT !.alone = FALSE] ELSE seReq[g]]
  BY Zenon DEF Begin
<1>3. ASSUME NEW g \in SeHandlers \ {h}
      PROVE  /\ HandlerOK(seReq'[g], seSess, seSettled, seNow)
             /\ seReq'[g].pc = seReq[g].pc
             /\ Active(g) => seReq'[g].alone = FALSE
  <2>1. CASE Active(g)
    <3>1. seReq'[g] = [seReq[g] EXCEPT !.alone = FALSE]
      BY <1>2, <2>1, Zenon
    <3>2. /\ HandlerOK([seReq[g] EXCEPT !.alone = FALSE], seSess, seSettled, seNow)
          /\ [seReq[g] EXCEPT !.alone = FALSE].pc = seReq[g].pc /\ [seReq[g] EXCEPT !.alone = FALSE].alone = FALSE
      BY <1>0, <1>1, <2>1, HandlerOverlapped, Zenon
    <3> QED BY <3>1, <3>2, Zenon
  <2>2. CASE ~Active(g)
    <3>1. seReq'[g] = seReq[g]
      BY <1>2, <2>2, Zenon
    <3> QED BY <1>0, <2>2, <3>1, Zenon
  <2> QED BY <2>1, <2>2, Zenon
<1>4. seReq'[h] = q /\ seReq' = [g \in SeHandlers |-> seReq'[g]]
  BY <1>2, Zenon
<1>5. \A g \in SeHandlers : HandlerOK(seReq'[g], seSess, seSettled, seNow)
  BY <1>3, <1>4, Zenon
<1>6. AloneOK'
  <2> SUFFICES ASSUME NEW f \in SeHandlers, NEW g \in SeHandlers, f # g, seReq'[f].pc # "idle", seReq'[g].pc # "idle"
               PROVE  ~seReq'[f].alone
    BY Zenon DEF AloneOK, Active
  <2>1. CASE f = h
    <3>1. Active(g)
      BY <1>3, <2>1, Zenon DEF Active
    <3>2. Busy # {}
      BY <3>1, Zenon DEF Busy
    <3> QED BY <1>4, <2>1, <3>2, Zenon
  <2>2. CASE f # h
    <3>1. Active(f)
      BY <1>3, <2>2, Zenon DEF Active
    <3>2. seReq'[f].alone = FALSE
      BY <1>3, <2>2, <3>1, Zenon
    <3> QED BY <3>2, Zenon
  <2> QED BY <2>1, <2>2, Zenon
<1> QED BY <1>0, <1>4, <1>5, <1>6, Zenon DEF SeInv

\* A store call that keeps the counter, the pin and the challenge consistent.
LEMMA Wrote ==
  ASSUME SeInv, NEW u, WellFormed(u), u.ritN \in Nat, Ensured.ritN <= u.ritN, u.pinned \in BOOLEAN, Ensured.pinned => u.pinned,
         u.issued \in Nat \cup {NotIssued}, u.diff \in Nat, u.issued = NotIssued <=> u.diff = 0,
         u.updated \in {seNow, Ensured.updated}
  PROVE  SessionOK(u, seNow) /\ Follows(u, Ensured) /\ UsedOK(seUsed, {u}, seNow)
<1>0. SessionOK(Ensured, seNow) /\ seNow \in Nat /\ UsedOK(seUsed, seSess, seNow) /\ (seSess = {} \/ seSess = {Ensured})
  BY EnsuredIs, Zenon DEF SeInv
<1>2. Ensured.updated \in Nat /\ Ensured.updated <= seNow
  BY <1>0, Zenon DEF SessionOK
<1>3. u.updated \in Nat /\ u.updated <= seNow /\ Ensured.updated <= u.updated
  BY <1>0, <1>2
<1>4. SessionOK(u, seNow)
  BY <1>3, Zenon DEF SessionOK
<1>5. Follows(u, Ensured)
  BY <1>3, Zenon DEF Follows
<1>6. UsedOK(seUsed, {u}, seNow)
  BY <1>0, <1>4, <1>5, UsedKept, Zenon
<1> QED BY <1>4, <1>5, <1>6, Zenon

\* The same for a call that leaves the counter and the challenge alone.
LEMMA WroteReport ==
  ASSUME SeInv, NEW u, NEW p \in BOOLEAN, NEW n, Ensured.pinned => p,
         Fields(u, Ensured.ritN, p, n, Ensured.issued, Ensured.diff, seNow),
         seSettled \subseteq n, ~p => seSettled = {}
  PROVE  /\ SessionOK(u, seNow) /\ Follows(u, Ensured) /\ UsedOK(seUsed, {u}, seNow)
         /\ StoreOK({u}, seNow, seSettled, seHeld) /\ u.diff = Ensured.diff
<1>1. /\ WellFormed(u) /\ u.ritN = Ensured.ritN /\ u.pinned = p /\ u.net = n
      /\ u.issued = Ensured.issued /\ u.diff = Ensured.diff /\ u.updated = seNow
  BY Zenon DEF Fields
<1>2. /\ Ensured.ritN \in Nat /\ Ensured.issued \in Nat \cup {NotIssued} /\ Ensured.diff \in Nat
      /\ (Ensured.issued = NotIssued <=> Ensured.diff = 0) /\ Ensured.ritN <= Ensured.ritN
      /\ \A x \in seHeld : Ensured.diff = x /\ Ensured.diff > 0
  BY EnsuredIs DEF SessionOK
<1>3. SessionOK(u, seNow) /\ Follows(u, Ensured) /\ UsedOK(seUsed, {u}, seNow)
  BY <1>1, <1>2, Wrote, Zenon
<1>4. StoreOK({u}, seNow, seSettled, seHeld)
  BY <1>1, <1>2, <1>3, Zenon DEF StoreOK
<1> QED BY <1>1, <1>3, <1>4, Zenon

LEMMA QuietStep ==
  ASSUME SeInv, NEW h \in SeHandlers, Active(h), NEW r, Goto(h, r),
         UNCHANGED <<seNow, seSess, seUsed, seReplayed, seSettled, seHeld>>,
         HandlerOK(r, seSess, seSettled, seNow), r.alone => seReq[h].alone
  PROVE  SeInv'
<1>1. seReq' = [seReq EXCEPT ![h] = r] /\ seReq = [g \in SeHandlers |-> seReq[g]]
  BY Zenon DEF Goto, SeInv
<1>2. seReq' = [g \in SeHandlers |-> seReq'[g]] /\ seReq'[h] = r /\ \A g \in SeHandlers \ {h} : seReq'[g] = seReq[g]
  BY <1>1, Zenon
<1>3. /\ \A g \in SeHandlers \ {h} : Kept(g)
      /\ Updated(h)
      /\ StoreOK(seSess', seNow, seSettled', seHeld') /\ UsedOK(seUsed', seSess', seNow) /\ seReplayed' = FALSE
  BY <1>2, Zenon DEF Kept, Updated, SeInv
<1>4. HandlerOK(seReq'[h], seSess', seSettled', seNow) /\ (Active(h) /\ (seReq'[h].alone => seReq[h].alone))
  BY <1>2, Zenon
<1> QED BY <1>2, <1>3, <1>4, RequestStep, Zenon

LEMMA WriteStep ==
  ASSUME SeInv, NEW h \in SeHandlers, Active(h), NEW r, Goto(h, r), NEW u,
         seSess' = {u}, SessionOK(u, seNow), Follows(u, Ensured), UsedOK(seUsed, {u}, seNow),
         UNCHANGED <<seNow, seUsed, seReplayed, seSettled>>,
         StoreOK({u}, seNow, seSettled, seHeld'),
         HandlerOK(r, {u}, seSettled, seNow), r.alone => seReq[h].alone
  PROVE  SeInv'
<1>1. seReq' = [seReq EXCEPT ![h] = r] /\ seReq = [g \in SeHandlers |-> seReq[g]]
  BY Zenon DEF Goto, SeInv
<1>2. seReq' = [g \in SeHandlers |-> seReq'[g]] /\ seReq'[h] = r /\ \A g \in SeHandlers \ {h} : seReq'[g] = seReq[g]
  BY <1>1, Zenon
<1>3. /\ \A g \in SeHandlers \ {h} : Kept(g)
      /\ Updated(h)
      /\ StoreOK(seSess', seNow, seSettled', seHeld') /\ UsedOK(seUsed', seSess', seNow) /\ seReplayed' = FALSE
  BY <1>2, Zenon DEF Kept, Updated, SeInv
<1>4. HandlerOK(seReq'[h], seSess', seSettled', seNow) /\ (Active(h) /\ (seReq'[h].alone => seReq[h].alone))
  BY <1>2, Zenon
<1> QED BY <1>2, <1>3, <1>4, RequestStep, Zenon

LEMMA Settled ==
  ASSUME NEW u
  PROVE  Settle({u}) = IF u.pinned THEN u.net ELSE {}
BY Zenon DEF Settle

LEMMA FinishStep ==
  ASSUME SeInv, NEW h \in SeHandlers, Active(h), seSess # {}, NEW u, Finish(h, {u}),
         SessionOK(u, seNow), Follows(u, Ensured), UsedOK(seUsed, {u}, seNow),
         UNCHANGED <<seNow, seUsed, seReplayed>>,
         StoreOK({u}, seNow, seSettled, seHeld')
  PROVE  SeInv'
<1>1. seReq' = [seReq EXCEPT ![h] = Idle] /\ seReq = [g \in SeHandlers |-> seReq[g]]
      /\ seSess' = {u} /\ seSettled' = IF Busy = {h} THEN Settle({u}) ELSE seSettled
  BY Zenon DEF Finish, SeInv
<1>2. seReq' = [g \in SeHandlers |-> seReq'[g]] /\ seReq'[h] = Idle /\ \A g \in SeHandlers \ {h} : seReq'[g] = seReq[g]
  BY <1>1, Zenon
<1>3. (\A g \in SeHandlers \ {h} : Kept(g)) /\ Updated(h) /\ UsedOK(seUsed', seSess', seNow) /\ seReplayed' = FALSE
  BY <1>1, <1>2, Zenon DEF Kept, Updated, SeInv
<1>4. seSettled' \subseteq seSettled \/ Alone(h)
  BY <1>1, Zenon DEF Alone, Busy
<1>5. StoreOK(seSess', seNow, seSettled', seHeld')
  <2>1. CASE Busy = {h}
    <3>1. seSettled' = IF u.pinned THEN u.net ELSE {}
      BY <1>1, <2>1, Settled, Zenon
    <3> QED BY <1>1, <3>1, Zenon DEF StoreOK
  <2>2. CASE Busy # {h}
    BY <1>1, <2>2, Zenon
  <2> QED BY <2>1, <2>2, Zenon
<1>6. HandlerOK(seReq'[h], seSess', seSettled', seNow)
  BY <1>2, Zenon DEF HandlerOK
<1> QED BY <1>2, <1>3, <1>4, <1>5, <1>6, RequestStep, Zenon

\* A request that ends without writing.
LEMMA EndStep ==
  ASSUME SeInv, NEW h \in SeHandlers, Active(h), seSess # {}, Finish(h, seSess), UNCHANGED <<seNow, seUsed, seReplayed, seHeld>>
  PROVE  SeInv'
<1>1. seSess = {Ensured} /\ SessionOK(Ensured, seNow)
  BY EnsuredIs, Zenon
<1>2. Follows(Ensured, Ensured)
  BY <1>1 DEF SessionOK, Follows
<1>3. Finish(h, {Ensured}) /\ UsedOK(seUsed, {Ensured}, seNow) /\ StoreOK({Ensured}, seNow, seSettled, seHeld')
  BY <1>1, Zenon DEF SeInv
<1> QED BY <1>1, <1>2, <1>3, FinishStep, Zenon

LEMMA AppendsIs ==
  ASSUME SeInv, NEW h \in SeHandlers, NEW id, NEW r, Appends(h, id, r)
  PROVE  /\ \E u : /\ seSess' = {u}
                   /\ Fields(u, Ensured.ritN, Ensured.pinned, Ensured.net \cup {id}, Ensured.issued, Ensured.diff, seNow)
         /\ seReq' = [g \in SeHandlers |-> seReq'[g]] /\ seReq'[h] = r
         /\ \A g \in SeHandlers \ {h} : Kept(g)
<1>1. seSess' = {[[Ensured EXCEPT !.net = Ensured.net \cup {id}] EXCEPT !.updated = seNow]}
  BY Zenon DEF Appends, AppendNetworkSignals, Touch
<1>2. Fields(Ensured, Ensured.ritN, Ensured.pinned, Ensured.net, Ensured.issued, Ensured.diff, Ensured.updated)
  BY EnsuredIs, Zenon
<1>3. Fields([[Ensured EXCEPT !.net = Ensured.net \cup {id}] EXCEPT !.updated = seNow],
             Ensured.ritN, Ensured.pinned, Ensured.net \cup {id}, Ensured.issued, Ensured.diff, seNow)
  BY <1>2, Appended, Zenon
<1>4. PICK lose \in SUBSET {g \in SeHandlers : Shares(h, g, id)} :
        seReq' = [g \in SeHandlers |-> IF g = h THEN r
                                      ELSE IF g \in lose THEN [seReq[g] EXCEPT !.rep.net = seReq[g].base \cup {id}]
                                      ELSE seReq[g]]
  BY Zenon DEF Appends
<1>5. seReq' = [g \in SeHandlers |-> seReq'[g]] /\ seReq'[h] = r
  BY <1>4, Zenon
<1>6. ASSUME NEW g \in SeHandlers \ {h} PROVE Kept(g)
  <2>1. CASE g \in lose
    <3>1. seReq'[g] = [seReq[g] EXCEPT !.rep.net = seReq[g].base \cup {id}]
      BY <1>4, <2>1, Zenon
    <3>2. seReq[g].pc = "powstore"
      BY <2>1, Zenon DEF Shares, At
    <3> QED BY <3>1, <3>2, Zenon DEF Kept
  <2>2. CASE g \notin lose
    <3>1. seReq'[g] = seReq[g]
      BY <1>4, <2>2, Zenon
    <3> QED BY <3>1, Zenon DEF Kept
  <2> QED BY <2>1, <2>2, Zenon
<1> QED BY <1>1, <1>3, <1>5, <1>6, Zenon

\* What a request slot holds, by where its handler is.
LEMMA AtPc ==
  ASSUME SeInv, NEW h \in SeHandlers
  PROVE  LET r == seReq[h]
         IN  /\ r.pc # "idle" => Active(h) /\ r.alone \in BOOLEAN
             /\ r.pc = "rit" => Judging(r, seSess, seNow)
             /\ r.pc \notin {"idle", "rit", "merge"} => seSess # {}
             /\ r.pc \in {"merge", "client", "enrich"} => r = [pc |-> r.pc, alone |-> r.alone, seen |-> r.seen, todo |-> r.todo]
             /\ r.pc \in {"client", "enrich"} => \A s \in seSess : s.pinned
             /\ r.pc \in {"store", "powdiff", "powtime"} => r = [pc |-> r.pc, alone |-> r.alone, rep |-> r.rep]
             /\ r.pc \in {"store", "powdiff", "powtime", "powflag", "powmark", "passmark", "powstore"} => Snapshot(r.rep, seSettled)
             /\ r.pc \in {"issue", "diff"} => r = [pc |-> r.pc, alone |-> r.alone, res |-> r.res]
             /\ r.pc = "deliver" => r.d \in Nat \ {0} /\ (r.alone => \A s \in seSess : s.diff > 0 => s.diff = r.d)
<1> DEFINE r == seReq[h]
<1>1. HandlerOK(r, seSess, seSettled, seNow)
  BY Zenon DEF SeInv
<1>2. r.pc # "idle" => Active(h)
  BY Zenon DEF Active
<1> HIDE DEF r
<1>3. r.pc # "idle" => r.alone \in BOOLEAN
  BY <1>1, SMTT(30) DEF HandlerOK, Idle
<1>4. r.pc = "rit" => Judging(r, seSess, seNow)
  BY <1>1 DEF HandlerOK, Idle, Merges, Collecting, Holding, Answering
<1>5. r.pc \notin {"idle", "rit", "merge"} => seSess # {}
  BY <1>1 DEF HandlerOK, Idle, Judging, Merges
<1>15. r.pc = "merge" => Merges(r)
  BY <1>1, SMTT(30) DEF HandlerOK, Idle, Judging, Collecting, Holding, Answering
<1>6. r.pc \in {"client", "enrich", "score"} => Collecting(r, seSess)
  BY <1>1, SMTT(30) DEF HandlerOK, Idle, Judging, Merges, Holding, Answering
<1>7. r.pc \in {"store", "powdiff", "powtime", "powflag", "powmark", "passmark", "powstore"} => Holding(r, seSettled)
  BY <1>1, SMTT(30) DEF HandlerOK, Idle, Judging, Merges, Collecting, Answering
<1>8. r.pc \in {"issue", "diff", "deliver"} => Answering(r, seSess)
  BY <1>1 DEF HandlerOK, Idle, Judging, Merges, Collecting, Holding
<1>9. r.pc \in {"merge", "client", "enrich"} => r = [pc |-> r.pc, alone |-> r.alone, seen |-> r.seen, todo |-> r.todo]
  BY <1>6, <1>15 DEF Collecting, Merges
<1>10. r.pc \in {"client", "enrich"} => \A s \in seSess : s.pinned
  BY <1>6 DEF Collecting
<1>11. r.pc \in {"store", "powdiff", "powtime"} => r = [pc |-> r.pc, alone |-> r.alone, rep |-> r.rep]
  BY <1>7 DEF Holding
<1>12. r.pc \in {"store", "powdiff", "powtime", "powflag", "powmark", "passmark", "powstore"} => Snapshot(r.rep, seSettled)
  BY <1>7, Zenon DEF Holding
<1>13. r.pc \in {"issue", "diff"} => r = [pc |-> r.pc, alone |-> r.alone, res |-> r.res]
  BY <1>8 DEF Answering
<1>14. r.pc = "deliver" => r.d \in Nat \ {0} /\ (r.alone => \A s \in seSess : s.diff > 0 => s.diff = r.d)
  BY <1>8, Zenon DEF Answering
<1> QED BY <1>2, <1>3, <1>4, <1>5, <1>9, <1>10, <1>11, <1>12, <1>13, <1>14, Zenon DEF r

LEMMA SessionCreated ==
  ASSUME SeInv, handleSession
  PROVE  SeInv'
<1> DEFINE e == Ensured
           u == [e EXCEPT !.updated = seNow]
<1>1. seSess' = {u} /\ UNCHANGED <<seNow, seReq, seUsed, seReplayed, seSettled, seHeld>>
  BY Zenon DEF handleSession, Touch
<1>2. Fields(u, e.ritN, e.pinned, e.net, e.issued, e.diff, seNow)
  BY EnsuredIs, Touched, Zenon
<1>3. e.ritN \in Nat /\ e.pinned \in BOOLEAN /\ seSettled \subseteq e.net /\ (~e.pinned => seSettled = {})
  BY EnsuredIs, Zenon DEF SessionOK
<1> HIDE DEF u, e
<1>4. SessionOK(u, seNow) /\ Follows(u, e) /\ UsedOK(seUsed, {u}, seNow) /\ StoreOK({u}, seNow, seSettled, seHeld)
  BY <1>2, <1>3, WroteReport, Zenon DEF e
<1>5. u.diff = e.diff
  BY <1>2, Zenon DEF Fields
<1>6. ASSUME NEW g \in SeHandlers PROVE HandlerOK(seReq[g], {u}, seSettled, seNow)
  <2>1. HandlerOK(seReq[g], seSess, seSettled, seNow) /\ seNow \in Nat
    BY Zenon DEF SeInv
  <2>2. (seSess = {} => e.ritN = 0) /\ (seSess # {} => seSess = {e})
    BY EnsuredIs, Zenon DEF e
  <2> QED BY <1>3, <1>4, <1>5, <2>1, <2>2, HandlerKept, Zenon
<1>7. AloneOK'
  BY <1>1, Zenon DEF SeInv, AloneOK, Active
<1> QED BY <1>1, <1>4, <1>6, <1>7, Zenon DEF SeInv

LEMMA CSPReported ==
  ASSUME SeInv, NEW h \in SeHandlers, handleCSPReport(h)
  PROVE  SeInv'
<1> DEFINE e == Ensured
           id == "l3.guard.csp_violation"
<1>1. PICK u : seSess' = {u} /\ Fields(u, e.ritN, e.pinned, e.net \cup {id}, e.issued, e.diff, seNow)
  BY AppendsIs, Zenon DEF handleCSPReport
<1>2. seReq' = [g \in SeHandlers |-> seReq'[g]] /\ seReq'[h] = Idle /\ (\A g \in SeHandlers \ {h} : Kept(g))
  BY AppendsIs, Zenon DEF handleCSPReport
<1>3. e.ritN \in Nat /\ e.pinned \in BOOLEAN /\ seSettled \subseteq e.net /\ (~e.pinned => seSettled = {})
  BY EnsuredIs, Zenon DEF SessionOK
<1> HIDE DEF id, e
<1>4. SessionOK(u, seNow) /\ Follows(u, e) /\ UsedOK(seUsed, {u}, seNow) /\ StoreOK({u}, seNow, seSettled, seHeld)
  <2>1. seSettled \subseteq e.net \cup {id}
    BY <1>3, Zenon
  <2> QED BY <1>1, <1>3, <2>1, WroteReport, Zenon DEF e
<1>5. /\ ~Active(h) /\ seSettled' = (IF Busy = {} THEN Settle({u}) ELSE seSettled)
      /\ UNCHANGED <<seNow, seUsed, seReplayed, seHeld>>
  BY <1>1, Zenon DEF handleCSPReport
<1>6. Updated(h)
  BY <1>1, <1>4, Zenon DEF Updated, Fields, e
<1>7. seSettled' \subseteq seSettled \/ Alone(h)
  BY <1>5, Zenon DEF Alone, Busy
<1>8. StoreOK({u}, seNow, seSettled', seHeld)
  <2>1. CASE Busy = {}
    <3>1. seSettled' = IF u.pinned THEN u.net ELSE {}
      BY <1>5, <2>1, Settled, Zenon
    <3> QED BY <1>4, <3>1, Zenon DEF StoreOK
  <2>2. CASE Busy # {}
    BY <1>4, <1>5, <2>2, Zenon
  <2> QED BY <2>1, <2>2, Zenon
<1>9. HandlerOK(seReq'[h], seSess', seSettled', seNow)
  BY <1>2, Zenon DEF HandlerOK
<1>10. seReplayed' = FALSE
  BY <1>5, Zenon DEF SeInv
<1> QED BY <1>1, <1>2, <1>4, <1>5, <1>6, <1>7, <1>8, <1>9, <1>10, RequestStep, ZenonT(30)

LEMMA RITRead ==
  ASSUME SeInv, NEW h \in SeHandlers, ReadRIT(h)
  PROVE  SeInv'
<1>0. PICK o \in SeObservations : \E token \in Tokens(o.token) :
        /\ Begin(h, [pc |-> "rit", alone |-> TRUE, seen |-> o, token |-> token, lastN |-> RITCounter, tb |-> seNow,
                     again |-> token \cap seUsed # {}])
        /\ UNCHANGED <<seNow, seSess, seUsed, seReplayed, seSettled, seHeld>>
  BY Zenon DEF ReadRIT
<1>1. PICK token \in Tokens(o.token) :
        /\ Begin(h, [pc |-> "rit", alone |-> TRUE, seen |-> o, token |-> token, lastN |-> RITCounter, tb |-> seNow,
                     again |-> token \cap seUsed # {}])
        /\ UNCHANGED <<seNow, seSess, seUsed, seReplayed, seSettled, seHeld>>
  BY <1>0, Zenon
<1> DEFINE again == token \cap seUsed # {}
           r == [pc |-> "rit", alone |-> TRUE, seen |-> o, token |-> token, lastN |-> RITCounter, tb |-> seNow, again |-> again]
<1>2. PICK q : q = [r EXCEPT !.alone = (Busy = {})]
  BY Zenon
<1>3. PICK x : x = (Busy = {})
  BY Zenon
<1>4. q = [pc |-> "rit", alone |-> x, seen |-> o, token |-> token, lastN |-> RITCounter, tb |-> seNow, again |-> again]
  <2>1. \A v, w, y : [[pc |-> "rit", alone |-> v, seen |-> o, token |-> token, lastN |-> RITCounter, tb |-> seNow, again |-> w] EXCEPT !.alone = y]
                 = [pc |-> "rit", alone |-> y, seen |-> o, token |-> token, lastN |-> RITCounter, tb |-> seNow, again |-> w]
    OBVIOUS
  <2> QED BY <1>2, <1>3, <2>1, Zenon
<1>5. seNow \in Nat /\ SessionOK(Ensured, seNow) /\ UsedOK(seUsed, seSess, seNow)
      /\ (seSess = {} => Ensured.ritN = 0) /\ (seSess # {} => seSess = {Ensured})
  BY EnsuredIs, Zenon DEF SeInv
<1>6. RITCounter \in Nat /\ RITCounter = Ensured.ritN
  BY <1>5, Zenon DEF RITCounter, SessionOK
<1>7. token = {} \/ (\E t \in seUsed : token = {t})
        \/ \E g : token = {[n |-> RITCounter + 1, tb |-> seNow + 1, good |-> g]}
  BY <1>1, Zenon DEF Tokens
<1>8. \A t, u \in token : t = u
  BY <1>7, Zenon
<1>9. ASSUME NEW t \in token
      PROVE  t.n \in Nat /\ t.tb \in Nat /\ (again => t.n <= RITCounter \/ t.tb + 2 <= seNow)
  <2>1. again => t \in seUsed
    BY <1>8, Zenon
  <2>2. t \in seUsed => /\ t.n \in Nat /\ t.tb \in Nat
                        /\ t.tb + 2 <= seNow \/ t.n <= RITCounter
    BY <1>5, <1>6, Zenon DEF UsedOK
  <2>3. t \in seUsed \/ (t.n = RITCounter + 1 /\ t.tb = seNow + 1)
    BY <1>7
  <2> QED BY <1>5, <1>6, <2>1, <2>2, <2>3, SMTT(30)
<1> HIDE DEF again
<1>10. q.alone = x /\ q.token = token /\ q.lastN = RITCounter /\ q.tb = seNow /\ q.again = again /\ q.seen = o
  BY <1>4, Zenon
<1>11. q = [pc |-> "rit", alone |-> q.alone, seen |-> q.seen, token |-> q.token, lastN |-> q.lastN, tb |-> q.tb, again |-> q.again]
  BY <1>4, <1>10, Zenon
<1>12. /\ seSess = {} => RITCounter = 0
       /\ \A s \in seSess : RITCounter <= s.ritN
  BY <1>5, <1>6, SMTT(30)
<1>13. Judging(q, seSess, seNow)
  BY <1>5, <1>6, <1>8, <1>9, <1>10, <1>11, <1>12, SMTT(30) DEF Judging
<1>14. HandlerOK(q, seSess, seSettled, seNow)
  <2>1. q.alone \in BOOLEAN
    BY <1>3, <1>10, Zenon
  <2> QED BY <1>13, <2>1, Zenon DEF HandlerOK
<1>15. q.alone <=> (Busy = {})
  BY <1>3, <1>10, Zenon
<1>16. Begin(h, r)
  BY <1>1, Zenon DEF again
<1> QED BY <1>1, <1>2, <1>14, <1>15, <1>16, BeginStep, ZenonT(30)

LEMMA RITJudged ==
  ASSUME SeInv, NEW h \in SeHandlers, verifyRIT(h)
  PROVE  SeInv'
<1> DEFINE r == seReq[h]
           e == Ensured
           sequenced == \E t \in r.token : t.n = r.lastN + 1 /\ withinTB(t.tb, r.tb)
           m(id) == Merging(r, id)
<1>1. r.pc = "rit" /\ Judging(r, seSess, seNow) /\ Active(h) /\ r.alone \in BOOLEAN /\ seNow \in Nat
  BY AtPc, Zenon DEF verifyRIT, At, SeInv
<1>2. \A id : /\ m(id) = [pc |-> m(id).pc, alone |-> m(id).alone, seen |-> m(id).seen, todo |-> m(id).todo]
              /\ m(id).pc = "merge" /\ m(id).alone = r.alone
  BY Zenon DEF Merging
<1>3. ASSUME NEW id, NEW sess, NEW settled PROVE HandlerOK(m(id), sess, settled, seNow)
  <2> DEFINE q == m(id)
  <2>1. q = [pc |-> "merge", alone |-> q.alone, seen |-> q.seen, todo |-> q.todo] /\ q.alone \in BOOLEAN
    BY <1>1, <1>2, Zenon
  <2> HIDE DEF q
  <2>2. HandlerOK(q, sess, settled, seNow)
    BY <2>1, Zenon DEF HandlerOK, Merges
  <2> QED BY <2>2, Zenon DEF q
<1>4. ASSUME NEW id, Goto(h, m(id)), UNCHANGED <<seNow, seSess, seUsed, seReplayed, seSettled, seHeld>>
      PROVE  SeInv'
  <2> DEFINE q == m(id)
  <2>1. HandlerOK(q, seSess, seSettled, seNow) /\ (q.alone => seReq[h].alone)
    BY <1>2, <1>3, Zenon
  <2> HIDE DEF q
  <2> QED BY <1>1, <1>4, <2>1, QuietStep, Zenon DEF q
<1>5. UNCHANGED <<seNow, seSettled, seHeld>>
  BY Zenon DEF verifyRIT
<1>6. CASE /\ seSess' = ClaimRITBootstrap
           /\ Goto(h, m(IF Ensured.boot THEN "l5.rit.absent" ELSE "l5.rit.bootstrap"))
           /\ UNCHANGED <<seUsed, seReplayed>>
  <2> DEFINE u == [[e EXCEPT !.boot = TRUE] EXCEPT !.updated = seNow]
             q == m(IF Ensured.boot THEN "l5.rit.absent" ELSE "l5.rit.bootstrap")
  <2>1. seSess' = {u}
    BY <1>6, Zenon DEF ClaimRITBootstrap, Touch
  <2>2. Fields(u, e.ritN, e.pinned, e.net, e.issued, e.diff, seNow)
    BY EnsuredIs, Booted, Zenon
  <2>3. e.pinned \in BOOLEAN /\ seSettled \subseteq e.net /\ (~e.pinned => seSettled = {})
    BY EnsuredIs, Zenon DEF SessionOK
  <2> HIDE DEF u
  <2>4. SessionOK(u, seNow) /\ Follows(u, e) /\ UsedOK(seUsed, {u}, seNow) /\ StoreOK({u}, seNow, seSettled, seHeld)
    BY <2>2, <2>3, WroteReport, Zenon
  <2>5. HandlerOK(q, {u}, seSettled, seNow) /\ (q.alone => seReq[h].alone) /\ Goto(h, q)
    BY <1>2, <1>3, <1>6, Zenon
  <2> HIDE DEF q
  <2> QED BY <1>1, <1>5, <1>6, <2>1, <2>4, <2>5, WriteStep, ZenonT(30)
<1>7. CASE /\ sequenced
           /\ seSess' = AdvanceRIT
           /\ Goto(h, m("l5.rit.ok"))
           /\ seUsed' = seUsed \cup r.token
           /\ seReplayed' = (seReplayed \/ r.again)
  <2> DEFINE u == [[e EXCEPT !.ritN = e.ritN + 1] EXCEPT !.updated = seNow]
             q == m("l5.rit.ok")
  <2>1. seSess' = {u}
    BY <1>7, Zenon DEF AdvanceRIT, Touch
  <2>2. Fields(u, e.ritN + 1, e.pinned, e.net, e.issued, e.diff, seNow)
    <3>1. Fields(e, e.ritN, e.pinned, e.net, e.issued, e.diff, e.updated)
      BY EnsuredIs, Zenon
    <3>2. \A x : Fields([[e EXCEPT !.ritN = x] EXCEPT !.updated = seNow], x, e.pinned, e.net, e.issued, e.diff, seNow)
      BY <3>1, Advanced, Zenon
    <3> QED BY <3>2, Zenon
  <2>3. /\ e.ritN \in Nat /\ e.pinned \in BOOLEAN /\ e.issued \in Nat \cup {NotIssued} /\ e.diff \in Nat
        /\ (e.issued = NotIssued <=> e.diff = 0) /\ seSettled \subseteq e.net /\ (~e.pinned => seSettled = {})
        /\ \A x \in seHeld : e.diff = x /\ e.diff > 0
    BY EnsuredIs, Zenon DEF SessionOK
  <2>4. /\ WellFormed(u) /\ u.ritN = e.ritN + 1 /\ u.pinned = e.pinned /\ u.net = e.net
        /\ u.issued = e.issued /\ u.diff = e.diff /\ u.updated = seNow
    BY <2>2, Zenon DEF Fields
  <2> HIDE DEF u
  <2>5. u.ritN \in Nat /\ e.ritN <= u.ritN
    BY <2>3, <2>4
  <2>6. SessionOK(u, seNow) /\ Follows(u, e) /\ UsedOK(seUsed, {u}, seNow)
    BY <2>3, <2>4, <2>5, Wrote, Zenon
  <2>7. StoreOK({u}, seNow, seSettled, seHeld)
    BY <2>3, <2>4, <2>6, ZenonT(30) DEF StoreOK
  <2>8. r.lastN \in Nat /\ r.tb \in Nat /\ r.tb <= seNow /\ r.lastN <= e.ritN
    BY <1>1, <2>3, EnsuredIs DEF Judging
  <2>9. PICK t \in r.token : t.n = r.lastN + 1 /\ withinTB(t.tb, r.tb)
    BY <1>7, Zenon
  <2>10. r.token = {t} /\ t.n \in Nat /\ t.tb \in Nat /\ (r.again => t.n <= r.lastN \/ t.tb + 2 <= r.tb)
    BY <1>1, <2>9, Zenon DEF Judging
  <2>11. t.tb - r.tb \in -1..1
    BY <2>9, Zenon DEF withinTB
  <2>12. ~r.again
    BY ONLY <2>8, <2>9, <2>10, <2>11, SMTT(30)
  <2>13. t.n <= u.ritN /\ t.tb <= u.updated + 1
    BY <1>1, <2>3, <2>4, <2>8, <2>9, <2>10, <2>11, SMTT(30)
  <2>14. UsedOK(seUsed', seSess', seNow)
    BY <1>7, <2>1, <2>6, <2>10, <2>13, Zenon DEF UsedOK
  <2>15. seReplayed' = FALSE
    BY <1>7, <2>12, Zenon DEF SeInv
  <2>16. HandlerOK(q, {u}, seSettled, seNow) /\ (q.alone => seReq[h].alone) /\ Goto(h, q)
    BY <1>2, <1>3, <1>7, Zenon
  <2> HIDE DEF q
  <2>17. seReq' = [g \in SeHandlers |-> seReq'[g]] /\ seReq'[h] = q /\ \A g \in SeHandlers \ {h} : seReq'[g] = seReq[g]
    BY <2>16, Zenon DEF Goto, SeInv
  <2>18. (\A g \in SeHandlers \ {h} : Kept(g)) /\ Updated(h)
    BY <1>1, <2>1, <2>6, <2>17, Zenon DEF Kept, Updated
  <2>19. HandlerOK(seReq'[h], seSess', seSettled', seNow) /\ (Active(h) /\ (seReq'[h].alone => seReq[h].alone))
    BY <1>1, <1>5, <2>1, <2>16, <2>17, Zenon
  <2>20. StoreOK(seSess', seNow, seSettled', seHeld') /\ seNow' = seNow /\ seSettled' \subseteq seSettled
    BY <1>5, <2>1, <2>7, Zenon
  <2> QED BY <2>14, <2>15, <2>17, <2>18, <2>19, <2>20, RequestStep, ZenonT(30)
<1>8. \/ /\ seSess' = ClaimRITBootstrap
         /\ Goto(h, m(IF Ensured.boot THEN "l5.rit.absent" ELSE "l5.rit.bootstrap"))
         /\ UNCHANGED <<seUsed, seReplayed>>
      \/ Goto(h, m("l5.rit.absent")) /\ UNCHANGED <<seSess, seUsed, seReplayed>>
      \/ Goto(h, m("l5.rit.stale_replay")) /\ UNCHANGED <<seSess, seUsed, seReplayed>>
      \/ Goto(h, m("l5.rit.header_tampered")) /\ UNCHANGED <<seSess, seUsed, seReplayed>>
      \/ /\ sequenced
         /\ seSess' = AdvanceRIT
         /\ Goto(h, m("l5.rit.ok"))
         /\ seUsed' = seUsed \cup r.token
         /\ seReplayed' = (seReplayed \/ r.again)
  BY Zenon DEF verifyRIT
<1> QED BY <1>4, <1>5, <1>6, <1>7, <1>8, Zenon

LEMMA ObservationMerged ==
  ASSUME SeInv, NEW h \in SeHandlers, mergeObservation(h)
  PROVE  SeInv'
<1> DEFINE r == seReq[h]
           e == Ensured
<1>1. /\ r.pc \in {"merge", "client"} /\ Active(h) /\ r.alone \in BOOLEAN
      /\ r = [pc |-> r.pc, alone |-> r.alone, seen |-> r.seen, todo |-> r.todo]
      /\ UNCHANGED <<seNow, seUsed, seReplayed, seSettled, seHeld>>
  BY AtPc, Zenon DEF mergeObservation, At
<1>2. /\ e.pinned \in BOOLEAN /\ seSettled \subseteq e.net /\ (~e.pinned => seSettled = {})
      /\ Fields(e, e.ritN, e.pinned, e.net, e.issued, e.diff, e.updated)
  BY EnsuredIs, Zenon DEF SessionOK
<1>3. ASSUME NEW x
      PROVE  [r EXCEPT !.pc = x] = [pc |-> x, alone |-> r.alone, seen |-> r.seen, todo |-> r.todo]
  <2>1. PICK a, b, c, d : r = [pc |-> a, alone |-> b, seen |-> c, todo |-> d]
    BY <1>1, Zenon
  <2>2. r.alone = b /\ r.seen = c /\ r.todo = d
    BY <2>1
  <2> HIDE DEF r
  <2> QED BY <2>1, <2>2
<1>4. CASE /\ seSess' = MergeNetwork(r.seen.net)
           /\ Goto(h, [r EXCEPT !.pc = "client"])
  <2> DEFINE n == IF e.pinned THEN e.net \cup (r.seen.net \cap requestScopedNetwork) ELSE r.seen.net
             u == [[e EXCEPT !.pinned = TRUE, !.net = n] EXCEPT !.updated = seNow]
             q == [r EXCEPT !.pc = "client"]
  <2>1. seSess' = {u}
    BY <1>4, Zenon DEF MergeNetwork, Touch
  <2>2. Fields(u, e.ritN, TRUE, n, e.issued, e.diff, seNow)
    <3>1. \A x, y : Fields([[e EXCEPT !.pinned = x, !.net = y] EXCEPT !.updated = seNow], e.ritN, x, y, e.issued, e.diff, seNow)
      BY <1>2, Pinned, Zenon
    <3> QED BY <3>1, Zenon
  <2>3. seSettled \subseteq n
    BY <1>2, Zenon
  <2> HIDE DEF u, n
  <2>4. SessionOK(u, seNow) /\ Follows(u, e) /\ UsedOK(seUsed, {u}, seNow) /\ StoreOK({u}, seNow, seSettled, seHeld)
    <3>1. PICK p : p = TRUE
      BY Zenon
    <3>2. Fields(u, e.ritN, p, n, e.issued, e.diff, seNow) /\ p \in BOOLEAN /\ (e.pinned => p) /\ (~p => seSettled = {})
      BY <2>2, <3>1, Zenon
    <3> QED BY <2>3, <3>2, WroteReport, Zenon
  <2>5. u.pinned
    BY <2>2, Zenon DEF Fields
  <2>6. q = [pc |-> "client", alone |-> r.alone, seen |-> r.seen, todo |-> r.todo]
    BY <1>3, Zenon
  <2> HIDE DEF q
  <2>7. q.alone = r.alone /\ q.pc = "client" /\ q = [pc |-> q.pc, alone |-> q.alone, seen |-> q.seen, todo |-> q.todo]
    BY <2>6, Zenon
  <2>8. HandlerOK(q, {u}, seSettled, seNow) /\ (q.alone => seReq[h].alone)
    BY <1>1, <2>5, <2>7, Zenon DEF HandlerOK, Collecting
  <2> QED BY <1>1, <1>4, <2>1, <2>4, <2>8, WriteStep, Zenon DEF q
<1>5. CASE /\ r.pc = "client"
           /\ seSess' = MergeClient(r.seen.kind)
           /\ Goto(h, [r EXCEPT !.pc = "enrich"])
  <2> DEFINE u == [[e EXCEPT !.client = r.seen.kind] EXCEPT !.updated = seNow]
             q == [r EXCEPT !.pc = "enrich"]
  <2>1. seSess' = {u}
    BY <1>5, Zenon DEF MergeClient, Touch
  <2>2. Fields(u, e.ritN, e.pinned, e.net, e.issued, e.diff, seNow)
    BY <1>2, ClientMerged, Zenon
  <2> HIDE DEF u
  <2>4. SessionOK(u, seNow) /\ Follows(u, e) /\ UsedOK(seUsed, {u}, seNow) /\ StoreOK({u}, seNow, seSettled, seHeld)
    BY <1>2, <2>2, WroteReport, Zenon
  <2>5. u.pinned
    <3>1. seSess # {} /\ \A s \in seSess : s.pinned
      BY <1>5, AtPc, Zenon
    <3>2. e.pinned
      BY <3>1, EnsuredIs, Zenon
    <3> QED BY <2>2, <3>2, Zenon DEF Fields
  <2>6. q = [pc |-> "enrich", alone |-> r.alone, seen |-> r.seen, todo |-> r.todo]
    BY <1>3, Zenon
  <2> HIDE DEF q
  <2>7. q.alone = r.alone /\ q.pc = "enrich" /\ q = [pc |-> q.pc, alone |-> q.alone, seen |-> q.seen, todo |-> q.todo]
    BY <2>6, Zenon
  <2>8. HandlerOK(q, {u}, seSettled, seNow) /\ (q.alone => seReq[h].alone)
    BY <1>1, <2>5, <2>7, Zenon DEF HandlerOK, Collecting
  <2> QED BY <1>1, <1>5, <2>1, <2>4, <2>8, WriteStep, Zenon DEF q
<1> QED BY <1>4, <1>5, Zenon DEF mergeObservation, At

LEMMA SignalsEnriched ==
  ASSUME SeInv, NEW h \in SeHandlers, enrichServerSignals(h)
  PROVE  SeInv'
<1> DEFINE r == seReq[h]
           e == Ensured
           scoring == [pc |-> "score", alone |-> r.alone]
<1>1. /\ r.pc = "enrich" /\ Active(h) /\ r.alone \in BOOLEAN /\ seSess # {} /\ (\A s \in seSess : s.pinned)
      /\ r = [pc |-> r.pc, alone |-> r.alone, seen |-> r.seen, todo |-> r.todo]
      /\ UNCHANGED <<seNow, seUsed, seReplayed, seHeld>>
  BY AtPc, Zenon DEF enrichServerSignals, At
<1>2. /\ e.pinned \in BOOLEAN /\ e.pinned /\ seSettled \subseteq e.net /\ seSess = {e}
  BY <1>1, EnsuredIs, Zenon DEF SessionOK
<1>3. r.alone => Alone(h)
  BY <1>1, Zenon DEF Alone, SeInv, AloneOK, Active
<1>4. ASSUME NEW id, NEW q, Appends(h, id, q), seSettled' = IF r.alone THEN seSettled \cup {id} ELSE seSettled,
             q.alone = r.alone,
             q = [pc |-> "score", alone |-> q.alone] \/ (q = [pc |-> q.pc, alone |-> q.alone, seen |-> q.seen, todo |-> q.todo] /\ q.pc = "enrich")
      PROVE  SeInv'
  <2>1. PICK u : seSess' = {u} /\ Fields(u, e.ritN, e.pinned, e.net \cup {id}, e.issued, e.diff, seNow)
    BY <1>4, AppendsIs, Zenon
  <2>2. seReq' = [g \in SeHandlers |-> seReq'[g]] /\ seReq'[h] = q /\ (\A g \in SeHandlers \ {h} : Kept(g))
    BY <1>4, AppendsIs, Zenon
  <2>3. seSettled \subseteq e.net \cup {id}
    BY <1>2, Zenon
  <2>4. /\ SessionOK(u, seNow) /\ Follows(u, e) /\ UsedOK(seUsed, {u}, seNow)
        /\ StoreOK({u}, seNow, seSettled, seHeld) /\ u.diff = e.diff
    BY <1>2, <2>1, <2>3, WroteReport, Zenon
  <2>5. u.pinned /\ u.net = e.net \cup {id}
    BY <1>2, <2>1, Zenon DEF Fields
  <2>6. StoreOK({u}, seNow, seSettled', seHeld)
    <3>1. seSettled' \subseteq u.net
      BY <1>4, <2>3, <2>5, Zenon
    <3> QED BY <2>4, <2>5, <3>1, Zenon DEF StoreOK
  <2>7. HandlerOK(q, {u}, seSettled', seNow)
    BY <1>1, <1>4, <2>5, Zenon DEF HandlerOK, Collecting
  <2>8. Updated(h)
    BY <2>1, <2>4, Zenon DEF Updated
  <2>9. seSettled' \subseteq seSettled \/ Alone(h)
    BY <1>3, <1>4, Zenon
  <2>10. seReplayed' = FALSE /\ seNow' = seNow /\ UsedOK(seUsed', seSess', seNow) /\ StoreOK(seSess', seNow, seSettled', seHeld')
    BY <1>1, <2>1, <2>4, <2>6, Zenon DEF SeInv
  <2>11. HandlerOK(seReq'[h], seSess', seSettled', seNow) /\ Active(h) /\ (seReq'[h].alone => seReq[h].alone)
    BY <1>1, <1>4, <2>1, <2>2, <2>7, Zenon
  <2> QED BY <2>2, <2>8, <2>9, <2>10, <2>11, RequestStep, Zenon
<1>5. scoring.alone = r.alone /\ scoring = [pc |-> "score", alone |-> scoring.alone]
  BY Zenon
<1>6. CASE Appends(h, Head(r.todo), [r EXCEPT !.todo = Tail(@)]) /\ seSettled' = IF r.alone THEN seSettled \cup {Head(r.todo)} ELSE seSettled
  <2> DEFINE q == [r EXCEPT !.todo = Tail(@)]
  <2>1. PICK a, b, c, d : r = [pc |-> a, alone |-> b, seen |-> c, todo |-> d]
    BY <1>1, Zenon
  <2>2. q = [pc |-> a, alone |-> b, seen |-> c, todo |-> Tail(r.todo)]
    <3>1. \A x : [r EXCEPT !.todo = x] = [pc |-> a, alone |-> b, seen |-> c, todo |-> x]
      <4> HIDE DEF r
      <4> QED BY <2>1
    <3> QED BY <3>1, Zenon
  <2>4. Appends(h, Head(r.todo), q)
    BY <1>6, Zenon
  <2> HIDE DEF q
  <2>3. q.alone = r.alone /\ q.pc = "enrich" /\ q = [pc |-> q.pc, alone |-> q.alone, seen |-> q.seen, todo |-> q.todo]
    BY <1>1, <2>1, <2>2
  <2> HIDE DEF r
  <2> QED BY <1>4, <1>6, <2>3, <2>4, Zenon
<1>7. CASE Appends(h, Upgrade, scoring) /\ seSettled' = IF r.alone THEN seSettled \cup {Upgrade} ELSE seSettled
  <2> HIDE DEF scoring
  <2> QED BY <1>4, <1>5, <1>7, Zenon
<1>8. CASE Goto(h, scoring) /\ UNCHANGED <<seSess, seSettled>>
  <2> HIDE DEF scoring
  <2>1. HandlerOK(scoring, seSess, seSettled, seNow) /\ (scoring.alone => seReq[h].alone)
    BY <1>1, <1>5, Zenon DEF HandlerOK, Collecting
  <2> QED BY <1>1, <1>8, <2>1, QuietStep, Zenon
<1> QED BY <1>6, <1>7, <1>8, Zenon DEF enrichServerSignals

\* A whole-report store keeps what has settled: every snapshot holds it.
LEMMA SnapshotStored ==
  ASSUME SeInv, seSess # {}, NEW rep, Snapshot(rep, seSettled)
  PROVE  \E u : /\ StoreScored(rep) = {u}
                /\ SessionOK(u, seNow) /\ Follows(u, Ensured) /\ UsedOK(seUsed, {u}, seNow)
                /\ StoreOK({u}, seNow, seSettled, seHeld)
<1> DEFINE e == Ensured
           u == [[e EXCEPT !.net = rep.net, !.client = rep.client] EXCEPT !.updated = seNow]
<1>1. StoreScored(rep) = {u}
  BY Zenon DEF StoreScored, Touch
<1>2. /\ e.pinned \in BOOLEAN /\ (~e.pinned => seSettled = {})
      /\ Fields(e, e.ritN, e.pinned, e.net, e.issued, e.diff, e.updated)
  BY EnsuredIs, Zenon DEF SessionOK
<1>3. Fields(u, e.ritN, e.pinned, rep.net, e.issued, e.diff, seNow)
  BY <1>2, Stored, Zenon
<1> HIDE DEF u
<1>4. SessionOK(u, seNow) /\ Follows(u, e) /\ UsedOK(seUsed, {u}, seNow) /\ StoreOK({u}, seNow, seSettled, seHeld)
  BY <1>2, <1>3, WroteReport, Zenon DEF Snapshot
<1> QED BY <1>1, <1>4, Zenon

\* A snapshot taken now holds what has settled.
LEMMA SnapshotTaken ==
  ASSUME SeInv
  PROVE  Snapshot(GetReport, seSettled)
<1>1. seSettled \subseteq Ensured.net
  BY EnsuredIs, Zenon
<1> QED BY <1>1, Zenon DEF Snapshot, GetReport

LEMMA ScoredAndStored ==
  ASSUME SeInv, NEW h \in SeHandlers, scoreAndStore(h)
  PROVE  SeInv'
<1> DEFINE r == seReq[h]
<1>1. r.pc \in {"score", "store"} /\ Active(h) /\ r.alone \in BOOLEAN /\ seSess # {}
      /\ UNCHANGED <<seNow, seUsed, seReplayed, seSettled, seHeld>>
  BY AtPc, Zenon DEF scoreAndStore, At
<1>2. CASE Goto(h, [pc |-> "store", alone |-> r.alone, rep |-> GetReport]) /\ UNCHANGED seSess
  <2> DEFINE q == [pc |-> "store", alone |-> r.alone, rep |-> GetReport]
  <2>1. q.pc = "store" /\ q.alone = r.alone /\ q.rep = GetReport /\ q = [pc |-> q.pc, alone |-> q.alone, rep |-> q.rep]
    BY Zenon
  <2>2. Goto(h, q)
    BY <1>2, Zenon
  <2> HIDE DEF q
  <2>3. HandlerOK(q, seSess, seSettled, seNow) /\ (q.alone => seReq[h].alone)
    BY <1>1, <2>1, SnapshotTaken, Zenon DEF HandlerOK, Holding
  <2> QED BY <1>1, <1>2, <2>2, <2>3, QuietStep, Zenon
<1>3. CASE /\ r.pc = "store"
           /\ seSess' = StoreScored(r.rep)
           /\ Goto(h, [pc |-> "issue", alone |-> r.alone, res |-> SeScores[<<r.rep.client, r.rep.net \cap ScoredIds>>]])
  <2> DEFINE q == [pc |-> "issue", alone |-> r.alone, res |-> SeScores[<<r.rep.client, r.rep.net \cap ScoredIds>>]]
  <2>1. q.pc = "issue" /\ q.alone = r.alone /\ q = [pc |-> q.pc, alone |-> q.alone, res |-> q.res]
    BY Zenon
  <2>2. Goto(h, q)
    BY <1>3, Zenon
  <2> HIDE DEF q
  <2>3. Snapshot(r.rep, seSettled)
    BY <1>3, AtPc, Zenon
  <2>4. PICK u : /\ seSess' = {u}
                 /\ SessionOK(u, seNow) /\ Follows(u, Ensured) /\ UsedOK(seUsed, {u}, seNow)
                 /\ StoreOK({u}, seNow, seSettled, seHeld)
    BY <1>1, <1>3, <2>3, SnapshotStored, Zenon
  <2>5. HandlerOK(q, {u}, seSettled, seNow) /\ (q.alone => seReq[h].alone)
    BY <1>1, <2>1, Zenon DEF HandlerOK, Answering
  <2> QED BY <1>1, <2>2, <2>4, <2>5, WriteStep, Zenon
<1> QED BY <1>2, <1>3, Zenon DEF scoreAndStore, At

LEMMA DifficultyType ==
  ASSUME NEW risk
  PROVE  DifficultyFor(risk) \in {0, 14, 16, 17}
BY Zenon DEF DifficultyFor

LEMMA HeaderIssued ==
  ASSUME SeInv, NEW h \in SeHandlers, issuePoWHeader(h)
  PROVE  SeInv'
<1> DEFINE r == seReq[h]
           e == Ensured
<1>1. r.pc \in {"issue", "diff", "deliver"} /\ Active(h) /\ r.alone \in BOOLEAN /\ seSess # {}
      /\ UNCHANGED <<seNow, seUsed, seReplayed>>
  BY AtPc, Zenon DEF issuePoWHeader, At
<1>2. CASE Finish(h, seSess) /\ UNCHANGED seHeld
  BY <1>1, <1>2, EndStep, Zenon
<1>3. CASE r.pc = "issue" /\ Goto(h, [r EXCEPT !.pc = "diff"]) /\ UNCHANGED <<seSess, seSettled, seHeld>>
  <2> DEFINE q == [r EXCEPT !.pc = "diff"]
  <2>0. r = [pc |-> r.pc, alone |-> r.alone, res |-> r.res]
    BY <1>3, AtPc, Zenon
  <2>1. PICK a, b, c : r = [pc |-> a, alone |-> b, res |-> c]
    BY <2>0, Zenon
  <2>2. q = [pc |-> "diff", alone |-> b, res |-> c]
    <3> HIDE DEF r
    <3> QED BY <2>1
  <2>3. Goto(h, q)
    BY <1>3, Zenon
  <2> HIDE DEF q
  <2>4. q.pc = "diff" /\ q.alone = r.alone /\ q = [pc |-> q.pc, alone |-> q.alone, res |-> q.res]
    BY <2>1, <2>2
  <2>5. HandlerOK(q, seSess, seSettled, seNow) /\ (q.alone => seReq[h].alone)
    BY <1>1, <2>4, Zenon DEF HandlerOK, Answering
  <2> QED BY <1>1, <1>3, <2>3, <2>5, QuietStep, Zenon
<1>4. CASE /\ r.pc = "diff" /\ Offered(r.res.risk, PowDifficulty) > 0
           /\ Goto(h, [pc |-> "deliver", alone |-> r.alone, d |-> Offered(r.res.risk, PowDifficulty)])
           /\ UNCHANGED <<seSess, seSettled, seHeld>>
  <2> DEFINE d == Offered(r.res.risk, PowDifficulty)
             q == [pc |-> "deliver", alone |-> r.alone, d |-> d]
  <2>1. e.diff \in Nat /\ PowDifficulty = e.diff /\ seSess = {e}
    BY <1>1, EnsuredIs, Zenon DEF PowDifficulty, SessionOK
  <2>2. d \in Nat \ {0} /\ (e.diff > 0 => d = e.diff)
    BY <1>4, <2>1, DifficultyType DEF Offered
  <2>3. Goto(h, q)
    BY <1>4, Zenon
  <2> HIDE DEF d
  <2>4. q.pc = "deliver" /\ q.alone = r.alone /\ q.d = d /\ q = [pc |-> "deliver", alone |-> q.alone, d |-> q.d]
    BY Zenon
  <2> HIDE DEF q
  <2>5. HandlerOK(q, seSess, seSettled, seNow) /\ (q.alone => seReq[h].alone)
    BY <1>1, <2>1, <2>2, <2>4, Zenon DEF HandlerOK, Answering
  <2> QED BY <1>1, <1>4, <2>3, <2>5, QuietStep, Zenon
<1>5. CASE /\ r.pc = "deliver"
           /\ seHeld' = IF r.alone THEN seHeld \cup {r.d} ELSE seHeld
           /\ Finish(h, SetPowIssued(r.d))
  <2>1. r.d \in Nat \ {0} /\ (r.alone => \A s \in seSess : s.diff > 0 => s.diff = r.d)
    BY <1>5, AtPc, Zenon
  <2>2. /\ seSess = {e} /\ SessionOK(e, seNow) /\ Fields(e, e.ritN, e.pinned, e.net, e.issued, e.diff, e.updated)
        /\ e.ritN \in Nat /\ e.pinned \in BOOLEAN /\ e.issued \in Nat \cup {NotIssued} /\ e.diff \in Nat
        /\ (e.issued = NotIssued <=> e.diff = 0) /\ seSettled \subseteq e.net /\ (~e.pinned => seSettled = {})
        /\ (\A x \in seHeld : e.diff = x /\ e.diff > 0) /\ seNow \in Nat /\ e.ritN <= e.ritN
    <3>1. /\ seSess = {e} /\ SessionOK(e, seNow) /\ Fields(e, e.ritN, e.pinned, e.net, e.issued, e.diff, e.updated)
          /\ seSettled \subseteq e.net /\ (~e.pinned => seSettled = {}) /\ \A x \in seHeld : e.diff = x /\ e.diff > 0
      BY <1>1, EnsuredIs, Zenon
    <3>2. seNow \in Nat
      BY Zenon DEF SeInv
    <3> HIDE DEF e
    <3> QED BY <3>1, <3>2 DEF SessionOK
  <2>3. CASE e.issued = NotIssued
    <3> DEFINE u == [e EXCEPT !.issued = seNow, !.diff = r.d]
    <3>1. SetPowIssued(r.d) = {u}
      BY <2>2, <2>3, Zenon DEF SetPowIssued
    <3>2. Fields(u, e.ritN, e.pinned, e.net, seNow, r.d, e.updated)
      BY <2>2, Issued, Zenon
    <3> HIDE DEF u
    <3>3. /\ WellFormed(u) /\ u.ritN = e.ritN /\ u.pinned = e.pinned /\ u.net = e.net
          /\ u.issued = seNow /\ u.diff = r.d /\ u.updated = e.updated
      BY <3>2, Zenon DEF Fields
    <3>4. u.issued \in Nat \cup {NotIssued} /\ u.diff \in Nat /\ (u.issued = NotIssued <=> u.diff = 0)
      BY <2>1, <2>2, <3>3 DEF NotIssued
    <3>5. SessionOK(u, seNow) /\ Follows(u, e) /\ UsedOK(seUsed, {u}, seNow)
      BY <2>2, <3>3, <3>4, Wrote, Zenon
    <3>6. seHeld = {}
      BY <2>2, <2>3
    <3>7. StoreOK({u}, seNow, seSettled, seHeld')
      <4>1. \A x \in seHeld' : u.diff = x /\ u.diff > 0
        BY <1>5, <2>1, <3>3, <3>6
      <4> QED BY <2>2, <3>3, <3>5, <4>1, Zenon DEF StoreOK
    <3> QED BY <1>1, <1>5, <3>1, <3>5, <3>7, FinishStep, Zenon
  <2>4. CASE e.issued # NotIssued
    <3>1. SetPowIssued(r.d) = {e}
      BY <2>2, <2>4, Zenon DEF SetPowIssued
    <3>2. Follows(e, e) /\ UsedOK(seUsed, {e}, seNow)
      BY <2>2 DEF Follows, SessionOK, SeInv
    <3>3. \A x \in seHeld' : e.diff = x /\ e.diff > 0
      <4> HIDE DEF e
      <4>1. e.diff > 0 /\ (r.alone => e.diff = r.d)
        BY <2>1, <2>2, <2>4
      <4> QED BY <1>5, <2>2, <4>1, Zenon
    <3>4. StoreOK({e}, seNow, seSettled, seHeld')
      BY <2>2, <3>3, Zenon DEF StoreOK
    <3> QED BY <1>1, <1>5, <2>2, <3>1, <3>2, <3>4, FinishStep, ZenonT(30)
  <2> QED BY <2>3, <2>4, Zenon
<1> QED BY <1>2, <1>3, <1>4, <1>5, Zenon DEF issuePoWHeader, At

\* A request that begins with a snapshot of the report.
LEMMA SnapshotBegins ==
  ASSUME SeInv, NEW h \in SeHandlers, seSess # {}, UNCHANGED <<seNow, seSess, seUsed, seReplayed, seSettled, seHeld>>,
         NEW r, Begin(h, r), NEW id,
         \/ r = [pc |-> "powdiff", alone |-> TRUE, rep |-> GetReport]
         \/ r = [pc |-> "passmark", alone |-> TRUE, rep |-> GetReport, id |-> id]
  PROVE  SeInv'
<1>1. PICK x : x = (Busy = {})
  BY Zenon
<1>2. PICK q : q = [r EXCEPT !.alone = (Busy = {})]
  BY Zenon
<1>3. \/ q = [pc |-> "powdiff", alone |-> x, rep |-> GetReport]
      \/ q = [pc |-> "passmark", alone |-> x, rep |-> GetReport, id |-> id]
  <2>1. \A v, y, rep : /\ [[pc |-> "powdiff", alone |-> v, rep |-> rep] EXCEPT !.alone = y] = [pc |-> "powdiff", alone |-> y, rep |-> rep]
                       /\ [[pc |-> "passmark", alone |-> v, rep |-> rep, id |-> id] EXCEPT !.alone = y] = [pc |-> "passmark", alone |-> y, rep |-> rep, id |-> id]
    OBVIOUS
  <2>2. CASE r = [pc |-> "powdiff", alone |-> TRUE, rep |-> GetReport]
    <3>1. q = [[pc |-> "powdiff", alone |-> TRUE, rep |-> GetReport] EXCEPT !.alone = x]
      BY <1>1, <1>2, <2>2, Zenon
    <3> QED BY <2>1, <3>1, Zenon
  <2>3. CASE r = [pc |-> "passmark", alone |-> TRUE, rep |-> GetReport, id |-> id]
    <3>1. q = [[pc |-> "passmark", alone |-> TRUE, rep |-> GetReport, id |-> id] EXCEPT !.alone = x]
      BY <1>1, <1>2, <2>3, Zenon
    <3> QED BY <2>1, <3>1, Zenon
  <2> QED BY <2>2, <2>3, Zenon
<1>4. q.alone = x /\ q.rep = GetReport
  BY <1>3, SMTT(30)
<1>5. Holding(q, seSettled)
  BY <1>3, <1>4, SnapshotTaken, SMTT(30) DEF Holding
<1>6. q.alone \in BOOLEAN /\ (q.alone <=> (Busy = {}))
  BY <1>1, <1>4, Zenon
<1>7. HandlerOK(q, seSess, seSettled, seNow)
  BY <1>5, <1>6, Zenon DEF HandlerOK
<1> QED BY <1>2, <1>6, <1>7, BeginStep, Zenon

LEMMA SolveBegun ==
  ASSUME SeInv, NEW h \in SeHandlers, PowGet(h) \/ PassReads(h)
  PROVE  SeInv'
<1>1. CASE PowGet(h)
  BY <1>1, SnapshotBegins, Zenon DEF PowGet
<1>2. CASE PassReads(h)
  <2>1. PICK id : Begin(h, [pc |-> "passmark", alone |-> TRUE, rep |-> GetReport, id |-> id])
    BY <1>2, Zenon DEF PassReads
  <2> QED BY <1>2, <2>1, SnapshotBegins, Zenon DEF PassReads
<1> QED BY <1>1, <1>2, Zenon

LEMMA SolveVerified ==
  ASSUME SeInv, NEW h \in SeHandlers, PowVerify(h) \/ PowTime(h) \/ PowFlag(h)
  PROVE  SeInv'
<1> DEFINE r == seReq[h]
<1>1. r.pc \in {"powdiff", "powtime", "powflag"} /\ Active(h) /\ r.alone \in BOOLEAN /\ seSess # {} /\ Snapshot(r.rep, seSettled)
      /\ UNCHANGED <<seNow, seUsed, seReplayed, seHeld>>
  BY AtPc, Zenon DEF PowVerify, PowTime, PowFlag, At
<1>2. ASSUME NEW q, Goto(h, q), UNCHANGED <<seSess, seSettled>>, q.alone = r.alone, q.rep = r.rep, NEW fast, NEW id,
             \/ q = [pc |-> "powtime", alone |-> r.alone, rep |-> r.rep]
             \/ q = [pc |-> "powflag", alone |-> r.alone, rep |-> r.rep, fast |-> fast]
             \/ q = [pc |-> "powmark", alone |-> r.alone, rep |-> r.rep, id |-> id]
      PROVE  SeInv'
  <2> HIDE DEF r
  <2>1. Holding(q, seSettled)
    BY <1>1, <1>2 DEF Holding
  <2>2. HandlerOK(q, seSess, seSettled, seNow) /\ (q.alone => seReq[h].alone)
    BY <1>1, <1>2, <2>1, Zenon DEF HandlerOK, r
  <2> QED BY <1>1, <1>2, <2>2, QuietStep, ZenonT(30)
<1>3. CASE PowVerify(h)
  <2>1. CASE Finish(h, seSess)
    BY <1>1, <2>1, EndStep, Zenon
  <2>2. CASE r.pc = "powdiff" /\ Goto(h, [seReq[h] EXCEPT !.pc = "powtime"]) /\ UNCHANGED <<seSess, seSettled>>
    <3> DEFINE q == [r EXCEPT !.pc = "powtime"]
    <3>0. r = [pc |-> r.pc, alone |-> r.alone, rep |-> r.rep]
      BY <2>2, AtPc, Zenon
    <3>1. PICK a, b, c : r = [pc |-> a, alone |-> b, rep |-> c]
      BY <3>0, Zenon
    <3>2. q = [pc |-> "powtime", alone |-> b, rep |-> c]
      <4> HIDE DEF r
      <4> QED BY <3>1
    <3>3. Goto(h, q)
      BY <2>2, Zenon
    <3> HIDE DEF q
    <3>4. q.alone = r.alone /\ q.rep = r.rep /\ q = [pc |-> "powtime", alone |-> r.alone, rep |-> r.rep]
      BY <3>1, <3>2
    <3> HIDE DEF r
    <3> QED BY <1>2, <2>2, <3>3, <3>4, Zenon
  <2> QED BY <1>3, <2>1, <2>2, Zenon DEF PowVerify, At
<1>4. CASE PowTime(h)
  <2>1. PICK fast : Goto(h, [pc |-> "powflag", alone |-> r.alone, rep |-> r.rep, fast |-> fast])
    BY <1>4, Zenon DEF PowTime
  <2> DEFINE q == [pc |-> "powflag", alone |-> r.alone, rep |-> r.rep, fast |-> fast]
  <2>2. q.alone = r.alone /\ q.rep = r.rep /\ q = [pc |-> "powflag", alone |-> r.alone, rep |-> r.rep, fast |-> fast]
    BY Zenon
  <2>3. Goto(h, q) /\ UNCHANGED <<seSess, seSettled>>
    BY <1>4, <2>1, Zenon DEF PowTime
  <2> HIDE DEF q, r
  <2> QED BY <1>2, <2>2, <2>3, Zenon
<1>5. CASE PowFlag(h)
  <2>1. PICK id : Goto(h, [pc |-> "powmark", alone |-> r.alone, rep |-> r.rep, id |-> id])
    BY <1>5, Zenon DEF PowFlag
  <2> DEFINE q == [pc |-> "powmark", alone |-> r.alone, rep |-> r.rep, id |-> id]
  <2>2. q.alone = r.alone /\ q.rep = r.rep /\ q = [pc |-> "powmark", alone |-> r.alone, rep |-> r.rep, id |-> id]
    BY Zenon
  <2>3. Goto(h, q) /\ UNCHANGED <<seSess, seSettled>>
    BY <1>5, <2>1, Zenon DEF PowFlag
  <2> HIDE DEF q, r
  <2> QED BY <1>2, <2>2, <2>3, Zenon
<1> QED BY <1>3, <1>4, <1>5, Zenon

\* The outcomes of an append outside the lock keep what the snapshot and the
\* report both hold.
LEMMA ClobberedKeeps ==
  ASSUME NEW settled, NEW net, NEW base, NEW id, NEW n \in Clobbered(net, base, id), settled \subseteq net, settled \subseteq base
  PROVE  settled \subseteq n
BY Zenon DEF Clobbered

LEMMA SolveMarked ==
  ASSUME SeInv, NEW h \in SeHandlers, PowMark(h) \/ PassAppends(h)
  PROVE  SeInv'
<1> DEFINE r == seReq[h]
           e == Ensured
           rep == [r.rep EXCEPT !.net = @ \cup {r.id}]
           q == [pc |-> "powstore", alone |-> r.alone, base |-> r.rep.net, rep |-> rep]
<1>1. /\ r.pc \in {"powmark", "passmark"} /\ Active(h) /\ r.alone \in BOOLEAN /\ seSess # {} /\ Snapshot(r.rep, seSettled)
      /\ UNCHANGED <<seNow, seUsed, seReplayed, seSettled>>
      /\ Goto(h, q)
  BY AtPc, Zenon DEF PowMark, PassAppends, At
<1>2. /\ seSess = {e} /\ SessionOK(e, seNow) /\ Fields(e, e.ritN, e.pinned, e.net, e.issued, e.diff, e.updated)
      /\ seSettled \subseteq e.net /\ (~e.pinned => seSettled = {}) /\ \A x \in seHeld : e.diff = x /\ e.diff > 0
  BY <1>1, EnsuredIs, Zenon
<1>3. Snapshot(rep, seSettled)
  <2>1. PICK a, b : r.rep = [net |-> a, client |-> b] /\ seSettled \subseteq a
    BY <1>1, Zenon DEF Snapshot
  <2>2. rep = [net |-> a \cup {r.id}, client |-> b]
    BY <2>1
  <2> HIDE DEF rep
  <2> QED BY <2>1, <2>2, Zenon DEF Snapshot
<1> HIDE DEF rep
<1>4. Holding(q, seSettled) /\ q.alone = r.alone
  <2>1. seSettled \subseteq r.rep.net
    BY <1>1, Zenon DEF Snapshot
  <2>2. q = [pc |-> "powstore", alone |-> q.alone, base |-> q.base, rep |-> q.rep] /\ q.alone = r.alone /\ q.rep = rep /\ q.base = r.rep.net
    BY Zenon
  <2> HIDE DEF q
  <2> QED BY <1>3, <2>1, <2>2, Zenon DEF Holding
<1> HIDE DEF q
<1>5. \A sess : sess # {} => HandlerOK(q, sess, seSettled, seNow)
  BY <1>1, <1>4, Zenon DEF HandlerOK
<1>6. q.alone => seReq[h].alone
  BY <1>4, Zenon
<1>7. ASSUME NEW n \in Clobbered(e.net, r.rep.net, r.id), NEW u, NEW i \in Nat \cup {NotIssued}, NEW d \in Nat, NEW t \in {seNow, e.updated},
             i = NotIssued <=> d = 0,
             Fields(u, e.ritN, e.pinned, n, i, d, t), seSess' = {u}, \A x \in seHeld' : d = x /\ d > 0
      PROVE  SeInv'
  <2>1. seSettled \subseteq n
    <3>1. seSettled \subseteq r.rep.net /\ seSettled \subseteq e.net
      BY <1>1, <1>2, Zenon DEF Snapshot
    <3> HIDE DEF r, e
    <3> QED BY <3>1, ClobberedKeeps, ZenonT(130)
  <2>2. WellFormed(u) /\ u.ritN = e.ritN /\ u.pinned = e.pinned /\ u.net = n /\ u.issued = i /\ u.diff = d /\ u.updated = t
    BY <1>7, Zenon DEF Fields
  <2>3. e.ritN \in Nat /\ e.pinned \in BOOLEAN /\ e.ritN <= e.ritN
    BY <1>2 DEF SessionOK
  <2>4. SessionOK(u, seNow) /\ Follows(u, e) /\ UsedOK(seUsed, {u}, seNow)
    BY <1>7, <2>2, <2>3, Wrote, Zenon
  <2>5. StoreOK({u}, seNow, seSettled, seHeld')
    BY <1>2, <1>7, <2>1, <2>2, <2>4, Zenon DEF StoreOK
  <2> QED BY <1>1, <1>5, <1>6, <1>7, <2>4, <2>5, WriteStep, ZenonT(30)
<1>8. e.issued \in Nat \cup {NotIssued} /\ e.diff \in Nat /\ (e.issued = NotIssued <=> e.diff = 0)
  BY <1>2, Zenon DEF SessionOK
<1>9. CASE PassAppends(h)
  <2>1. PICK n \in Clobbered(e.net, r.rep.net, r.id) : seSess' = {[s EXCEPT !.net = n] : s \in seSess}
    BY <1>9, Zenon DEF PassAppends
  <2> DEFINE u == [e EXCEPT !.net = n]
  <2>2. seSess' = {u}
    BY <1>2, <2>1, Zenon
  <2>3. Fields(u, e.ritN, e.pinned, n, e.issued, e.diff, e.updated)
    BY <1>2, SessionEdits, Zenon
  <2>4. seHeld' = seHeld
    BY <1>9, Zenon DEF PassAppends
  <2> HIDE DEF u
  <2> QED BY <1>2, <1>7, <1>8, <2>2, <2>3, <2>4, Zenon
<1>10. CASE PowMark(h) /\ r.id = Upgrade
  <2>1. PICK n \in Clobbered(e.net, r.rep.net, r.id) : seSess' = {[s EXCEPT !.net = n] : s \in SetPowSolved}
    BY <1>10, Zenon DEF PowMark
  <2> DEFINE v == [e EXCEPT !.solved = TRUE, !.issued = NotIssued, !.diff = 0, !.updated = seNow]
             u == [v EXCEPT !.net = n]
  <2>2. SetPowSolved = {v}
    BY <1>2, Zenon DEF SetPowSolved
  <2>3. Fields(u, e.ritN, e.pinned, n, NotIssued, 0, seNow)
    <3>1. \A x, y, z, w : Fields([[e EXCEPT !.solved = x, !.issued = y, !.diff = z, !.updated = w] EXCEPT !.net = n], e.ritN, e.pinned, n, y, z, w)
      BY <1>2, MarkedSolved, Zenon
    <3> QED BY <3>1, Zenon
  <2> HIDE DEF v
  <2>4. seSess' = {u}
    BY <2>1, <2>2, Zenon
  <2>5. seHeld' = {}
    BY <1>10, Zenon DEF PowMark
  <2> HIDE DEF u
  <2> QED BY <1>7, <2>3, <2>4, <2>5, Zenon
<1>11. CASE PowMark(h) /\ r.id # Upgrade
  <2>1. PICK n \in Clobbered(e.net, r.rep.net, r.id) : seSess' = {[s EXCEPT !.net = n] : s \in SetPowTooFast}
    BY <1>11, Zenon DEF PowMark
  <2> DEFINE v == [e EXCEPT !.tooFast = TRUE]
             u == [v EXCEPT !.net = n]
  <2>2. SetPowTooFast = {v}
    BY <1>2, Zenon DEF SetPowTooFast
  <2>3. Fields(u, e.ritN, e.pinned, n, e.issued, e.diff, e.updated)
    <3>1. \A x : Fields([[e EXCEPT !.tooFast = x] EXCEPT !.net = n], e.ritN, e.pinned, n, e.issued, e.diff, e.updated)
      BY <1>2, MarkedFast, Zenon
    <3> QED BY <3>1, Zenon
  <2> HIDE DEF v
  <2>4. seSess' = {u}
    BY <2>1, <2>2, Zenon
  <2>5. seHeld' = seHeld
    BY <1>11, Zenon DEF PowMark
  <2> HIDE DEF u
  <2> QED BY <1>2, <1>7, <1>8, <2>3, <2>4, <2>5, ZenonT(30)
<1> QED BY <1>9, <1>10, <1>11, Zenon

LEMMA SolveStored ==
  ASSUME SeInv, NEW h \in SeHandlers, PowStore(h)
  PROVE  SeInv'
<1> DEFINE r == seReq[h]
<1>1. r.pc = "powstore" /\ Active(h) /\ seSess # {} /\ Snapshot(r.rep, seSettled) /\ UNCHANGED <<seNow, seUsed, seReplayed, seHeld>>
      /\ Finish(h, StoreScored(r.rep))
  BY AtPc, Zenon DEF PowStore, At
<1>2. PICK u : /\ StoreScored(r.rep) = {u}
               /\ SessionOK(u, seNow) /\ Follows(u, Ensured) /\ UsedOK(seUsed, {u}, seNow)
               /\ StoreOK({u}, seNow, seSettled, seHeld)
  BY <1>1, SnapshotStored, Zenon
<1> QED BY <1>1, <1>2, FinishStep, Zenon

LEMMA SessionSwept ==
  ASSUME SeInv, SessionGC
  PROVE  SeInv'
<1>1. Busy = {} /\ seSess' = {} /\ seSettled' = {} /\ seHeld' = {} /\ UNCHANGED <<seNow, seReq, seUsed, seReplayed>>
  BY Zenon DEF SessionGC
<1>2. PICK s \in seSess : seNow - s.updated > SeTTL
  BY Zenon DEF SessionGC
<1>3. seSess = {s} /\ s.updated \in Nat /\ seNow \in Nat /\ SeTTL \in Nat /\ SeTTL >= 2
  BY SessionAssumption, Zenon DEF SeInv, StoreOK, SessionOK
<1>4. UsedOK(seUsed, {}, seNow)
  <2> SUFFICES ASSUME NEW t \in seUsed PROVE t.n \in Nat /\ t.tb \in Nat /\ t.tb + 2 <= seNow
    BY Zenon DEF UsedOK
  <2>1. t.n \in Nat /\ t.tb \in Nat /\ (t.tb + 2 <= seNow \/ t.tb <= s.updated + 1)
    BY <1>3, Zenon DEF SeInv, UsedOK
  <2> QED BY <1>2, <1>3, <2>1
<1>5. \A g \in SeHandlers : seReq[g] = Idle
  <2>1. \A g \in SeHandlers : seReq[g].pc = "idle"
    BY <1>1, Zenon DEF Busy, Active
  <2> QED BY <2>1, PcOfHandler, Zenon DEF SeInv
<1>6. AloneOK'
  BY <1>1, Zenon DEF SeInv, AloneOK, Active
<1> QED BY <1>1, <1>4, <1>5, <1>6, ZenonT(30) DEF SeInv, StoreOK, HandlerOK

LEMMA SessionAged ==
  ASSUME SeInv, SessionTick
  PROVE  SeInv'
<1>1. seNow \in Nat /\ seNow' = seNow + 1 /\ UNCHANGED <<seSess, seReq, seUsed, seReplayed, seSettled, seHeld>>
  BY Zenon DEF SeInv, SessionTick
<1>2. \A s : SessionOK(s, seNow) => SessionOK(s, seNow')
  BY <1>1 DEF SessionOK
<1>3. StoreOK(seSess, seNow', seSettled, seHeld)
  BY <1>2, Zenon DEF SeInv, StoreOK
<1>4. UsedOK(seUsed, seSess, seNow')
  BY <1>1 DEF SeInv, UsedOK
<1>5. ASSUME NEW h \in SeHandlers PROVE HandlerOK(seReq[h], seSess, seSettled, seNow')
  <2>1. HandlerOK(seReq[h], seSess, seSettled, seNow)
    BY Zenon DEF SeInv
  <2>2. Judging(seReq[h], seSess, seNow) => Judging(seReq[h], seSess, seNow')
    <3>1. seReq[h].tb \in Nat /\ seReq[h].tb <= seNow => seReq[h].tb <= seNow'
      BY <1>1
    <3> QED BY <3>1, Zenon DEF Judging
  <2> QED BY <2>1, <2>2, Zenon DEF HandlerOK
<1>6. AloneOK'
  BY <1>1, Zenon DEF SeInv, AloneOK, Active
<1> QED BY <1>1, <1>3, <1>4, <1>5, <1>6, SMTT(30) DEF SeInv

LEMMA SeStep == SeInv /\ [SessionNext]_seVars => SeInv'
<1> SUFFICES ASSUME SeInv, [SessionNext]_seVars PROVE SeInv'
  BY Zenon
<1>1. CASE UNCHANGED seVars
  BY <1>1, Zenon DEF seVars, SeInv, AloneOK, Active
<1>2. CASE handleSession \/ SessionGC \/ SessionTick
  BY <1>2, SessionCreated, SessionSwept, SessionAged, Zenon
<1>3. CASE \E h \in SeHandlers : handleCSPReport(h) \/ ReadRIT(h) \/ verifyRIT(h) \/ mergeObservation(h) \/ enrichServerSignals(h)
  BY <1>3, CSPReported, RITRead, RITJudged, ObservationMerged, SignalsEnriched, Zenon
<1>4. CASE \E h \in SeHandlers : \/ scoreAndStore(h) \/ issuePoWHeader(h) \/ PowGet(h) \/ PassReads(h)
                                 \/ PowVerify(h) \/ PowTime(h) \/ PowFlag(h) \/ PowMark(h) \/ PassAppends(h) \/ PowStore(h)
  BY <1>4, ScoredAndStored, HeaderIssued, SolveBegun, SolveVerified, SolveMarked, SolveStored, ZenonT(30)
<1> QED BY <1>1, <1>2, <1>3, <1>4, Zenon DEF SessionNext

\* The store and every request between two of its locked accesses stand as SeInv
\* says, for any set of handlers, any lifetime and any scores.
THEOREM SessionAlways == SessionSpec => []SeInv
BY SeInitially, SeStep, PTL DEF SessionSpec

\* For any lifetime of a session of at least two buckets and any number of handlers,
\* a token is accepted again only by a request that was already being served at its
\* first acceptance: by the counter, and by the time bucket once the session was
\* swept (verifyRIT, AdvanceRIT, Store.GC).
THEOREM TokensNotReplayedAlways == SessionSpec => []TokensNotReplayed
<1>1. SeInv => TokensNotReplayed
  BY Zenon DEF SeInv, TokensNotReplayed
<1> QED BY <1>1, SessionAlways, PTL

\* Settled evidence about a pinned session stays in its report, whichever handlers
\* store whole reports over each other afterwards (StoreScored, MergeNetwork).
THEOREM EvidenceKeptAlways == SessionSpec => []EvidenceKept
<1>1. SeInv => EvidenceKept
  BY Zenon DEF SeInv, StoreOK, EvidenceKept
<1> QED BY <1>1, SessionAlways, PTL

\* The difficulty a client was handed by a request that ran alone is the one its
\* solution is verified at, whatever the engine makes of later reports
\* (issuePoWHeader, SetPowIssued, handlePoW).
THEOREM ChallengeHonouredAlways == SessionSpec => []ChallengeHonoured
<1>1. SeInv => ChallengeHonoured
  BY Zenon DEF SeInv, StoreOK, ChallengeHonoured
<1> QED BY <1>1, SessionAlways, PTL

(***************************************************************************)
(* The trace of a score                                                    *)
(***************************************************************************)
\* What is scored and traced is the report and the configuration of the behaviour.
TraceInv ==
  /\ scConfig \in ScoringConfigs
  /\ scResult \subseteq {ScoreReport(scReport, scConfig)}
  /\ scTrace \subseteq {TraceReport(scReport, scConfig)}

\* The capped risks of the trace are those that production combines.
LEMMA SameRisk ==
  ASSUME NEW kept, NEW layerCap, NEW layers, layers = layerTrace(kept, layerCap)
  PROVE noisyOR([l \in DOMAIN layers |-> layers[l].capped]) = combineKept(kept, layerCap)
<1>1. DOMAIN layers = {c.layer : c \in kept}
  BY DEF layerTrace
<1>2. ASSUME NEW l \in {c.layer : c \in kept} PROVE layers[l].capped = cappedRisk(kept, l, layerCap)
  BY DEF layerTrace, cappedRisk
<1>3. [l \in DOMAIN layers |-> layers[l].capped] = [l \in {c.layer : c \in kept} |-> cappedRisk(kept, l, layerCap)]
  BY <1>1, <1>2, Zenon
<1> QED BY <1>3, Zenon DEF combineKept

\* The rule an upgrade is reported under is not one of the hard rules.
LEMMA RulesApart ==
  /\ \A i, j \in DOMAIN promotionRules : promotionRules[i] = promotionRules[j] => i = j
  /\ \A i \in DOMAIN promotionRules : promotionRules[i] \notin {"PoW-upgrade", "Pass-upgrade"}
BY SMTT(60) DEF promotionRules

LEMMA UpgradeNames ==
  ASSUME NEW solved \in SUBSET DOMAIN Upgrades, solved # {}
  PROVE UpgradeName(Min(solved)) \in {"PoW-upgrade", "Pass-upgrade"}
<1>1. solved \subseteq {1, 2} BY DEF Upgrades
<1>2. PICK m \in solved : \A x \in solved : m <= x BY <1>1
<1>3. Min(solved) \in solved BY <1>2, Zenon DEF Min
<1> QED BY <1>1, <1>3 DEF UpgradeName

\* The rule the trace marks is the one production took.
LEMMA SameWinner ==
  ASSUME NEW c, \A id \in DOMAIN c.modes : c.modes[id] \in {"enforce", "monitor", "off"},
         NEW rules, rules = tracePromotionRules(c)
  PROVE /\ DOMAIN rules = DOMAIN promotionRules
        /\ \A i \in DOMAIN promotionRules : /\ rules[i].rule = promotionRules[i]
                                            /\ rules[i].won <=> promotionRules[i] \in applyPromotionRules(c)
<1> DEFINE m == Matches(c)
           E == Eligible(c.modes, m)
           On(i) == m[promotionRules[i]] /\ ruleModeOf(c.modes, promotionRules[i]) = "enforce"
<1> HIDE DEF m
<1>1. \A id : ruleModeOf(c.modes, id) \in {"enforce", "monitor", "off"}
  BY Zenon DEF ruleModeOf
<1>2. ASSUME NEW i \in DOMAIN promotionRules PROVE i \in E <=> On(i)
  BY <1>1, Zenon DEF Eligible
<1>3. DOMAIN promotionRules = 1..24
  BY SMTT(30) DEF promotionRules
<1>4. DOMAIN rules = DOMAIN promotionRules
  BY DEF tracePromotionRules
<1>5. ASSUME NEW i \in DOMAIN promotionRules
      PROVE rules[i].rule = promotionRules[i] /\ (rules[i].won <=> On(i) /\ \A j \in 1..(i - 1) : ~On(j))
  <2>1. \A j \in 1..(i - 1) : j \in DOMAIN promotionRules
    BY <1>3
  <2> QED BY <2>1, Zenon DEF tracePromotionRules, m
<1>6. E \subseteq DOMAIN promotionRules
  BY Zenon DEF Eligible
<1>7. applyPromotionRules(c) = FirstRule(E)
  BY Zenon DEF applyPromotionRules, m
<1> HIDE DEF E, On
<1>8. ASSUME NEW i \in DOMAIN promotionRules
      PROVE promotionRules[i] \in FirstRule(E) <=> i \in E /\ \A j \in E : i <= j
  BY <1>6, RulesApart, SMTT(30) DEF FirstRule
<1>9. ASSUME NEW i \in DOMAIN promotionRules
      PROVE (On(i) /\ \A j \in 1..(i - 1) : ~On(j)) <=> (i \in E /\ \A j \in E : i <= j)
  <2>1. \A j \in E : j \in 1..24 /\ On(j)
    BY <1>2, <1>3, <1>6, Zenon
  <2>2. i \in 1..24 /\ (\A j \in 1..(i - 1) : j \in 1..24)
    BY <1>3
  <2>3. \A j \in 1..24 : On(j) => j \in E
    BY <1>2, <1>3, Zenon
  <2> QED BY <2>1, <2>2, <2>3, SMTT(30)
<1> QED BY <1>4, <1>5, <1>7, <1>8, <1>9, ZenonT(30)

LEMMA TraceFields ==
  ASSUME NEW r, NEW cfg, NEW c, NEW drops, NEW layers, NEW t, t = ScoreTrace(r, cfg, c, drops, layers)
  PROVE /\ t.result = decide(r, cfg, noisyOR([l \in DOMAIN layers |-> layers[l].capped]), applyPromotionRules(c))
        /\ t.rules = tracePromotionRules(c)
BY SMT DEF ScoreTrace

Agrees(t, res) ==
  /\ t.result = res
  /\ {e \in {t.rules[i] : i \in DOMAIN t.rules} : e.won} =
       {e \in {t.rules[i] : i \in DOMAIN t.rules} : e.rule \in res.rule}

\* The rule of a decision is the winner of the promotion, or an upgrade where there is none.
LEMMA DecideRule ==
  ASSUME NEW r, NEW cfg, NEW risk, NEW hard
  PROVE  LET solved == {j \in DOMAIN Upgrades : hasServerSignal(r, Upgrades[j])}
             rule == decide(r, cfg, risk, hard).rule
         IN  rule = hard \/ (hard = {} /\ solved # {} /\ rule = {UpgradeName(Min(solved))})
BY Zenon DEF decide

\* TraceReport and ScoreReport agree, whatever the report.
LEMMA SameOutcome ==
  ASSUME NEW r, NEW cfg \in ScoringConfigs
  PROVE Agrees(TraceReport(r, cfg), ScoreReport(r, cfg))
<1> DEFINE t == TraceReport(r, cfg)
           res == ScoreReport(r, cfg)
           kept == dedupGroups(Contributions(r, cfg))
           layers == layerTrace(kept, cfg.policy.layerCap)
           c == RuleContext(r, cfg)
           hard == applyPromotionRules(c)
           Entries == {t.rules[i] : i \in DOMAIN t.rules}
<1>1. dedupTraced(Contributions(r, cfg)).kept = kept
  BY DEF dedupTraced
<1>2. t = ScoreTrace(r, cfg, c, dedupTraced(Contributions(r, cfg)).drops, layers)
  BY <1>1, Zenon DEF TraceReport, combineTrace
<1>3. /\ t.result = decide(r, cfg, noisyOR([l \in DOMAIN layers |-> layers[l].capped]), hard)
      /\ t.rules = tracePromotionRules(c)
  BY <1>2, TraceFields, SMTT(30)
<1>4. res = decide(r, cfg, combineKept(kept, cfg.policy.layerCap), hard)
  BY Zenon DEF ScoreReport, Combine
<1>5. t.result = res
  BY <1>3, <1>4, SameRisk, ZenonT(30)
<1>6. c.modes = cfg.modes
  BY DEF RuleContext, ContextOf
<1>7. /\ DOMAIN t.rules = DOMAIN promotionRules
      /\ \A i \in DOMAIN promotionRules : /\ t.rules[i].rule = promotionRules[i]
                                          /\ t.rules[i].won <=> promotionRules[i] \in hard
  BY <1>3, <1>6, ModesAssumption, SameWinner, Zenon
<1>8. ASSUME NEW i \in DOMAIN promotionRules PROVE promotionRules[i] \in hard <=> promotionRules[i] \in res.rule
  <2> DEFINE solved == {j \in DOMAIN Upgrades : hasServerSignal(r, Upgrades[j])}
  <2>1. res.rule = hard \/ (hard = {} /\ solved # {} /\ res.rule = {UpgradeName(Min(solved))})
    <3> DEFINE rule == decide(r, cfg, combineKept(kept, cfg.policy.layerCap), hard).rule
    <3> HIDE DEF hard, kept, res
    <3>1. rule = hard \/ (hard = {} /\ solved # {} /\ rule = {UpgradeName(Min(solved))})
      BY ONLY DecideRule, SMTT(30)
    <3>2. res.rule = rule
      BY <1>4, Zenon
    <3> HIDE DEF rule, solved
    <3> QED BY <3>1, <3>2, Zenon
  <2>2. CASE res.rule = hard
    BY <2>2
  <2>3. CASE hard = {} /\ solved # {} /\ res.rule = {UpgradeName(Min(solved))}
    <3>1. UpgradeName(Min(solved)) \in {"PoW-upgrade", "Pass-upgrade"}
      BY <2>3, UpgradeNames, Zenon
    <3> QED BY <2>3, <3>1, RulesApart, Zenon
  <2> QED BY <2>1, <2>2, <2>3, ZenonT(30)
<1>9. ASSUME NEW e \in Entries PROVE e.won <=> e.rule \in res.rule
  BY <1>7, <1>8, Zenon
<1> QED BY <1>5, <1>9, Zenon DEF Agrees

\* The observatory's trace never disagrees with production, for any report, any
\* configuration whose rule modes passed validation and any layer cap.
THEOREM TraceAgreesAlways == ScoringSpec => []TraceAgrees
<1>1. ScoringInit => TraceInv
  BY Zenon DEF ScoringInit, TraceInv
<1>2. TraceInv /\ [ScoringNext]_scVars => TraceInv'
  <2> SUFFICES ASSUME TraceInv, [ScoringNext]_scVars PROVE TraceInv'
    OBVIOUS
  <2>1. CASE Score
    BY <2>1, Zenon DEF Score, TraceInv
  <2>2. CASE ScoreWithTrace
    BY <2>2, Zenon DEF ScoreWithTrace, TraceInv
  <2>3. CASE UNCHANGED scVars
    BY <2>3, Zenon DEF scVars, TraceInv
  <2> QED BY <2>1, <2>2, <2>3, Zenon DEF ScoringNext
<1>3. TraceInv => TraceAgrees
  <2> SUFFICES ASSUME TraceInv, NEW t \in scTrace, NEW res \in scResult PROVE Agrees(t, res)
    BY Zenon DEF TraceAgrees, Agrees
  <2>1. scConfig \in ScoringConfigs /\ t = TraceReport(scReport, scConfig) /\ res = ScoreReport(scReport, scConfig)
    BY Zenon DEF TraceInv
  <2> QED BY <2>1, SameOutcome, Zenon
<1> QED BY <1>1, <1>2, <1>3, PTL DEF ScoringSpec
=============================================================================
