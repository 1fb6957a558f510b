------------------------------ MODULE TrafficLog ------------------------------
(***************************************************************************)
(* The traffic log of the core server (internal/trafficguard, the          *)
(* withTrafficLog middleware): every request records the TLS handshake of  *)
(* its connection under the client's address and then, in a second         *)
(* critical section, appends itself to its session with whatever handshake *)
(* that address last recorded.  Check looks for rotation in the records of *)
(* a session; its answer is a pure function of them, so the properties     *)
(* speak of it in every state.                                             *)
(*                                                                         *)
(* An address is the client's IP without a port (clientIP), so visitors    *)
(* behind one NAT share it.  tlCame keeps the handshakes a session really  *)
(* came over, and a record that of its own connection (own) and whether no *)
(* other handshake of its address came in between (alone): none of them is *)
(* known to the program.                                                   *)
(***************************************************************************)
EXTENDS Integers, Sequences, FiniteSets

CONSTANTS TlHandlers,    \* request slots
          TlRequests,    \* what arrives: [sid, addr, subnet, hello, ua, proto]
          NoSid,         \* a request without a session cookie
          MaxPerSession, \* maxPerSession
          TlTTL,         \* Log.ttl
          TlMaxTime,     \* bound: clock
          TlMaxReq       \* bound: requests

ASSUME TrafficAssumption == MaxPerSession \in Nat \ {0} /\ TlTTL \in Nat

VARIABLES tlNow, tlCount,
          tlByAddr,   \* Log.byAddr: a partial function from addresses to [ts, tls]
          tlSessions, \* Log.sessions
          tlSeen,     \* Log.seen: the last time of each session that has records
          tlReq,      \* the requests inside the middleware
          tlCame      \* the handshakes each session came over so far

tlVars == <<tlNow, tlCount, tlByAddr, tlSessions, tlSeen, tlReq, tlCame>>

\* A connection whose ClientHello was not captured, or is gone already. The ja4 of
\* a handshake is the part that ja4Stable keeps.
NoHello == [engine |-> "", ja4 |-> ""]

Sids == {q.sid : q \in TlRequests} \ {NoSid}
Without(f, gone) == [x \in DOMAIN f \ gone |-> f[x]]
With(f, x, v) == [y \in DOMAIN f \cup {x} |-> IF y = x THEN v ELSE f[y]]

-----------------------------------------------------------------------------
(***************************************************************************)
(* consistency.go: what the records of one session give away.              *)
(***************************************************************************)
\* The set of the values of one attribute that are not empty.
Values(column) == {column[i] : i \in DOMAIN column} \ {""}

Check(recs) ==
  LET engines == Values([i \in DOMAIN recs |-> recs[i].tls.engine])
      ja4s    == Values([i \in DOMAIN recs |-> recs[i].tls.ja4])
      agents  == Values([i \in DOMAIN recs |-> recs[i].ua])
      subnets == Values([i \in DOMAIN recs |-> recs[i].subnet])
      protos  == Values([i \in DOMAIN recs |-> recs[i].proto])
  IN  IF Len(recs) < 2 THEN {}
      ELSE {id \in {"l5.traffic.engine_rotation"} : Cardinality(engines) > 1}
           \cup {id \in {"l5.traffic.ja4_rotation"} : Cardinality(ja4s) > 2}
           \cup {id \in {"l5.traffic.ua_rotation"} : Cardinality(agents) > 1}
           \cup {id \in {"l5.traffic.ip_hop"} : Cardinality(subnets) > 1}
           \cup {id \in {"l5.traffic.proto_downgrade"} : {"1.1", "2"} \subseteq protos}

(***************************************************************************)
(* log.go                                                                  *)
(***************************************************************************)
\* Faulty: the first handshake of an address stays.
KeepTLS(addr, tls, ts) == IF addr \in DOMAIN tlByAddr THEN tlByAddr ELSE With(tlByAddr, addr, [ts |-> ts, tls |-> tls])

RecordTLS(addr, tls, ts) == With(tlByAddr, addr, [ts |-> ts, tls |-> tls])

Attached(addr) == IF addr \in DOMAIN tlByAddr THEN tlByAddr[addr].tls ELSE NoHello

\* The ring holds the last MaxPerSession records.
Appended(recs, rec) == Append(IF Len(recs) >= MaxPerSession THEN Tail(recs) ELSE recs, rec)

RecordHTTP(q, alone, ts) ==
  /\ tlSessions' = [tlSessions EXCEPT ![q.sid] =
                      Appended(@, [tls |-> Attached(q.addr), ua |-> q.ua, subnet |-> q.subnet, proto |-> q.proto,
                                   addr |-> q.addr, own |-> q.hello, alone |-> alone])]
  /\ tlSeen' = With(tlSeen, q.sid, ts)

\* withTrafficLog reads the clock, then looks up the captured handshake.
TlIdle == [pc |-> "idle"]
TlAt(h, pc) == tlReq[h].pc = pc

RequestArrives(h) ==
  /\ TlAt(h, "idle") /\ tlCount < TlMaxReq
  /\ tlCount' = tlCount + 1
  /\ \E q \in TlRequests :
       /\ tlReq' = [tlReq EXCEPT ![h] = [pc |-> "tls", q |-> q, ts |-> tlNow, alone |-> TRUE]]
       /\ tlCame' = [s \in Sids |-> IF s = q.sid THEN tlCame[s] \cup {q.hello} ELSE tlCame[s]]
  /\ UNCHANGED <<tlNow, tlByAddr, tlSessions, tlSeen>>

\* A handshake recorded between the two halves of another request of the address.
Overtaken(h, addr) ==
  [g \in TlHandlers |-> IF g # h /\ TlAt(g, "http") /\ tlReq[g].q.addr = addr
                        THEN [tlReq[g] EXCEPT !.alone = FALSE] ELSE tlReq[g]]

HandshakeRecorded(h) ==
  LET r == tlReq[h]
      others == IF r.q.hello = NoHello THEN tlReq ELSE Overtaken(h, r.q.addr)
  IN  /\ TlAt(h, "tls")
      /\ tlByAddr' = IF r.q.hello = NoHello THEN tlByAddr ELSE RecordTLS(r.q.addr, r.q.hello, r.ts)
      /\ tlReq' = [others EXCEPT ![h] = IF r.q.sid = NoSid THEN TlIdle ELSE [r EXCEPT !.pc = "http"]]
      /\ UNCHANGED <<tlNow, tlCount, tlSessions, tlSeen, tlCame>>

RequestRecorded(h) ==
  LET r == tlReq[h]
  IN  /\ TlAt(h, "http")
      /\ RecordHTTP(r.q, r.alone, r.ts)
      /\ tlReq' = [tlReq EXCEPT ![h] = TlIdle]
      /\ UNCHANGED <<tlNow, tlCount, tlByAddr, tlCame>>

\* The sweep of the minute: idle sessions, and handshakes by their own age.
TrafficGC ==
  LET idle == {s \in DOMAIN tlSeen : tlNow - tlSeen[s] > TlTTL}
  IN  /\ tlSessions' = [s \in Sids |-> IF s \in idle THEN <<>> ELSE tlSessions[s]]
      /\ tlSeen' = Without(tlSeen, idle)
      /\ tlByAddr' = Without(tlByAddr, {a \in DOMAIN tlByAddr : tlNow - tlByAddr[a].ts > TlTTL})
      /\ UNCHANGED <<tlNow, tlCount, tlReq, tlCame>>

\* resetDetectionState, before a run of the playground.
TrafficReset ==
  /\ tlByAddr' = <<>> /\ tlSeen' = <<>> /\ tlSessions' = [s \in Sids |-> <<>>]
  /\ UNCHANGED <<tlNow, tlCount, tlReq, tlCame>>

TrafficTick ==
  /\ tlNow < TlMaxTime /\ tlNow' = tlNow + 1
  /\ UNCHANGED <<tlCount, tlByAddr, tlSessions, tlSeen, tlReq, tlCame>>

TrafficInit ==
  /\ tlNow = 0 /\ tlCount = 0 /\ tlByAddr = <<>> /\ tlSeen = <<>>
  /\ tlSessions = [s \in Sids |-> <<>>]
  /\ tlReq = [h \in TlHandlers |-> TlIdle]
  /\ tlCame = [s \in Sids |-> {}]

TrafficNext ==
  \/ \E h \in TlHandlers : RequestArrives(h) \/ HandshakeRecorded(h) \/ RequestRecorded(h)
  \/ TrafficGC \/ TrafficReset \/ TrafficTick

TrafficSpec == TrafficInit /\ [][TrafficNext]_tlVars

-----------------------------------------------------------------------------
\* The rotation a session is charged with is one its own connections show.
Real(s) ==
  "l5.traffic.engine_rotation" \in Check(tlSessions[s]) => Cardinality({t.engine : t \in tlCame[s]} \ {""}) > 1

\* "TLS engine family rotated within session" (the note of engine_rotation,
\* consistency.go): a session charged with rotating its TLS stack came over
\* connections that rotate.
RotationIsReal == \A s \in Sids : Real(s)

\* What the log does guarantee: a request is recorded with its own handshake
\* unless another request of its address was served between the two halves of
\* the middleware, however the ring, the sweep and resets intervene; so a session
\* whose addresses nobody else uses is never charged with a rotation that its
\* connections do not show (RecordTLS, RecordHTTP, Check).
Unshared(s) ==
  \A q1, q2 \in TlRequests : q1.sid = s /\ q1.addr = q2.addr => q2.sid = s

RotationObserved ==
  \A s \in Sids :
    /\ Unshared(s) => Real(s)
    /\ \A i \in DOMAIN tlSessions[s] :
         LET r == tlSessions[s][i] IN r.alone /\ r.own # NoHello => r.tls \in {r.own, NoHello}

=============================================================================
