------------------------------- MODULE LiveFeed -------------------------------
(***************************************************************************)
(* The live feed of the observatory (internal/livefeed, the SSE handler of *)
(* cmd/server/playground.go): a hub that never blocks its publishers keeps *)
(* a bounded ring for replay and a bounded channel per subscriber, and a   *)
(* browser that lost its connection comes back with the last id it saw.    *)
(*                                                                         *)
(* An event is its id.  lfMissed holds, per client, the ids it may have    *)
(* missed: those dropped because its channel was full, which the hub       *)
(* counts, and those that had left the ring when it subscribed.            *)
(***************************************************************************)
EXTENDS Above

CONSTANTS LfClients,
          RingCap,     \* Hub.ringCap
          SubBuf,      \* Hub.subBuf
          LfMaxEvents, \* bound: events
          LfMaxConns   \* bound: connections of a client

ASSUME LiveFeedAssumption == RingCap \in Nat \ {0} /\ SubBuf \in Nat \ {0}

VARIABLES lfNext,  \* Hub.nextID
          lfRing,  \* Hub.ring
          lfSubs,  \* the handler of each client: [state, backlog, ch, lagged]
          lfConns, \* connections so far
          lfGot,   \* the ids each client received, in order
          lfMissed \* the ids dropped for a client or too old for it

lfVars == <<lfNext, lfRing, lfSubs, lfConns, lfGot, lfMissed>>

Gone == [state |-> "off", backlog |-> <<>>, ch |-> <<>>, lagged |-> 0]
On(c) == lfSubs[c].state = "on"

\* What the browser sends as Last-Event-ID; 0 when it saw nothing.
LastEventID(c) == IF lfGot[c] = <<>> THEN 0 ELSE lfGot[c][Len(lfGot[c])]

\* Publish, under the lock: the ring, then every channel that has room.
Publish ==
  LET e == lfNext + 1
      ring == Append(lfRing, e)
      full == {c \in LfClients : On(c) /\ Len(lfSubs[c].ch) >= SubBuf}
  IN  /\ lfNext < LfMaxEvents
      /\ lfNext' = e
      /\ lfRing' = IF Len(ring) > RingCap THEN Tail(ring) ELSE ring
      /\ lfSubs' = [c \in LfClients |-> IF ~On(c) THEN lfSubs[c]
                                        ELSE IF c \in full THEN [lfSubs[c] EXCEPT !.lagged = @ + 1]
                                        ELSE [lfSubs[c] EXCEPT !.ch = Append(@, e)]]
      /\ lfMissed' = [c \in LfClients |-> IF c \in full THEN lfMissed[c] \cup {e} ELSE lfMissed[c]]
      /\ UNCHANGED <<lfConns, lfGot>>

\* Faulty: the replay includes the event the client already has.
NewerOrSame(lastID) == Above(lfRing, lastID - 1)
Newer(lastID) == Above(lfRing, lastID)

\* Subscribe: the backlog and the registration, under one lock.
Subscribe(c) ==
  LET last == LastEventID(c)
  IN  /\ ~On(c) /\ lfConns[c] < LfMaxConns
      /\ lfConns' = [lfConns EXCEPT ![c] = @ + 1]
      /\ lfSubs' = [lfSubs EXCEPT ![c] = [state |-> "on", backlog |-> Newer(last), ch |-> <<>>, lagged |-> 0]]
      /\ lfMissed' = [lfMissed EXCEPT ![c] = @ \cup {e \in (last + 1)..lfNext : \A i \in DOMAIN lfRing : lfRing[i] # e}]
      /\ UNCHANGED <<lfNext, lfRing, lfGot>>

\* handlePlaygroundEvents writes the backlog, then what the channel holds.
WriteSSE(c) ==
  LET s == lfSubs[c]
      e == Head(s.backlog \o s.ch)
  IN  /\ On(c) /\ s.backlog \o s.ch # <<>>
      /\ lfSubs' = [lfSubs EXCEPT ![c] = IF s.backlog # <<>> THEN [s EXCEPT !.backlog = Tail(@)] ELSE [s EXCEPT !.ch = Tail(@)]]
      /\ lfGot' = [lfGot EXCEPT ![c] = Append(@, e)]
      /\ UNCHANGED <<lfNext, lfRing, lfConns, lfMissed>>

\* The connection is lost or closed: cancel drops the channel with what it holds.
Cancel(c) ==
  /\ On(c)
  /\ lfSubs' = [lfSubs EXCEPT ![c] = Gone]
  /\ UNCHANGED <<lfNext, lfRing, lfConns, lfGot, lfMissed>>

LiveFeedInit ==
  /\ lfNext = 0 /\ lfRing = <<>>
  /\ lfSubs = [c \in LfClients |-> Gone] /\ lfConns = [c \in LfClients |-> 0]
  /\ lfGot = [c \in LfClients |-> <<>>]
  /\ lfMissed = [c \in LfClients |-> {}]

LiveFeedNext ==
  \/ Publish
  \/ \E c \in LfClients : Subscribe(c) \/ WriteSSE(c) \/ Cancel(c)

LiveFeedSpec == LiveFeedInit /\ [][LiveFeedNext]_lfVars

-----------------------------------------------------------------------------
\* "no event is ever both in the backlog and the channel, and none is lost in the
\* gap between them" (Subscribe): over all its connections a client receives every
\* id at most once and in order, and each id up to the last it received either
\* reached it, or was dropped on its full channel, or had left the ring by the
\* time it came back; what is not yet received of a live connection is accounted
\* for in the same way.
FeedAccounted ==
  \A c \in LfClients :
    LET feed == lfGot[c] \o lfSubs[c].backlog \o lfSubs[c].ch
        upto == IF On(c) THEN lfNext ELSE LastEventID(c)
    IN  /\ \A i, j \in DOMAIN feed : i < j => feed[i] < feed[j]
        /\ \A e \in 1..upto : e \in lfMissed[c] \/ \E i \in DOMAIN feed : feed[i] = e

==============================================================================
