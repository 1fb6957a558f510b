---------------------------- MODULE FleetVerdicts ----------------------------
(* The sticky verdict of one session, shared by the nodes of a Gate fleet      *)
(* (RedisVerdictLedger in internal/gate/redisledger.go over VerdictStore in    *)
(* enforce.go and the client in internal/redis): a store that may lose, delay  *)
(* and reorder writes or fall back to an older value, a local mirror per node, *)
(* and a per-node high-water mark against rollback.                            *)
(*                                                                             *)
(* A verdict is the time of its scoring, which is all the ledger compares, and *)
(* NoVerdict is VerdictUnknown. Stored values are sealed for their key, so the *)
(* store returns values that some node wrote, or none.                         *)
EXTENDS Integers, FiniteSets

CONSTANTS
  Nodes,
  Readers,    \* the nodes whose requests are followed
  TTL,        \* the coherence TTL of a verdict
  MaxTime,    \* bound: the clock
  LastWrite,  \* bound: no verdict is assigned after this time
  MaxReads    \* bound: concurrent Gets of a node

ASSUME ConstantsAssumption ==
  /\ Readers \subseteq Nodes
  /\ TTL \in Nat /\ MaxTime \in Nat /\ LastWrite \in Nat /\ MaxReads \in Nat
  /\ LastWrite + TTL < MaxTime

NoVerdict == -1

VARIABLES
  now,
  store,    \* the value of the session's key in Redis
  written,  \* the SETs sent: every value the key has held or may be given
  local,    \* per node, the mirror: VerdictStore.m
  hwm,      \* per node, RedisVerdictLedger.hwm
  reading,  \* per node, the Gets in flight: when they were asked, the reply
  returned  \* per node, the last verdict a Get has returned from the store

vars == <<now, store, written, local, hwm, reading, returned>>

Fresh(v, t) == t - v <= TTL

Max2(a, b) == IF a > b THEN a ELSE b

Init ==
  /\ now = 0
  /\ store = NoVerdict /\ written = {}
  /\ local = [n \in Nodes |-> NoVerdict]
  /\ hwm = [n \in Nodes |-> NoVerdict]
  /\ reading = [n \in Nodes |-> {}]
  /\ returned = [n \in Nodes |-> NoVerdict]

(***************************************************************************)
(* Set: the mirror first, then a SET whose error is dropped                *)
(***************************************************************************)
\* VerdictStore.Set; a mirror at its cap does not track a session it does not know.
\* The SET may take effect at once, later, behind another node's, or, when the
\* breaker is open or the connection fails, never.
Set(n) ==
  /\ now <= LastWrite
  /\ local' \in {[local EXCEPT ![n] = now]}
               \cup (IF local[n] = NoVerdict THEN {local} ELSE {})
  /\ written' \in {written, written \cup {now}}
  /\ UNCHANGED <<now, store, hwm, reading, returned>>

\* Redis takes a SET that was sent, or fails over to a replica that holds the
\* value of an earlier one.
StoreTakes ==
  \E v \in written :
    /\ store' = v
    /\ UNCHANGED <<now, written, local, hwm, reading, returned>>

\* Redis loses the key: its PX ran out, or it was evicted.
StoreDrops ==
  /\ store # NoVerdict
  /\ store' = NoVerdict
  /\ UNCHANGED <<now, written, local, hwm, reading, returned>>

(***************************************************************************)
(* Get                                                                     *)
(***************************************************************************)
\* The request reads the clock.
Ask(n) ==
  /\ n \in Readers
  /\ Cardinality(reading[n]) < MaxReads
  /\ reading' = [reading EXCEPT ![n] = @ \cup {[asked |-> now, reply |-> {}]}]
  /\ UNCHANGED <<now, store, written, local, hwm, returned>>

\* A value comes back from Redis.
Reply(n) ==
  /\ store # NoVerdict
  /\ \E r \in reading[n] :
       /\ r.reply = {}
       /\ reading' = [reading EXCEPT ![n] = (@ \ {r}) \cup
                        {[asked |-> r.asked, reply |-> {store}]}]
  /\ UNCHANGED <<now, store, written, local, hwm, returned>>

\* An error, or a nil reply: Get returns the local view, or no verdict.
ReplyEmpty(n) ==
  \E r \in reading[n] :
    /\ r.reply = {}
    /\ reading' = [reading EXCEPT ![n] = @ \ {r}]
    /\ UNCHANGED <<now, store, written, local, hwm, returned>>

\* Faulty: the high-water mark is not consulted.
AcceptedAlways(n, r, w) == Fresh(w, r.asked)

\* A stale value and one below the high-water mark are refused.
Accepted(n, r, w) == Fresh(w, r.asked) /\ w >= hwm[n]

\* The reply is judged under l.mu: it is returned and raises the mark, or Get
\* returns the local view.
Judge(n) ==
  \E r \in reading[n] : \E w \in r.reply :
    /\ reading' = [reading EXCEPT ![n] = @ \ {r}]
    /\ IF Accepted(n, r, w)
       THEN /\ hwm' = [hwm EXCEPT ![n] = Max2(@, w)]
            /\ returned' = [returned EXCEPT ![n] = w]
       ELSE UNCHANGED <<hwm, returned>>
    /\ UNCHANGED <<now, store, written, local>>

\* Faulty: the sweep takes the mark while a value it guards against is fresh.
GCEarly(n) ==
  /\ local' = [local EXCEPT ![n] = IF Fresh(@, now) THEN @ ELSE NoVerdict]
  /\ hwm' = [hwm EXCEPT ![n] = IF now - @ < TTL THEN @ ELSE NoVerdict]
  /\ UNCHANGED <<now, store, written, reading, returned>>

\* Faulty: the marks are never swept.
GCMirrorOnly(n) ==
  /\ local' = [local EXCEPT ![n] = IF Fresh(@, now) THEN @ ELSE NoVerdict]
  /\ UNCHANGED <<now, store, written, hwm, reading, returned>>

\* The periodic sweep of the mirror and of the marks.
GC(n) ==
  /\ local' = [local EXCEPT ![n] = IF Fresh(@, now) THEN @ ELSE NoVerdict]
  /\ hwm' = [hwm EXCEPT ![n] = IF Fresh(@, now) THEN @ ELSE NoVerdict]
  /\ UNCHANGED <<now, store, written, reading, returned>>

Tick ==
  /\ now < MaxTime
  /\ now' = now + 1
  /\ UNCHANGED <<store, written, local, hwm, reading, returned>>

Next ==
  \/ \E n \in Nodes :
       \/ Set(n) \/ Ask(n) \/ Reply(n) \/ ReplyEmpty(n) \/ Judge(n)
       \/ GC(n)
  \/ StoreTakes \/ StoreDrops \/ Tick

\* Time passes, every node sweeps periodically, and a Get ends: the client has
\* deadlines and the rest of Get only takes mutexes.
Fairness ==
  /\ WF_vars(Tick)
  /\ \A n \in Nodes : /\ WF_vars(GC(n))
                      /\ WF_vars(Reply(n) \/ ReplyEmpty(n))
                      /\ WF_vars(Judge(n))

Spec == Init /\ [][Next]_vars /\ Fairness

(***************************************************************************)
(* Properties                                                              *)
(***************************************************************************)
Verdicts == Nat \cup {NoVerdict}

\* Every variable has the shape of the Go value it stands for; what the store, the
\* replies and the marks hold was sent by some node.
TypeOK ==
  /\ now \in Nat /\ written \subseteq 0..now
  /\ store \in written \cup {NoVerdict}
  /\ local \in [Nodes -> Verdicts]
  /\ hwm \in [Nodes -> written \cup {NoVerdict}]
  /\ returned \in [Nodes -> written \cup {NoVerdict}]
  /\ reading \in [Nodes -> SUBSET [asked : Nat, reply : SUBSET written]]

\* The mark is on the verdict last returned from the store for as long as that is
\* fresh: no sweep takes it too early and no accepted reply leaves it behind.
MarkGuards ==
  \A n \in Nodes :
    returned[n] # NoVerdict /\ Fresh(returned[n], now) => hwm[n] = returned[n]

\* A node that has returned a verdict from the store does not go back to an older
\* one as long as the newer is fresh: not after a late write, a failover, replies
\* judged out of order, or a sweep (Get's mark, Get's freshness and GC agree).
NoRollback ==
  [][\A n \in Nodes : returned'[n] < returned[n] => ~Fresh(returned[n], now)]_vars

\* When no verdict is assigned any more, the maps of every node become empty,
\* however late the last replies are judged.
Reclaimed == <>[](\A n \in Nodes : local[n] = NoVerdict /\ hwm[n] = NoVerdict)

\* "Track the freshest Updated this node has observed per sid and reject a value
\* older than that high-water mark" (redisledger.go:148): a Get asked after the
\* node assigned a verdict itself does not return an older one from the store.
OwnVerdictKept ==
  [][\A n \in Nodes : \A r \in reading[n] \ reading'[n] :
       returned'[n] # returned[n] /\ r.asked > local[n] /\ Fresh(local[n], now)
         => returned'[n] >= local[n]]_vars
==============================================================================
