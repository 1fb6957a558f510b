----------------------------- MODULE ControlPlane -----------------------------
(***************************************************************************)
(* The gate's control plane (internal/gate/control.go, control_collect.go) *)
(* for the beacons of one session: a beacon merges what the request and    *)
(* the client's report say into the session store, reads the session back, *)
(* scores it, stores it, sets the sticky verdict, mints a token on ALLOW   *)
(* and is audited.  The store's lock is taken per call, so two beacons of  *)
(* one session interleave between the calls.                               *)
(*                                                                         *)
(* The flood meter of cpGuard is the limiter of module RateLimit, the      *)
(* replay check is in SingleUse, the verdict ledger in FleetVerdicts, the  *)
(* token in TrustTokens, and the engine in Scoring: here a verdict is what *)
(* CpVerdict gives for the evidence and the engine's configuration.        *)
(* Configuring the engine and scoring with it take no lock: the fields of  *)
(* the engine are written and read one at a time, in any order.            *)
(***************************************************************************)
EXTENDS Integers, FiniteSets

CONSTANTS CpHandlers, CpClients, CpNets, CpResiduals,
          CpPolicies,     \* what the settings overlay may make of the engine
          CpFields,       \* the fields ConfigureFull assigns
          CpVerdict,      \* [CpClients \X CpNets \X CpEngines -> verdict]
          NoReport,       \* an empty client report or network observation
          CpMaxBeacons    \* bound: beacons

ASSUME ControlAssumption == NoReport \notin CpClients \cup CpNets

\* An engine is, field by field, the effective settings it was last configured from.
CpEngines == [CpFields -> CpPolicies]

VARIABLES cpRep,      \* the session's report: [client, net, residuals, score]
          cpPinned,   \* netPinned
          cpPolicy,   \* the effective settings
          cpEngine,   \* the shared engine
          cpSticky,   \* the sticky verdict
          cpReq, cpBeacons,
          cpTokens,   \* verdict tokens minted: the report each was minted for
          cpAudit     \* scoring.evaluated records

cpVars == <<cpRep, cpPinned, cpPolicy, cpEngine, cpSticky, cpReq, cpBeacons, cpTokens, cpAudit>>

CpIdle == [pc |-> "idle"]
CpAt(h, pc) == cpReq[h].pc = pc
CpGoto(h, r) == cpReq' = [cpReq EXCEPT ![h] = r]
CpMoves(h, pc) == CpGoto(h, [cpReq[h] EXCEPT !.pc = pc])

ControlInit ==
  /\ cpRep = [client |-> NoReport, net |-> NoReport, residuals |-> {}, score |-> "none"]
  /\ cpPinned = FALSE /\ cpPolicy \in CpPolicies /\ cpEngine \in CpEngines /\ cpSticky = "none"
  /\ cpReq = [h \in CpHandlers |-> CpIdle] /\ cpBeacons = 0 /\ cpTokens = {} /\ cpAudit = {}

\* An accepted beacon: a POST within the flood limit, well-formed, not a replay.
\* Whatever is refused before this point touches nothing modelled here.
handleCollect(h) ==
  /\ CpAt(h, "idle") /\ cpBeacons < CpMaxBeacons
  /\ cpBeacons' = cpBeacons + 1
  /\ \E c \in CpClients, n \in CpNets, rs \in SUBSET CpResiduals :
       CpGoto(h, [pc |-> "network", client |-> c, net |-> n, residuals |-> rs])
  /\ UNCHANGED <<cpRep, cpPinned, cpPolicy, cpEngine, cpSticky, cpTokens, cpAudit>>

\* The first observation is pinned; later ones add their request-scoped residuals.
MergesNetwork(h) ==
  /\ CpAt(h, "network")
  /\ cpRep' = IF cpPinned THEN [cpRep EXCEPT !.residuals = @ \cup cpReq[h].residuals]
              ELSE [cpRep EXCEPT !.net = cpReq[h].net, !.residuals = cpReq[h].residuals]
  /\ cpPinned' = TRUE
  /\ CpMoves(h, "client")
  /\ UNCHANGED <<cpPolicy, cpEngine, cpSticky, cpBeacons, cpTokens, cpAudit>>

MergesClient(h) ==
  /\ CpAt(h, "client")
  /\ cpRep' = [cpRep EXCEPT !.client = cpReq[h].client]
  /\ CpMoves(h, "configure")
  /\ UNCHANGED <<cpPinned, cpPolicy, cpEngine, cpSticky, cpBeacons, cpTokens, cpAudit>>

\* The effective settings are read once.
ConfigureEngineFromEffective(h) ==
  /\ CpAt(h, "configure")
  /\ CpGoto(h, [pc |-> "assign", eff |-> cpPolicy, todo |-> CpFields])
  /\ UNCHANGED <<cpRep, cpPinned, cpPolicy, cpEngine, cpSticky, cpBeacons, cpTokens, cpAudit>>

ConfigureFull(h) ==
  /\ CpAt(h, "assign")
  /\ \E f \in cpReq[h].todo :
       /\ cpEngine' = [cpEngine EXCEPT ![f] = cpReq[h].eff]
       /\ CpGoto(h, [cpReq[h] EXCEPT !.todo = @ \ {f}])
  /\ UNCHANGED <<cpRep, cpPinned, cpPolicy, cpSticky, cpBeacons, cpTokens, cpAudit>>

GetsReport(h) ==
  /\ CpAt(h, "assign") /\ cpReq[h].todo = {}
  /\ CpGoto(h, [pc |-> "score", rep |-> cpRep, engine |-> cpEngine, todo |-> CpFields])
  /\ UNCHANGED <<cpRep, cpPinned, cpPolicy, cpEngine, cpSticky, cpBeacons, cpTokens, cpAudit>>

ReadsEngine(h) ==
  /\ CpAt(h, "score")
  /\ \E f \in cpReq[h].todo :
       CpGoto(h, [cpReq[h] EXCEPT !.engine = [@ EXCEPT ![f] = cpEngine[f]], !.todo = @ \ {f}])
  /\ UNCHANGED <<cpRep, cpPinned, cpPolicy, cpEngine, cpSticky, cpBeacons, cpTokens, cpAudit>>

\* The engine is shared: it scores with whatever its fields held when they were read.
ScoresReport(h) ==
  LET r == cpReq[h].rep
  IN  /\ CpAt(h, "score") /\ cpReq[h].todo = {}
      /\ CpGoto(h, [pc |-> "store", rep |-> [r EXCEPT !.score = CpVerdict[<<r.client, r.net, cpReq[h].engine>>]]])
      /\ UNCHANGED <<cpRep, cpPinned, cpPolicy, cpEngine, cpSticky, cpBeacons, cpTokens, cpAudit>>

\* Faulty: only the score is written back.
StoredScore(rep) == [cpRep EXCEPT !.score = rep.score]
\* The report is written back whole, over what other beacons merged meanwhile.
StoreScored(rep) == rep

StoresReport(h) ==
  /\ CpAt(h, "store")
  /\ cpRep' = StoreScored(cpReq[h].rep)
  /\ CpMoves(h, "sticky")
  /\ UNCHANGED <<cpPinned, cpPolicy, cpEngine, cpSticky, cpBeacons, cpTokens, cpAudit>>

updateStickyVerdict(h) ==
  /\ CpAt(h, "sticky")
  /\ cpSticky' = cpReq[h].rep.score
  /\ CpMoves(h, "answer")
  /\ UNCHANGED <<cpRep, cpPinned, cpPolicy, cpEngine, cpBeacons, cpTokens, cpAudit>>

\* issueVerdictTokenOnAllow, linkAndAuditScoring, writeControlVerdict; the
\* residuals audited are those of the session as it is by now.
AnswersBeacon(h) ==
  LET r == cpReq[h].rep
  IN  /\ CpAt(h, "answer")
      /\ cpTokens' = IF r.score = "ALLOW" THEN cpTokens \cup {r} ELSE cpTokens
      /\ cpAudit' = cpAudit \cup {[verdict |-> r.score, residuals |-> cpRep.residuals]}
      /\ CpGoto(h, CpIdle)
      /\ UNCHANGED <<cpRep, cpPinned, cpPolicy, cpEngine, cpSticky, cpBeacons>>

\* The settings overlay changes between beacons.
PolicyChanges ==
  /\ \E p \in CpPolicies : cpPolicy' = p
  /\ UNCHANGED <<cpRep, cpPinned, cpEngine, cpSticky, cpReq, cpBeacons, cpTokens, cpAudit>>

ControlNext ==
  \/ PolicyChanges
  \/ \E h \in CpHandlers :
       \/ handleCollect(h) \/ MergesNetwork(h) \/ MergesClient(h) \/ ConfigureEngineFromEffective(h)
       \/ ConfigureFull(h) \/ GetsReport(h) \/ ReadsEngine(h) \/ ScoresReport(h) \/ StoresReport(h) \/ updateStickyVerdict(h) \/ AnswersBeacon(h)

ControlSpec == ControlInit /\ [][ControlNext]_cpVars

(***************************************************************************)
(* Properties                                                              *)
(***************************************************************************)
ScoreOf(rep) == {CpVerdict[<<rep.client, rep.net, e>>] : e \in CpEngines}

\* However beacons of one session overlap, a score never stands beside evidence it
\* was not computed from: once no beacon is in progress the stored report carries
\* the verdict of its own client report and pinned network observation, under some
\* mixture of the settings that were in effect, a token
\* was minted only for such a report with ALLOW, and the sticky verdict the edge
\* enforces is one that was audited (scoreBeacon, control_collect.go:46).
ScoresBelong ==
  /\ (\A h \in CpHandlers : CpAt(h, "idle")) /\ cpBeacons > 0 =>
       cpRep.score \in ScoreOf(cpRep) /\ \E a \in cpAudit : a.verdict = cpSticky
  /\ \A t \in cpTokens : t.score = "ALLOW" /\ t.score \in ScoreOf(t)
===============================================================================
