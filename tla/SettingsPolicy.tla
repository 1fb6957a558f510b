---------------------------- MODULE SettingsPolicy ----------------------------
(* The pure part of the Gate's runtime settings (internal/gate/settings): what *)
(* an overlay may say (validate.go), the posture it results in (resolve.go),   *)
(* how much of the protection a proposal takes away (classify.go), and the     *)
(* version that names a posture (overlay.go).                                  *)
(*                                                                             *)
(* A field that the operator left out is the empty set, one that is given is   *)
(* a singleton; a map is a function on the ids it names.                       *)
EXTENDS Integers, FiniteSets, TLC

Modes == {"enforce", "monitor", "shadow", "off"}

KnownGates == {"gate.smuggle", "gate.spoof_header", "gate.ban",
               "gate.verdict_token", "gate.recon_sweep", "gate.inject",
               "gate.attest_floor"}

CriticalGates == {"gate.smuggle", "gate.spoof_header", "gate.verdict_token"}

CriticalHRs == {"HR-1", "HR-2", "HR-16", "HR-18", "HR-19"}

NetClasses == {"net.proxy.hop", "net.proxy.anon", "net.proxy.spoof", "net.vpn",
               "net.tor", "net.tcp", "net.correlation", "net.h2.spoof",
               "net.header.order", "net.tls.pq", "net.tls.alps",
               "net.tls.certcomp", "net.http.h1", "net.tls.ech"}

\* ScoringDefaults
DefChallenge == 30
DefDeny == 70
DefLayerCap == 60

NoMap == <<>>

\* An overlay that changes nothing; a proposal is this one with some fields given.
EmptyBody ==
  [gates |-> NoMap, hardRules |-> NoMap, netPolicy |-> NoMap, routes |-> NoMap,
   weights |-> NoMap,   \* signal -> percent of its weight
   challengeAt |-> {}, denyAt |-> {}, layerCap |-> {},
   window |-> {}, soft |-> {}, hard |-> {}, globalMonitor |-> {}]

Given(field, default) == IF field = {} THEN default ELSE CHOOSE v \in field : TRUE

\* The map of the overlay over the one beneath it.
Laid(map, beneath) ==
  [x \in DOMAIN map \cup DOMAIN beneath |-> IF x \in DOMAIN map THEN map[x] ELSE beneath[x]]

(***************************************************************************)
(* Resolve: boot configuration, then the overlay, then the kill switch     *)
(***************************************************************************)
Resolve(boot, kill, o) ==
  [gates |-> Laid(o.gates, [g \in KnownGates |-> "enforce"]),
   hardRules |-> o.hardRules,
   netPolicy |-> o.netPolicy,
   weights |-> o.weights,
   routes |-> Laid(o.routes, boot.routes),
   challengeAt |-> Given(o.challengeAt, DefChallenge),
   denyAt |-> Given(o.denyAt, DefDeny),
   layerCap |-> Given(o.layerCap, DefLayerCap),
   window |-> Given(o.window, boot.window),
   soft |-> Given(o.soft, boot.soft),
   hard |-> Given(o.hard, boot.hard),
   globalMonitor |-> kill \/ Given(o.globalMonitor, boot.globalMonitor),
   kill |-> kill]

HRMode(eff, id) == IF id \in DOMAIN eff.hardRules THEN eff.hardRules[id] ELSE "enforce"

GateMode(eff, g) == IF g \in DOMAIN eff.gates THEN eff.gates[g] ELSE "enforce"

\* A network class that the posture does not name is observed only, but for the
\* correlation class.
NetMode(eff, id) ==
  IF id \in DOMAIN eff.netPolicy THEN eff.netPolicy[id]
  ELSE IF id = "net.correlation" THEN "enforce" ELSE "monitor"

(***************************************************************************)
(* Validate                                                                *)
(***************************************************************************)
ValidGateMode(g, m) ==
  g \in KnownGates /\ m \in Modes /\ (m = "off" => g \notin CriticalGates)

ValidHRMode(m) == m \in {"enforce", "monitor"}

ValidNetMode(id, m) ==
  /\ id \in NetClasses
  /\ m \in {"enforce", "monitor", "shadow"}
  /\ ~(id = "net.tcp" /\ m = "enforce")

\* The thresholds are compared with the defaults of what is not given.
ValidScoring(o) ==
  /\ o.challengeAt \subseteq 10..60
  /\ o.denyAt \subseteq 40..95
  /\ o.layerCap \subseteq 30..80
  /\ Given(o.challengeAt, DefChallenge) < Given(o.denyAt, DefDeny)

Validate(o) ==
  /\ \A g \in DOMAIN o.gates : ValidGateMode(g, o.gates[g])
  /\ \A id \in DOMAIN o.hardRules : ValidHRMode(o.hardRules[id])
  /\ \A id \in DOMAIN o.netPolicy : ValidNetMode(id, o.netPolicy[id])
  /\ ValidScoring(o)
  /\ \A s \in DOMAIN o.weights : o.weights[s] \in 0..200
  /\ \A v \in o.window \cup o.soft \cup o.hard : v >= 1
  /\ \A s \in o.soft, h \in o.hard : h >= s
  /\ \A p \in DOMAIN o.routes \cap {"/", ""} : o.routes[p] # "attested"

\* validateSettingsRuntime: what is not given comes from the boot configuration.
ValidRuntime(eff) == eff.window >= 1 /\ eff.soft >= 1 /\ eff.hard >= eff.soft

(***************************************************************************)
(* Classify: C over B over D over A                                        *)
(***************************************************************************)
\* Below enforce, for what was enforced.
\* Faulty: only switching off counts.
DemotesToOff(modes, id, cur) == modes[id] = "off" /\ cur = "enforce"

Demotes(modes, id, cur) == modes[id] # "enforce" /\ cur = "enforce"

RaisesC(eff, o) ==
  \/ \E v \in o.challengeAt : v > DefChallenge + 15
  \/ \E v \in o.denyAt : v > DefDeny + 15
  \/ Cardinality({s \in DOMAIN o.weights : o.weights[s] = 0}) >= 5
  \/ \E id \in DOMAIN o.hardRules \cap CriticalHRs :
       Demotes(o.hardRules, id, HRMode(eff, id))
  \/ \E g \in DOMAIN o.gates \cap CriticalGates :
       Demotes(o.gates, g, GateMode(eff, g))
  \/ TRUE \in o.globalMonitor /\ ~eff.globalMonitor
  \/ /\ "net.correlation" \in DOMAIN o.netPolicy
     /\ o.netPolicy["net.correlation"] = "monitor"
     /\ NetMode(eff, "net.correlation") = "enforce"

RaisesB(eff, o) ==
  \/ \E v \in o.challengeAt : v > eff.challengeAt \/ v > DefChallenge
  \/ \E v \in o.denyAt : v > eff.denyAt \/ v > DefDeny
  \/ \E v \in o.layerCap : v < eff.layerCap \/ v < DefLayerCap
  \/ \E s \in DOMAIN o.weights : o.weights[s] < 100
  \/ \E id \in DOMAIN o.hardRules : Demotes(o.hardRules, id, HRMode(eff, id))
  \/ \E g \in DOMAIN o.gates : Demotes(o.gates, g, GateMode(eff, g))
  \/ \E id \in DOMAIN o.netPolicy :
       o.netPolicy[id] = "monitor" /\ NetMode(eff, id) = "enforce"
  \/ \E p \in DOMAIN o.routes \cap DOMAIN eff.routes :
       o.routes[p] \in {"monitor", "off"} /\ eff.routes[p] = "balanced"
  \/ \E v \in o.window : v < eff.window
  \/ \E v \in o.soft : v > eff.soft
  \/ \E v \in o.hard : v > eff.hard

RaisesD(eff, o) ==
  \E p \in DOMAIN o.routes \cap DOMAIN eff.routes :
    o.routes[p] \in {"monitor", "off"} /\ eff.routes[p] \in {"strict", "attested"}

Classify(eff, o) ==
  IF RaisesC(eff, o) THEN "C" ELSE IF RaisesB(eff, o) THEN "B"
  ELSE IF RaisesD(eff, o) THEN "D" ELSE "A"

(***************************************************************************)
(* ConfigVersion                                                           *)
(***************************************************************************)
\* The fields that CanonicalJSON keeps: who asked, who approved and when it ends
\* are not among them.
CanonicalJSON(ov) == [id |-> ov.id, class |-> ov.class, body |-> ov.body]

\* HashConfigVersion, without collisions.
HashConfigVersion(eff, ov) ==
  [monitor |-> eff.globalMonitor, kill |-> eff.kill, routes |-> eff.routes,
   rate |-> <<eff.window, eff.soft, eff.hard>>, overlay |-> CanonicalJSON(ov)]
==============================================================================
