---------------------------- MODULE GatePipeline ----------------------------
(* One request on its way through the Gate: ServeHTTP and the gates of         *)
(* internal/gate/gates.go, the policy of its route (config.go, enforce.go) and *)
(* the answer (gate.go). Operators turn the kill switch on and off and change  *)
(* the overlay while the request is under way, and other requests and beacons  *)
(* change bans, verdicts, nonces and epochs: what a gate reads of those is     *)
(* chosen when it reads it, since no gate reads one of them twice; the kill    *)
(* switch, which is read again and again, is a variable.                       *)
(*                                                                             *)
(* gpSeen collects what the gates found out about the request, gpRecords what  *)
(* they sealed into the audit log (module AuditLog) for it.                    *)
EXTENDS SettingsPolicy, Sequences

CONSTANTS
  RawPaths,    \* request paths, as sequences of segments
  RouteTable,  \* records [prefix, slashes, preset] of Config.Routes
  MaxFlips     \* bound: changes of the kill switch during the request

Segments == UNION {{p[i] : i \in DOMAIN p} : p \in RawPaths}

ASSUME PipelineAssumption == MaxFlips \in Nat /\ RawPaths # {} /\ RawPaths \subseteq Seq(Segments)

VARIABLES
  gpPc, gpMonitor, gpKill, gpPath, gpRoute, gpSeen, gpRecords, gpOut,
  gpFlips,
  gpSuppressed \* history: the values of monitorOn since the request arrived

gpVars == <<gpPc, gpMonitor, gpKill, gpPath, gpRoute, gpSeen, gpRecords, gpOut,
            gpFlips, gpSuppressed>>

(***************************************************************************)
(* The policy of a path                                                    *)
(***************************************************************************)
Preset(name) ==
  [name |-> name,
   inject |-> name # "off",
   enforce |-> name \notin {"monitor", "off"},
   failClosed |-> name \in {"strict", "attested"},
   syncScore |-> name \in {"strict", "attested"},
   attestFloor |-> name = "attested"]

PresetNames == {"strict", "attested", "monitor", "off", "balanced"}

PresetByName(n) == Preset(IF n \in PresetNames THEN n ELSE "balanced")

\* Faulty: the path is matched as it was sent.
MatchRawPath(p) == p

\* path.Clean of a rooted path.
NormalizeMatchPath(p) ==
  LET clean[i \in 0..Len(p)] ==
        IF i = 0 THEN <<>>
        ELSE IF p[i] \in {"", "."} THEN clean[i - 1]
        ELSE IF p[i] = ".." THEN SubSeq(clean[i - 1], 1, Len(clean[i - 1]) - 1)
        ELSE Append(clean[i - 1], p[i])
  IN  clean[Len(p)]

\* The prefix of a route without its trailing slashes leads p, segment by segment.
SegmentMatch(p, r) == Len(r.prefix) <= Len(p) /\ SubSeq(p, 1, Len(r.prefix)) = r.prefix

PrefixLen(r) == 2 * Len(r.prefix) + r.slashes

\* Config.resolve: the longest prefix wins; among equally long ones the order of
\* the map decides.
ResolveConfig(p, monitor) ==
  LET matching == {r \in RouteTable : SegmentMatch(NormalizeMatchPath(p), r)}
      longest == {r \in matching : \A q \in matching : PrefixLen(q) <= PrefixLen(r)}
      best == IF matching = {} THEN {PresetByName("balanced")}
              ELSE {PresetByName(r.preset) : r \in longest}
  IN {[b EXCEPT !.enforce = @ /\ ~monitor] : b \in best}

NoRoute == PresetByName("off")

MonitorOn == gpMonitor \/ gpKill

Enforcing == gpRoute.enforce /\ ~MonitorOn

\* resolvePath: an overlay that is in force adds its own monitor flag, and the
\* kill switch of this moment.
ResolvePath(overlaid, overlayMonitors) ==
  ResolveConfig(gpPath, gpMonitor \/ (overlaid /\ (gpKill \/ overlayMonitors)))

\* NewServer refuses the attestation floor on a route that matches everything.
Bootable ==
  \A r \in RouteTable :
    PresetByName(r.preset).attestFloor => NormalizeMatchPath(r.prefix) # <<>>

(***************************************************************************)
(* Steps of a request                                                      *)
(***************************************************************************)
\* The records that matter here: a decision that was carried out (mode enforce,
\* with the action block, challenge_pow or pass), a verdict that was only
\* monitored, and every other finding.
Decisions == {"block", "challenge_pow", "pass"}

\* The gate lets the request through to the next one, having sealed records.
Falls(next, records) ==
  /\ gpPc' = next /\ gpRecords' = gpRecords \cup records
  /\ UNCHANGED gpOut

\* EmitAndAct: the record is sealed, then the request is answered.
Answers(out, records) ==
  /\ gpPc' = IF out = "origin" THEN "upstream" ELSE "done"
  /\ gpOut' = out /\ gpRecords' = gpRecords \cup records

Notes(found) == IF found THEN {"note"} ELSE {}

Learns(facts) == gpSeen' = gpSeen \cup facts

gpRest == <<gpMonitor, gpKill, gpPath, gpRoute, gpFlips, gpSuppressed>>

PipelineInit ==
  /\ gpMonitor \in BOOLEAN /\ gpKill \in BOOLEAN
  /\ Bootable
  /\ gpPath \in RawPaths
  /\ gpPc = "control" /\ gpRoute = NoRoute /\ gpSeen = {} /\ gpRecords = {}
  /\ gpOut = "none" /\ gpFlips = 0
  /\ gpSuppressed = {MonitorOn}

\* SetKillSwitch, while the request is between two reads of it.
SetKillSwitch ==
  /\ gpPc \notin {"control", "upstream", "done"} /\ gpFlips < MaxFlips
  /\ gpKill' = ~gpKill
  /\ gpFlips' = gpFlips + 1
  /\ gpSuppressed' = gpSuppressed \cup {gpMonitor \/ gpKill'}
  /\ UNCHANGED <<gpPc, gpMonitor, gpPath, gpRoute, gpSeen, gpRecords, gpOut>>

\* The control plane and the closed admin path answer themselves.
RouteControlPlane ==
  /\ gpPc = "control"
  /\ \/ gpOut' = "control" /\ gpPc' = "done"
     \/ gpOut' = "not_found" /\ gpPc' = "done"
     \/ gpPc' = "body" /\ UNCHANGED gpOut
  /\ UNCHANGED <<gpRecords, gpSeen, gpRest>>

\* A body that declares more than the cap is refused before any gate.
CapBody ==
  /\ gpPc = "body"
  /\ \/ gpOut' = "too_large" /\ gpPc' = "done"
     \/ gpPc' = "ban" /\ UNCHANGED gpOut
  /\ UNCHANGED <<gpRecords, gpSeen, gpRest>>

\* Both keys are looked up first; only then both are metered, and a hard breach
\* bans on the spot. Outside enforce mode everything is only recorded.
BanGate ==
  /\ gpPc = "ban"
  /\ \E mode \in Modes, keys \in {{"ip"}, {"ip", "fp"}} :
     \E banned \in SUBSET keys, level \in [keys -> 0..2] :
       LET found == banned # {} \/ \E k \in keys : level[k] > 0
           breach == banned # {} \/ \E k \in keys : level[k] = 2
       IN \/ mode = "off" /\ Falls("smuggle", {})
          \/ mode = "enforce" /\ breach /\ Answers("denied_ban", {"block"})
          \/ mode = "enforce" /\ ~breach /\ Falls("smuggle", Notes(found))
          \/ mode \in {"monitor", "shadow"} /\ Falls("smuggle", Notes(found))
  /\ UNCHANGED <<gpSeen, gpRest>>

\* smuggleScan: the framing as the numbers of Transfer-Encoding and Content-Length
\* values, whether the only encoding is "chunked", and folded header values.
SmuggleScan(te, cl, chunked, folded) ==
  IF te > 0 /\ cl > 0 THEN "te_cl_conflict"
  ELSE IF cl > 1 THEN "ambiguous_len"
  ELSE IF te > 1 \/ (te = 1 /\ ~chunked) THEN "te_not_chunked"
  ELSE IF folded THEN "obs_fold" ELSE "none"

\* A gate that denies in enforce mode and otherwise records the same finding.
DeniesIf(found, answer, gate, next) ==
  \/ ~found /\ Falls(next, {})
  \/ /\ found
     /\ \E mode \in {m \in Modes : ValidGateMode(gate, m)} :
          \/ mode = "enforce" /\ Answers(answer, {"block"})
          \/ mode # "enforce" /\ Falls(next, {"note"})

SmuggleGate ==
  /\ gpPc = "smuggle"
  /\ \E te, cl \in 0..2, chunked, folded \in BOOLEAN :
       DeniesIf(SmuggleScan(te, cl, chunked, folded) # "none", "denied_framing",
                "gate.smuggle", "spoof")
  /\ UNCHANGED <<gpSeen, gpRest>>

\* The forged headers are stripped whatever the mode; the proxy's Rewrite strips
\* them again.
SpoofHeaderGate ==
  /\ gpPc = "spoof"
  /\ \E spoofed \in BOOLEAN :
       DeniesIf(spoofed, "denied_header", "gate.spoof_header", "route")
  /\ UNCHANGED <<gpSeen, gpRest>>

Route ==
  /\ gpPc = "route"
  /\ \E overlaid, monitors \in BOOLEAN :
       gpRoute' \in ResolvePath(overlaid, monitors)
  /\ gpPc' = "agent"
  /\ UNCHANGED <<gpMonitor, gpKill, gpPath, gpSeen, gpRecords, gpOut, gpFlips,
                 gpSuppressed>>

\* The caller proved who they are: forward.
TrustUpgrade ==
  Learns({"possession"}) /\ Answers("origin", {"pass"})

AgentAuthGate ==
  /\ gpPc = "agent"
  /\ \E v \in {"none", "forged", "trusted", "unknown"} :
       \/ /\ v = "forged" /\ Enforcing
          /\ UNCHANGED gpSeen
          /\ Answers("denied_agent", {"block"})
       \/ /\ v = "forged" /\ ~Enforcing
          /\ UNCHANGED gpSeen /\ Falls("pat", {"note"})
       \/ /\ v = "trusted" /\ Enforcing /\ TrustUpgrade
       \/ /\ v = "trusted" /\ ~Enforcing
          /\ UNCHANGED gpSeen /\ Falls("pat", {})
       \/ /\ v = "unknown"
          /\ UNCHANGED gpSeen /\ Falls("pat", {"note"})
       \/ /\ v = "none" /\ UNCHANGED gpSeen /\ Falls("pat", {})
  /\ UNCHANGED gpRest

PatGate ==
  /\ gpPc = "pat"
  /\ \E verified \in BOOLEAN :
       \/ Enforcing /\ verified /\ TrustUpgrade
       \/ ~(Enforcing /\ verified) /\ UNCHANGED gpSeen /\ Falls("webauthn", {})
  /\ UNCHANGED gpRest

\* A credential that is seen from too many networks is not honoured on an attested
\* route.
WebauthnGate ==
  /\ gpPc = "webauthn"
  /\ \E verified, fannedOut \in BOOLEAN :
       \/ ~(Enforcing /\ verified) /\ UNCHANGED gpSeen /\ Falls("token", {})
       \/ /\ Enforcing /\ verified
          /\ \/ /\ gpRoute.attestFloor /\ fannedOut
                /\ UNCHANGED gpSeen /\ Falls("token", {"note"})
             \/ /\ ~(gpRoute.attestFloor /\ fannedOut) /\ TrustUpgrade
  /\ UNCHANGED gpRest

\* A token that does not verify is dropped and the request scored afresh; one that
\* does takes the fast path where the route enforces, and on an attested route
\* only with a step-up proof.
VerdictTokenGate ==
  /\ gpPc = "token"
  /\ \E mode, floorMode \in Modes, token \in {"none", "bad", "good"}, stepUp \in BOOLEAN :
       /\ ValidGateMode("gate.verdict_token", mode)
       /\ \/ /\ token = "none" /\ UNCHANGED gpSeen /\ Falls("upgrade", {})
          \/ /\ token = "bad" /\ UNCHANGED gpSeen
             /\ Falls("upgrade", {"note"})
          \/ /\ token = "good" /\ mode # "enforce" /\ UNCHANGED gpSeen
             /\ Falls("upgrade", {"note"})
          \/ /\ token = "good" /\ mode = "enforce" /\ ~Enforcing
             /\ UNCHANGED gpSeen /\ Falls("upgrade", {})
          \/ /\ token = "good" /\ mode = "enforce" /\ Enforcing
             /\ LET floor == gpRoute.attestFloor /\ ~stepUp
                    facts == {"fast_path"} \cup (IF stepUp THEN {"step_up"} ELSE {})
                IN \/ /\ floor /\ floorMode = "enforce"
                      /\ UNCHANGED gpSeen /\ Falls("upgrade", {})
                   \/ /\ ~(floor /\ floorMode = "enforce")
                      /\ Learns(facts \cup IF floor THEN {"floor_lowered"} ELSE {})
                      /\ Answers("origin",
                                 {"pass"} \cup Notes(floor /\ floorMode # "off"))
  /\ UNCHANGED gpRest

\* Faulty: an upgrade is tunnelled whatever it carries.
UpgradeGateOpen ==
  /\ gpPc = "upgrade"
  /\ \E class \in {"upgrade", "other"} :
       Learns(IF class = "upgrade" THEN {"upgrade"} ELSE {}) /\ Falls("sweep", {})
  /\ UNCHANGED gpRest

\* A WebSocket upgrade needs a token, whatever the mode of the token gate.
UpgradeGate ==
  /\ gpPc = "upgrade"
  /\ \E class \in {"upgrade", "other"}, token \in BOOLEAN :
       \/ /\ class = "upgrade" /\ Enforcing /\ ~token
          /\ Learns({"upgrade"})
          /\ Answers("denied_upgrade", {"block"})
       \/ /\ ~(class = "upgrade" /\ Enforcing /\ ~token)
          /\ Learns(IF class # "upgrade" THEN {}
                    ELSE {"upgrade"} \cup (IF token THEN {"token"} ELSE {}))
          /\ Falls("sweep", {})
  /\ UNCHANGED gpRest

SweepGate ==
  /\ gpPc = "sweep"
  /\ \E mode \in Modes, sweeping \in BOOLEAN :
       LET looks == mode # "off" /\ (mode = "enforce" => Enforcing) IN
       \/ ~(looks /\ sweeping) /\ Falls("verdict", {})
       \/ /\ looks /\ sweeping /\ mode = "enforce"
          /\ Answers("denied_sweep", {"block"})
       \/ /\ looks /\ sweeping /\ mode # "enforce"
          /\ Falls("verdict", {"note"})
  /\ UNCHANGED <<gpSeen, gpRest>>

(***************************************************************************)
(* The verdict                                                             *)
(***************************************************************************)
StickyVerdicts == {"ALLOW", "CHALLENGE", "DENY", "UNKNOWN"}

\* Without a verdict, sensitive routes and changes are held.
Action(v, unsafe) ==
  CASE v = "DENY" -> "block"
    [] v = "CHALLENGE" -> "challenge_pow"
    [] v = "ALLOW" -> "pass"
    [] OTHER -> IF gpRoute.failClosed \/ gpRoute.syncScore \/ unsafe
                THEN "challenge_pow" ELSE "pass"

\* applyVerdict up to its second look at the kill switch: the sticky verdict, the
\* action it asks for, and the attestation floor.
Decide ==
  /\ gpPc = "verdict"
  /\ \E v \in StickyVerdicts, unsafe, stepUp \in BOOLEAN, floorMode \in Modes :
       LET asked == Action(v, unsafe)
           floor == Enforcing /\ gpRoute.attestFloor /\ asked = "pass" /\ ~stepUp
           held == floor /\ floorMode = "enforce"
       IN /\ gpPc' = IF held THEN "challenge_pow" ELSE asked
          /\ Learns({v} \cup (IF unsafe THEN {"unsafe"} ELSE {})
                        \cup (IF stepUp THEN {"step_up"} ELSE {})
                        \cup (IF floor /\ ~held THEN {"floor_lowered"} ELSE {}))
          /\ gpRecords' = gpRecords \cup
               Notes(floor /\ floorMode \in {"monitor", "shadow"})
  /\ UNCHANGED <<gpOut, gpRest>>

\* The rest of applyVerdict: a monitored request is recorded and forwarded.
Act ==
  /\ gpPc \in Decisions
  /\ \/ ~Enforcing /\ Answers("origin", {"monitored"})
     \/ /\ Enforcing
        /\ Answers(CASE gpPc = "block" -> "denied_verdict"
                     [] gpPc = "challenge_pow" -> "challenged"
                     [] OTHER -> "origin", {gpPc})
  /\ UNCHANGED <<gpSeen, gpRest>>

(***************************************************************************)
(* The origin's answer                                                     *)
(***************************************************************************)
\* handleUpstreamError
HandleUpstreamError ==
  /\ gpPc = "upstream"
  /\ gpPc' = "done"
  /\ gpRecords' = gpRecords \cup {"note"}
  /\ UNCHANGED <<gpOut, gpSeen, gpRest>>

\* modifyResponse: the bundle goes into a successful page of bounded, uncompressed
\* HTML; a page it is kept out of is recorded.
ModifyResponse ==
  /\ gpPc = "upstream"
  /\ \E page, encoded, large \in BOOLEAN, mode \in Modes :
       LET skips == mode # "enforce" \/ encoded \/ large
           silent == ~gpRoute.inject \/ ~page \/ mode = "off"
       IN /\ gpRecords' = gpRecords \cup
               Notes(~silent /\ skips)
          /\ Learns(IF silent \/ skips THEN {} ELSE {"injected"})
  /\ gpPc' = "done"
  /\ UNCHANGED <<gpOut, gpRest>>

PipelineNext ==
  \/ SetKillSwitch \/ RouteControlPlane \/ CapBody \/ BanGate \/ SmuggleGate
  \/ SpoofHeaderGate \/ Route \/ AgentAuthGate \/ PatGate \/ WebauthnGate
  \/ VerdictTokenGate \/ UpgradeGate \/ SweepGate \/ Decide \/ Act
  \/ HandleUpstreamError \/ ModifyResponse

PipelineSpec == PipelineInit /\ [][PipelineNext]_gpVars

(***************************************************************************)
(* Properties                                                              *)
(***************************************************************************)
\* What a request must have shown to reach the origin under enforcement: a
\* credential, a token, or a verdict that lets it pass.
Earned ==
  \/ "possession" \in gpSeen
  \/ /\ \/ "fast_path" \in gpSeen
        \/ /\ "upgrade" \in gpSeen => "token" \in gpSeen
           /\ \/ "ALLOW" \in gpSeen
              \/ /\ "UNKNOWN" \in gpSeen /\ "unsafe" \notin gpSeen
                 /\ ~gpRoute.failClosed
     /\ gpRoute.attestFloor => gpSeen \cap {"step_up", "floor_lowered"} # {}

\* A request that reaches the origin of an enforcing route, with enforcement never
\* suppressed on its way, earned it: a mutation without a verdict, an upgrade
\* without a token and a free ALLOW on an attested route are held by one gate or
\* the other, in whatever order modes, bans and verdicts change underneath
\* (gates.go: "so a coherent spoof cannot launder its free ALLOW past the floor
\* by any route").
OriginEarned ==
  gpOut = "origin" /\ gpRoute.enforce /\ gpSuppressed = {FALSE} => Earned

\* Spelling does not choose the policy: a path with ".", an empty segment or a
\* detour over ".." put in anywhere resolves to the policy of the plain path.
SpellingIrrelevant ==
  gpPc = "route" =>
  \A i \in 0..Len(gpPath), detour \in {<<".">>, <<"">>, <<"x", "..">>} :
    ResolveConfig(SubSeq(gpPath, 1, i) \o detour \o SubSeq(gpPath, i + 1, Len(gpPath)),
                  gpMonitor)
      = ResolveConfig(gpPath, gpMonitor)
==============================================================================
