------------------------------- MODULE Scoring -------------------------------
(***************************************************************************)
(* The scoring engine (internal/scoring): the signals derived from a       *)
(* client report, the consistency checks between layers, the noisy-OR      *)
(* combination with its caps and damping, the ordered hard rules and the   *)
(* verdict.  The engine is a pure function of the session report and of    *)
(* its configuration; one behaviour scores one report, first the plain way *)
(* and then with the trace the observatory shows.                          *)
(*                                                                         *)
(* A user agent is the set of tokens it contains; a probe result is the    *)
(* set of facts it reports (a threshold crossed, a flag set), and counts   *)
(* that are compared with each other stay numbers.  Products of            *)
(* probabilities are rounded down to 1/40000.  The code folds them in      *)
(* floating point, Score in the order a Go map iterates and the trace in   *)
(* the order of the contributions; here a product has one order, so the    *)
(* two are compared up to the rounding of the last bits.                   *)
(***************************************************************************)
EXTENDS Signals, Sequences, FiniteSetsExt, TLC

CONSTANTS ScoringInputs,  \* the session reports of the instance
          ScoringConfigs  \* the engine configurations of the instance

\* The modes the engine knows; validateHRMode keeps every other out of an overlay.
ASSUME ModesAssumption ==
  \A cfg \in ScoringConfigs : \A id \in DOMAIN cfg.modes : cfg.modes[id] \in {"enforce", "monitor", "off"}

VARIABLES scReport,  \* the session report being scored
          scConfig,  \* Engine: policy, rule modes, multipliers, net policy
          scResult,  \* {} or {the ScoreResult of Score}
          scTrace    \* {} or {what ScoreWithTrace returned}

scVars == <<scReport, scConfig, scResult, scTrace>>

(***************************************************************************)
(* ua.go                                                                   *)
(***************************************************************************)
claimedEngine(ua) ==
  CASE "firefox" \in ua -> "firefox"
    [] "firefox" \notin ua /\ ua \cap {"chrome", "chromium", "edg/"} # {} -> "chrome"
    [] OTHER -> IF "safari" \in ua THEN "safari" ELSE "other"

isBrowserUA(ua) == "mozilla" \in ua /\ "library" \notin ua

engineConsistent(claimed, observed) == observed \in {"", "unknown", claimed}

(***************************************************************************)
(* behavior.go, environment.go, guard.go, advanced.go: what the server     *)
(* derives from the client's probes.                                       *)
(***************************************************************************)
\* sampleConfidence, in percent: from 50 at the minimum to 100 at five times it.
sampleConfidence(n, min) == IF n <= min THEN 50 ELSE Min({100, 50 + (50 * (n - min)) \div (4 * min)})

EventSignals(b) ==
  {NewSignal("l4.event.untrusted", IF "untrusted" \in b.facts THEN "BOT" ELSE "OK", 100) : x \in {1} \cap (1..b.events)}
  \cup {NewSignal("l4.event.no_move_click", "SUSPICIOUS", 70) : x \in {"noMoveClicks"} \cap b.facts}
  \cup {NewSignal("l4.event.perfect_timing", "SUSPICIOUS", 60) : x \in {"synthetic"} \cap b.facts}

AgentSignals(b) ==
  LET burst == b.events >= 8 /\ {"longGaps", "instantResume", "lowBurstVar"} \subseteq b.facts
      teleport == b.clicks >= 2 /\ b.samples < 3 * b.clicks
      typing == b.keys >= 4 /\ "fastFlight" \in b.facts
  IN  {s \in {NewSignal("l4.agent.burst_silence", "BOT", 60)} : burst}
      \cup {s \in {NewSignal("l4.mouse.click_no_trajectory", "BOT", 60)} : teleport}
      \cup {s \in {NewSignal("l4.key.machine_speed", "BOT", 70)} : typing}

MouseSignals(b) ==
  LET conf == sampleConfidence(b.samples, 12)
  IN  IF b.samples >= 12
      THEN {NewSignal(<<"l4.mouse.straightness", "l4.mouse.velocity_std", "l4.mouse.max_teleport">>[i], "SUSPICIOUS", conf) :
              i \in {i \in 1..3 : <<"straight", "flatVelocity", "teleports">>[i] \in b.facts}}
           \cup {NewSignal("l4.mouse.coalesced_synthetic", "SUSPICIOUS", 50) : x \in {"uncoalesced"} \cap b.facts}
      ELSE {s \in {NewSignal("l4.mouse.samples", "SUSPICIOUS", 60)} : b.samples = 0 /\ "noMoveClicks" \in b.facts}

KeySignals(b) ==
  LET conf == sampleConfidence(b.keys, 6)
  IN  {s \in {NewSignal("l4.key.dwell_std", "SUSPICIOUS", conf)} : b.keys >= 6 /\ "flatDwell" \in b.facts}
      \cup {s \in {NewSignal("l4.key.flight_std", "SUSPICIOUS", conf)} : b.keys >= 6 /\ "flatFlight" \in b.facts}
      \cup {s \in {NewSignal("l4.key.zero_dwell_frac", "BOT", conf)} : b.keys >= 6 /\ "zeroDwell" \in b.facts}
      \cup {s \in {NewSignal("l4.key.paste", "SUSPICIOUS", 60)} : b.keys = 0 /\ "pastes" \in b.facts}

\* The optional behavioural model: abstains (b.ml = {}) unless a bundle is loaded.
ModelSignals(b) == {NewSignal("l4.ml.behavioral", v, 100) : v \in b.ml}

BehaviorSignals(b) ==
  {s \in {NewSignal("l4.event.no_interaction", "SUSPICIOUS", 60)} : b.samples < 4 /\ b.keys = 0 /\ "long" \in b.facts}
    \cup (IF b.events > 0 THEN EventSignals(b) ELSE {})
    \cup AgentSignals(b) \cup MouseSignals(b) \cup KeySignals(b) \cup ModelSignals(b)

PrivacyClaims == {"gpc", "dnt", "brave"}

\* Faulty: a blocked tracker counts against the visitor.
EnvironmentAccusing(e, hasClient) ==
  [sigs |-> {NewSignal("l2.env.privacy_inconsistent", "SUSPICIOUS", 60) :
               x \in {1 : y \in e \cap {"adblock", "trackingProtection"}}},
   privacy |-> FALSE]

EnvironmentSignals(e, hasClient) ==
  IF "probed" \notin e
  THEN [sigs |-> {s \in {NewSignal("l2.env.probe_dead", "SUSPICIOUS", 50)} : hasClient}, privacy |-> FALSE]
  ELSE [sigs |-> {NewSignal("l2.env.adblock", "OK", 100) : x \in {"adblock"} \cap e}
                   \cup {NewSignal("l2.env.tracking_protection", "OK", 100) :
                           x \in {1 : y \in e \cap (PrivacyClaims \cup {"trackingProtection"})}}
                   \cup {s \in {NewSignal("l2.env.privacy_inconsistent", "SUSPICIOUS", 60)} :
                           e \cap PrivacyClaims # {} /\ e \cap {"adblock", "trackingProtection"} = {}},
        privacy |-> e \cap (PrivacyClaims \cup {"adblock", "trackingProtection"}) # {}]

GuardSignals(g) ==
  LET bot == [nativeHooked |-> <<"l3.guard.native_hooked", 100>>, consoleDisabled |-> <<"l3.guard.console_disabled", 90>>,
              protoPolluted |-> <<"l3.guard.proto_polluted", 100>>]
      sus == [scriptInjected |-> <<"l3.guard.script_injected", 60>>, evalUsed |-> <<"l3.guard.eval_used", 40>>,
              funcCtor |-> <<"l3.guard.func_ctor", 40>>]
  IN  IF "reported" \notin g THEN {}
      ELSE {NewSignal(bot[f][1], "BOT", bot[f][2]) : f \in g \cap DOMAIN bot}
           \cup {NewSignal(sus[f][1], "SUSPICIOUS", sus[f][2]) : f \in g \cap DOMAIN sus}

AdvancedSignals(a, ua) ==
  LET desktop == "mobileUA" \notin a
      Tell(id, v, conf, holds) == {s \in {NewSignal(id, v, conf)} : holds}
  IN  IF "probed" \notin a THEN {}
      ELSE Tell("l2.adv.audio_24k", "BOT", 80, "audio24k" \in a)
           \cup Tell("l2.adv.no_voices", "SUSPICIOUS", 50, "noVoices" \in a)
           \cup Tell("l2.adv.no_media_devices", "SUSPICIOUS", 35, desktop /\ "noMedia" \in a)
           \cup Tell("l2.adv.no_widevine", "SUSPICIOUS", 60, "chrome" \in ua /\ "noWidevine" \in a)
           \cup Tell("l2.adv.rtt_zero", "SUSPICIOUS", 40, desktop /\ "rttZero" \in a)
           \cup Tell("l2.adv.measure_mem_throws", "SUSPICIOUS", 50, "memThrows" \in a)
           \cup Tell("l2.adv.webgpu_mismatch", "BOT", 90, "gpuVendorsDisagree" \in a)
           \cup Tell("l2.adv.mobile_inconsistent", "BOT", 80, ~desktop /\ {"touch", "coarse"} \cap a = {})

(***************************************************************************)
(* crosscheck.go: the ids of the checks that came back inconsistent.       *)
(***************************************************************************)
crossWeights == [x \in {"x.ua_vs_ja4", "x.ua_vs_h2", "x.uach_present", "x.uach_vs_js", "x.ua_vs_header",
                        "x.non_browser_ua", "x.browser_no_js"} |->
                   CASE x = "x.ua_vs_ja4" -> 50 [] x = "x.uach_present" -> 40
                     [] x \in {"x.uach_vs_js", "x.ua_vs_header"} -> 35 [] OTHER -> 45]

\* uachMatchesJS: the platform hint ("" when empty) against the first system
\* family the user agent names.
UAFamilies == << <<"android", {"android"}>>, <<"iphone", {"ios", "macos"}>>, <<"windows", {"windows"}>>,
                 <<"macintosh", {"macos", "mac os"}>>, <<"cros", {"chrome os", "chromium os"}>>,
                 <<"linux", {"linux", "chrome os", "chromium os"}>> >>

uachMatchesJS(ua, platform) ==
  LET named == {i \in DOMAIN UAFamilies : UAFamilies[i][1] \in ua}
  IN  platform # "" /\ (named # {} => platform \in UAFamilies[Min(named)][2])

CrossChecks(r) ==
  LET ua == r.ua
      claimed == claimedEngine(ua)
      claims == claimed # "other"
      noJS == r.client = {} /\ "probed" \notin r.advanced /\ r.behavior.samples = 0 /\ r.behavior.events = 0
  IN  {x \in {"x.non_browser_ua"} : ua # {} /\ ~isBrowserUA(ua)}
      \cup {x \in {"x.browser_no_js"} : isBrowserUA(ua) /\ noJS}
      \cup {x \in {"x.ua_vs_ja4"} : claims /\ ~engineConsistent(claimed, r.ja4)}
      \cup {x \in {"x.ua_vs_h2"} : claims /\ ~engineConsistent(claimed, r.h2)}
      \cup {x \in {"x.uach_present"} : claimed = "chrome" /\ "secChUa" \notin r.headers}
      \cup {x \in {"x.ua_vs_header"} : claimed = "chrome" /\ "secFetch" \notin r.headers}
      \cup {x \in {"x.uach_vs_js"} : "secChUa" \in r.headers /\ \E p \in r.platform : ~uachMatchesJS(ua, p)}

(***************************************************************************)
(* combine.go and the score adjustments of hardrules.go and engine.go.     *)
(***************************************************************************)
hasClientReport(r) == r.ua # {} \/ r.client # {} \/ "probed" \in r.environment

Contribution(s) == [id |-> s.id, layer |-> s.layer, group |-> GroupOf(s.id), score |-> s.score]

\* gather: every signal, and every failed cross-check as a layer-L6 contribution.
gather(r, derived, cross) ==
  {Contribution(s) : s \in r.client \cup r.net \cup derived}
    \cup {[id |-> x, layer |-> "L6", group |-> "", score |-> crossWeights[x] * Point] : x \in cross}

\* Multipliers are in percent, clamped to [0, 200].
applyWeightMultipliers(in, mult) ==
  {[c EXCEPT !.score = IF c.id \in DOMAIN mult THEN (@ * Max({0, Min({200, mult[c.id]})})) \div 100 ELSE @] : c \in in}

Halve(in, groups) == {[c EXCEPT !.score = IF c.group \in groups THEN @ \div 2 ELSE @] : c \in in}

applyFPMitigation(in) ==
  IF \E c \in in : c.id \in {"l2.canvas.tampered", "l2.webgl.param_consistency"}
  THEN Halve(in, {"canvas", "webgl"}) ELSE in

dampPrivacyNoise(in, privacy) == IF privacy THEN Halve(in, {"canvas", "webgl", "audio", "font"}) ELSE in

\* dedupGroups: the highest-scoring contribution of each correlation group.
dedupGroups(in) ==
  LET grouped == {c \in in : c.group # ""}
      keys == {<<c.layer, c.group>> : c \in grouped}
  IN  (in \ grouped)
      \cup {CHOOSE c \in grouped : /\ <<c.layer, c.group>> = k
                                   /\ \A d \in grouped : <<d.layer, d.group>> = k => d.score <= c.score : k \in keys}

\* noisyOR of the probabilities p, a function of the items: 1 - Prod (1 - p[x]).
noisyOR(p) ==
  Full - FoldSet(LAMBDA x, rest : (rest * (Full - Min({Full, p[x]}))) \div Full, Full, DOMAIN p)

layerRisk(kept, layer) == noisyOR([c \in {c \in kept : c.layer = layer} |-> c.score])

\* capByLayer
cappedRisk(kept, layer, layerCap) ==
  IF layerRisk(kept, layer) > layerCap THEN layerCap ELSE layerRisk(kept, layer)

combineKept(kept, layerCap) == noisyOR([l \in {c.layer : c \in kept} |-> cappedRisk(kept, l, layerCap)])
Combine(in, policy) == combineKept(dedupGroups(in), policy.layerCap)

verdictFor(policy, risk) ==
  CASE risk >= policy.denyAt -> "DENY"
    [] risk < policy.denyAt /\ risk >= policy.challengeAt -> "CHALLENGE"
    [] OTHER -> "ALLOW"

(***************************************************************************)
(* hardrules.go: the ordered table.  A rule context c holds the ids that   *)
(* fired (BOT or SUSPICIOUS), those that fired as BOT, the failed checks   *)
(* and the configured modes.                                               *)
(***************************************************************************)
Automation(c) == c.fired \cap {"l1.navigator.webdriver", "l1.cdp.runtime_enable"} # {}
BotAny(c, ids) == c.bot \cap ids # {}
AnyFired(c, ids) == c.fired \cap ids # {}
Headless(c) == "l1.ua.headless_token" \in c.bot

\* HR-1 to HR-9 and HR-13.
ClientDenials(c) ==
  ("HR-1" :> BotAny(c, {"l1.artifact.selenium", "l1.artifact.playwright", "l1.artifact.phantom"}))
  @@ ("HR-2" :> ({"x.ua_vs_ja4", "x.ua_vs_h2"} \subseteq c.cross))
  @@ ("HR-3" :> ("l4.event.untrusted" \in c.bot /\ Automation(c)))
  @@ ("HR-4" :> ({"l1.navigator.webdriver", "l3.integrity.native_tostring"} \subseteq c.fired))
  @@ ("HR-5" :> (BotAny(c, {"l5.rit.header_tampered", "l5.rit.invalid_hmac"}) /\ "x.ua_vs_ja4" \in c.cross))
  @@ ("HR-6" :> (BotAny(c, {"l3.guard.native_hooked", "l3.guard.proto_polluted"}) /\ Automation(c)))
  @@ ("HR-7" :> (Headless(c) /\ AnyFired(c, {"l1.navigator.webdriver", "l1.window.outer_eq_inner",
                                           "l3.integrity.native_tostring"})))
  @@ ("HR-8" :> ("l3.integrity.native_tostring" \in c.fired
                  /\ (Headless(c) \/ AnyFired(c, {"l1.window.outer_eq_inner", "l3.integrity.iframe_recheck"}))))
  @@ ("HR-9" :> (BotAny(c, {"l1.cdp.runtime_enable", "l1.cdp.proxy_leak"})
                  /\ (Headless(c) \/ AnyFired(c, {"l1.navigator.webdriver", "l1.window.outer_eq_inner",
                                                 "l3.integrity.native_tostring", "l4.event.no_interaction"}))))
  @@ ("HR-13" :> ("l3.guard.console_disabled" \in c.bot
                  /\ (Headless(c) \/ AnyFired(c, {"l1.window.outer_eq_inner", "l4.event.no_interaction",
                                                 "l3.integrity.native_tostring"}))))

\* netClassMode: a nil map enforces every class; a given map leaves a class
\* it does not list in monitor, net.correlation excepted.
netClassMode(net, class) ==
  CASE net = {} -> "enforce"
    [] \E m \in net : class \in DOMAIN m -> (CHOOSE m \in net : TRUE)[class]
    [] OTHER -> IF class = "net.correlation" THEN "enforce" ELSE "monitor"

\* HR-16, HR-14, HR-18, HR-20, HR-19, HR-21 and HR-15.
ServerDenials(c) ==
  ("HR-16" :> BotAny(c, {"l5.rit.header_tampered", "l5.rit.invalid_hmac", "l5.rit.body_mismatch"}))
  @@ ("HR-14" :> BotAny(c, {"l5.traffic.engine_rotation", "l5.traffic.ja4_rotation"}))
  @@ ("HR-18" :> ("x.browser_no_js" \in c.cross))
  @@ ("HR-20" :> ("l4.mouse.click_no_trajectory" \in c.bot
                  /\ (BotAny(c, {"l4.agent.burst_silence", "l4.key.machine_speed", "l1.cdp.proxy_leak",
                                 "l1.cdp.runtime_enable"})
                      \/ "l4.mouse.coalesced_synthetic" \in c.fired)))
  @@ ("HR-19" :> ("l7.pow.too_fast" \in c.bot
                  \/ (netClassMode(c.net, "net.correlation") # "monitor"
                      /\ BotAny(c, {"l5.correlation.proxy_rotation", "l5.correlation.fp_churn_proxy"}))))
  @@ ("HR-21" :> BotAny(c, {"l5.h2dos.rapid_reset", "l5.h2dos.continuation_flood"}))
  @@ ("HR-15" :> ("l5.traffic.ua_rotation" \in c.fired
                  /\ ("l5.traffic.ja4_rotation" \in c.bot \/ "l5.traffic.ip_hop" \in c.fired)))

\* HR-10, HR-17, HR-12, HR-11, HR-22 and HR-23.
Challenges(c) ==
  ("HR-10" :> ~c.hasClient)
  @@ ("HR-17" :> ("l5.rit.stale_replay" \in c.fired \/ "l5.rit.absent" \in c.bot))
  @@ ("HR-12" :> ("l4.event.no_interaction" \in c.fired))
  @@ ("HR-11" :> (c.browser /\ "l5.ip.datacenter_asn" \in c.fired /\ c.cross \cap {"x.ua_vs_ja4", "x.ua_vs_h2"} = {}))
  @@ ("HR-22" :> BotAny(c, {"l2.adv.audio_24k", "l2.adv.webgpu_mismatch", "l2.adv.mobile_inconsistent"}))
  @@ ("HR-23" :> (c.browser /\ {"l2.adv.no_widevine", "l2.adv.no_media_devices", "l2.adv.no_voices"} \subseteq c.fired))

\* HR-24: a network residual whose class is enforced.
NetPolicyRule(c) ==
  LET On(class) == netClassMode(c.net, class) = "enforce"
      Spoof(class, ids) == On(class) /\ c.browser /\ AnyFired(c, ids)
  IN  \/ On("net.proxy.hop") /\ ( \/ "l5.header.proxy_hop" \in c.bot
                                 \/ {"l5.header.xff_multi_hop", "l5.traffic.ip_hop"} \subseteq c.fired
                                 \/ (c.browser /\ "l5.ip.proxy_vpn_tor" \in c.fired) )
      \/ On("net.vpn") /\ "l5.proxy.vpn_webrtc_leak" \in c.bot
      \/ On("net.proxy.spoof") /\ BotAny(c, {"l5.header.client_ip_spoof", "l5.header.forwarded_private"})
      \/ On("net.proxy.anon") /\ "l5.proxy.anon_chain" \in c.bot
      \/ On("net.tor") /\ AnyFired(c, {"l5.proxy.tor_circuit", "l5.ip.tor_exit"})
      \/ Spoof("net.h2.spoof", {"l5.http2.unknown_under_browser", "l5.http2.browser_settings_atypical",
                                "l5.http2.flow_control_atypical", "l5.http2.priority_atypical"})
      \/ Spoof("net.header.order", {"l5.header.order"})
      \/ Spoof("net.tls.pq", {"l5.tls.pq_keyshare"})
      \/ Spoof("net.tls.alps", {"l5.tls.alps_absent"})
      \/ Spoof("net.tls.certcomp", {"l5.tls.cert_compression_absent"})
      \/ Spoof("net.http.h1", {"l5.http.browser_tls_over_h1"})
      \/ Spoof("net.tls.ech", {"l5.tls.ech_absent"})

promotionRules == <<"HR-1", "HR-2", "HR-3", "HR-4", "HR-5", "HR-6", "HR-7", "HR-8", "HR-9", "HR-13", "HR-10",
                    "HR-16", "HR-14", "HR-18", "HR-20", "HR-19", "HR-21", "HR-15",
                    "HR-17", "HR-12", "HR-11", "HR-22", "HR-23", "HR-24">>

ChallengeRules == {"HR-10", "HR-17", "HR-12", "HR-11", "HR-22", "HR-23", "HR-24"}
RuleVerdict(id) == IF id \in ChallengeRules THEN "CHALLENGE" ELSE "DENY"

Matches(c) == ClientDenials(c) @@ ServerDenials(c) @@ Challenges(c) @@ ("HR-24" :> NetPolicyRule(c))

ruleModeOf(modes, id) == IF id \in DOMAIN modes THEN modes[id] ELSE "enforce"

Eligible(modes, matched) ==
  {i \in DOMAIN promotionRules : /\ ruleModeOf(modes, promotionRules[i]) \notin {"monitor", "off"}
                                /\ matched[promotionRules[i]]}

\* applyPromotionRules: the first matching rule that is not in monitor, as {} or {id}.
FirstRule(eligible) == {promotionRules[i] : i \in {i \in eligible : \A j \in eligible : i <= j}}
applyPromotionRules(c) == FirstRule(Eligible(c.modes, Matches(c)))

(***************************************************************************)
(* engine.go                                                               *)
(***************************************************************************)
\* assemble: the derived signals, the contributions and the rule context.
Derived(r) ==
  BehaviorSignals(r.behavior) \cup EnvironmentSignals(r.environment, hasClientReport(r)).sigs
    \cup GuardSignals(r.guard) \cup AdvancedSignals(r.advanced, r.ua)

Contributions(r, cfg) ==
  dampPrivacyNoise(applyFPMitigation(applyWeightMultipliers(gather(r, Derived(r), CrossChecks(r)), cfg.weights)),
                   EnvironmentSignals(r.environment, hasClientReport(r)).privacy)

FiredAs(sigs, verdicts) == {s.id : s \in {s \in sigs : s.v \in verdicts}}

ContextOf(r, cfg, sigs) ==
  [fired |-> FiredAs(sigs, {"BOT", "SUSPICIOUS"}), bot |-> FiredAs(sigs, {"BOT"}),
   cross |-> CrossChecks(r), hasClient |-> hasClientReport(r), browser |-> isBrowserUA(r.ua),
   modes |-> cfg.modes, net |-> cfg.net]
RuleContext(r, cfg) == ContextOf(r, cfg, r.client \cup r.net \cup Derived(r))

\* Only the server's own OK signals grant an upgrade.
hasServerSignal(r, id) == \E s \in r.net : s.id = id /\ s.v = "OK"

Upgrades == <<"l7.pow.solved", "l7.pass.solved">>
UpgradeName(i) == <<"PoW-upgrade", "Pass-upgrade">>[i]

decide(r, cfg, risk, hard) ==
  LET verdict == IF hard = {} THEN verdictFor(cfg.policy, risk) ELSE RuleVerdict(CHOOSE h \in hard : TRUE)
      solved == {i \in DOMAIN Upgrades : hasServerSignal(r, Upgrades[i])}
      lifted == verdict = "CHALLENGE" /\ hard = {} /\ solved # {}
  IN  [risk |-> risk, verdict |-> IF lifted THEN "ALLOW" ELSE verdict,
       rule |-> IF lifted THEN {UpgradeName(Min(solved))} ELSE hard]

ScoreReport(r, cfg) ==
  decide(r, cfg, Combine(Contributions(r, cfg), cfg.policy), applyPromotionRules(RuleContext(r, cfg)))

(***************************************************************************)
(* scoretrace.go: the decomposition the observatory shows.                 *)
(***************************************************************************)
\* dedupTraced: what is kept, and each dropped contribution with its winner.
dedupTraced(in) ==
  LET kept == dedupGroups(in)
  IN  [kept |-> kept,
       drops |-> {<<p[1].id, p[2].id>> : p \in {q \in (in \ kept) \X kept : /\ q[1].group = q[2].group /\ q[1].group # ""
                                                                          /\ q[1].layer = q[2].layer /\ q[1].id # q[2].id}}]

\* layerTrace: each layer's raw and capped risk.
layerTrace(kept, layerCap) ==
  [l \in {c.layer : c \in kept} |->
     LET raw == layerRisk(kept, l)
     IN  IF raw > layerCap THEN [raw |-> raw, capped |-> layerCap, hit |-> TRUE]
                           ELSE [raw |-> raw, capped |-> raw, hit |-> FALSE]]

\* tracePromotionRules as it would be without the rule modes.
traceIgnoringModes(c) ==
  LET matched == [i \in DOMAIN promotionRules |-> Matches(c)[promotionRules[i]]]
  IN  [i \in DOMAIN promotionRules |->
         [rule |-> promotionRules[i], matched |-> matched[i], won |-> matched[i] /\ \A j \in 1..(i - 1) : ~matched[j]]]

tracePromotionRules(c) ==
  LET m == Matches(c)
      matched == [i \in DOMAIN promotionRules |-> m[promotionRules[i]]]
      enforced == [i \in DOMAIN promotionRules |-> matched[i] /\ ruleModeOf(c.modes, promotionRules[i]) = "enforce"]
  IN  [i \in DOMAIN promotionRules |->
         [rule |-> promotionRules[i], matched |-> matched[i], won |-> enforced[i] /\ \A j \in 1..(i - 1) : ~enforced[j]]]

\* combineTrace, and the trace put together from what it kept and capped.
ScoreTrace(r, cfg, c, drops, layers) ==
  [result |-> decide(r, cfg, noisyOR([l \in DOMAIN layers |-> layers[l].capped]), applyPromotionRules(c)),
   layers |-> layers, drops |-> drops, rules |-> tracePromotionRules(c)]

combineTrace(r, cfg, dedup) ==
  ScoreTrace(r, cfg, RuleContext(r, cfg), dedup.drops, layerTrace(dedup.kept, cfg.policy.layerCap))

TraceReport(r, cfg) == combineTrace(r, cfg, dedupTraced(Contributions(r, cfg)))

(***************************************************************************)
(* The engine scores one report.                                           *)
(***************************************************************************)
ScoringInit ==
  /\ scReport \in ScoringInputs
  /\ scConfig \in ScoringConfigs
  /\ scResult = {}
  /\ scTrace = {}

Score ==
  /\ scResult = {}
  /\ scResult' = {ScoreReport(scReport, scConfig)}
  /\ UNCHANGED <<scReport, scConfig, scTrace>>

ScoreWithTrace ==
  /\ scResult # {} /\ scTrace = {}
  /\ scTrace' = {TraceReport(scReport, scConfig)}
  /\ UNCHANGED <<scReport, scConfig, scResult>>

ScoringNext == Score \/ ScoreWithTrace

ScoringSpec == ScoringInit /\ [][ScoringNext]_scVars

(***************************************************************************)
(* Properties                                                              *)
(***************************************************************************)
Severe(v) == CASE v = "ALLOW" -> 0 [] v = "CHALLENGE" -> 1 [] OTHER -> 2

\* The observatory's trace never disagrees with production: the same risk,
\* verdict and rule, although the trace caps and combines the layers itself, and
\* the rule it marks as the winner, walking the rules with their modes on its
\* own, is the rule that set the verdict (scoretrace.go: "it can never diverge
\* from the production verdict").
TraceAgrees ==
  \A t \in scTrace, res \in scResult :
    /\ t.result = res
    /\ {e \in {t.rules[i] : i \in DOMAIN t.rules} : e.won} =
         {e \in {t.rules[i] : i \in DOMAIN t.rules} : e.rule \in res.rule}

\* A visitor whose browser blocks ads or trackers is never scored worse than
\* the same visitor without: neither the risk nor the verdict rises
\* (environment.go: "adblock/tracking-protection never raise the bot score on
\* their own").
PrivacyNeverAccuses ==
  \A res \in {x \in scResult : scTrace = {}}, blocks \in SUBSET {"adblock", "trackingProtection"} :
    "probed" \in scReport.environment =>
      LET with == ScoreReport([scReport EXCEPT !.environment = @ \cup blocks], scConfig)
      IN  with.risk <= res.risk /\ Severe(with.verdict) <= Severe(res.verdict)

=============================================================================
