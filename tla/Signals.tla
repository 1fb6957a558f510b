------------------------------- MODULE Signals -------------------------------
(***************************************************************************)
(* The signal registry (internal/signals): the static table of every       *)
(* signal id with its layer, weight and correlation group, and the score   *)
(* of one observation.  Scores are exact integers: Point units are one     *)
(* point of risk, so that a weight times a confidence in percent times a   *)
(* severity in halves, and a score halved twice by the privacy damping,    *)
(* are all whole numbers.                                                  *)
(***************************************************************************)
EXTENDS Integers, FiniteSets

Point == 400                      \* units per point of risk
Full == 100 * Point               \* a risk of 100, a probability of 1

(***************************************************************************)
(* The registry, one set of <<id, weight, group>> per section of           *)
(* registry.go.                                                            *)
(***************************************************************************)
L1Static ==
  {<<"l1.navigator.webdriver", 15, "webdriver">>, <<"l1.ua.headless_token", 25, "headless">>,
   <<"l1.navigator.plugins_empty", 8, "plugins">>, <<"l1.navigator.pdfviewer", 6, "plugins">>,
   <<"l1.navigator.languages_empty", 8, "languages">>, <<"l1.window.chrome_missing", 8, "chrome">>,
   <<"l1.permissions.mismatch", 18, "permissions">>, <<"l1.window.outer_eq_inner", 10, "windowsize">>,
   <<"l1.artifact.selenium", 40, "artifact">>, <<"l1.artifact.playwright", 40, "artifact">>,
   <<"l1.artifact.phantom", 30, "artifact">>, <<"l1.cdp.runtime_enable", 12, "cdp">>,
   <<"l1.cdp.proxy_leak", 8, "cdp">>}

L2Fingerprint ==
  {<<"l2.webgl.swiftshader", 30, "webgl">>, <<"l2.webgl.param_consistency", 25, "webgl">>,
   <<"l2.canvas.hash", 10, "canvas">>, <<"l2.canvas.tampered", 15, "canvas">>,
   <<"l2.audio.hash", 8, "audio">>, <<"l2.audio.samplerate", 6, "audio">>,
   <<"l2.screen.metrics", 12, "screen">>, <<"l2.screen.dpr", 10, "screen">>,
   <<"l2.font.count", 12, "font">>, <<"l2.hardware.concurrency", 8, "hardware">>,
   <<"l2.hardware.devicememory", 15, "hardware">>}

L2Environment ==
  {<<"l2.env.adblock", 0, "env">>, <<"l2.env.tracking_protection", 0, "env">>,
   <<"l2.env.privacy_inconsistent", 12, "env">>, <<"l2.env.probe_dead", 10, "env">>}

L2Advanced ==
  {<<"l2.adv.audio_24k", 20, "adv-audio">>, <<"l2.adv.no_voices", 12, "adv-voice">>,
   <<"l2.adv.no_media_devices", 12, "adv-media">>, <<"l2.adv.no_widevine", 12, "adv-drm">>,
   <<"l2.adv.rtt_zero", 12, "adv-net">>, <<"l2.adv.webgpu_mismatch", 25, "adv-gpu">>,
   <<"l2.adv.measure_mem_throws", 10, "adv-mem">>, <<"l2.adv.mobile_inconsistent", 20, "adv-mobile">>}

L3Integrity ==
  {<<"l3.integrity.native_tostring", 30, "integrity">>, <<"l3.integrity.proxy", 25, "integrity">>,
   <<"l3.integrity.illegal_invocation", 20, "integrity">>, <<"l3.integrity.iframe_recheck", 30, "integrity">>,
   <<"l3.integrity.worker_recheck", 25, "integrity">>, <<"l3.integrity.error_stack", 15, "integrity">>}

L3Guard ==
  {<<"l3.guard.script_injected", 20, "guard">>, <<"l3.guard.eval_used", 15, "guard">>,
   <<"l3.guard.func_ctor", 15, "guard">>, <<"l3.guard.proto_polluted", 25, "guard">>,
   <<"l3.guard.native_hooked", 25, "guard">>, <<"l3.guard.csp_violation", 18, "guard">>,
   <<"l3.guard.trusted_types_off", 8, "guard">>, <<"l3.guard.console_disabled", 22, "guard">>}

L4Behavioral ==
  {<<"l4.mouse.straightness", 12, "mouse">>, <<"l4.mouse.velocity_std", 10, "mouse">>,
   <<"l4.mouse.accel_entropy", 8, "mouse">>, <<"l4.mouse.max_teleport", 10, "mouse">>,
   <<"l4.mouse.samples", 8, "mouse">>, <<"l4.key.dwell_std", 10, "key">>,
   <<"l4.key.flight_std", 8, "key">>, <<"l4.key.zero_dwell_frac", 8, "key">>,
   <<"l4.key.paste", 8, "key">>, <<"l4.event.untrusted", 40, "event">>,
   <<"l4.event.no_move_click", 20, "event">>, <<"l4.event.perfect_timing", 18, "event">>,
   <<"l4.pointer.scroll_no_wheel", 12, "pointer">>, <<"l4.pointer.touch_mismatch", 12, "pointer">>,
   <<"l4.event.no_interaction", 15, "event">>, <<"l4.mouse.coalesced_synthetic", 15, "mouse">>,
   <<"l4.mouse.jerk_anomaly", 8, "mouse">>, <<"l4.ml.behavioral", 0, "ml">>,
   <<"l4.agent.burst_silence", 25, "agent">>, <<"l4.mouse.click_no_trajectory", 20, "agent">>,
   <<"l4.key.machine_speed", 18, "agent">>}

\* Network observations that count towards the score.
L5Scored ==
  {<<"l5.tls.ja3", 2, "tls">>, <<"l5.tls.ja4_engine", 30, "tls">>, <<"l5.tls.grease_absent", 15, "tls">>,
   <<"l5.http2.engine_mismatch", 30, "http2">>, <<"l5.header.h2_uppercase", 25, "header">>,
   <<"l5.header.sec_fetch_missing", 25, "header">>, <<"l5.header.accept_encoding", 8, "header">>}

\* Network residuals: weight 0, seen by the audit log and by HR-11, HR-15,
\* HR-19 and HR-24 only.
L5Residual ==
  {<<id, 0, "tls">> : id \in {"l5.tls.not_observed", "l5.tls.pq_keyshare", "l5.tls.alps_absent",
                              "l5.tls.cert_compression_absent", "l5.tls.ech_absent"}}
  \cup {<<id, 0, "http2">> : id \in {"l5.http2.unknown_under_browser", "l5.http2.browser_settings_atypical",
                                     "l5.http2.flow_control_atypical", "l5.http2.priority_atypical"}}
  \cup {<<id, 0, "header">> : id \in {"l5.header.order", "l5.header.forwarded_private"}}
  \cup {<<id, 0, "proxy">> : id \in {"l5.header.proxy_hop", "l5.header.client_ip_spoof", "l5.header.xff_multi_hop",
                                     "l5.proxy.vpn_webrtc_leak", "l5.proxy.tor_circuit", "l5.proxy.anon_chain"}}
  \cup {<<id, 0, "tcp">> : id \in {"l5.tcp.not_observed", "l5.tcp.ttl", "l5.tcp.mss", "l5.tcp.window", "l5.tcp.ttl_os"}}
  \cup {<<id, 0, "ip">> : id \in {"l5.ip.datacenter_asn", "l5.ip.proxy_vpn_tor", "l5.ip.tor_exit"}}
  \cup {<<"l5.http.browser_tls_over_h1", 0, "http">>}

L5RequestIntegrity ==
  {<<"l5.rit.ok", 0, "rit">>, <<"l5.rit.bootstrap", 0, "rit">>, <<"l5.rit.absent", 30, "rit">>,
   <<"l5.rit.invalid_hmac", 35, "rit">>, <<"l5.rit.header_tampered", 40, "rit">>,
   <<"l5.rit.stale_replay", 30, "rit">>, <<"l5.rit.body_mismatch", 35, "rit">>}

L5Resource ==
  {<<"l5.resource.mass_fetch", 15, "resource">>, <<"l5.resource.no_referer", 10, "resource">>,
   <<"l5.resource.rit_absent", 20, "resource">>, <<"l5.resource.hotlink", 8, "resource">>}

L5Media ==
  {<<"l5.media.range_storm", 25, "media">>, <<"l5.media.no_playback_fetch", 18, "media">>,
   <<"l5.media.hotlink", 10, "media">>, <<"l5.embed.origin_disallowed", 12, "embed">>,
   <<"l5.embed.token_stripped", 22, "embed">>}

L5Traffic ==
  {<<"l5.traffic.ja4_rotation", 35, "traffic">>, <<"l5.traffic.engine_rotation", 40, "traffic">>,
   <<"l5.traffic.ua_rotation", 30, "traffic">>, <<"l5.traffic.ip_hop", 0, "traffic">>,
   <<"l5.traffic.proto_downgrade", 15, "traffic">>, <<"l5.traffic.header_order_shift", 18, "traffic">>,
   <<"l5.traffic.alpn_flap", 10, "traffic">>, <<"l5.traffic.tls_no_permutation", 30, "traffic">>}

L5Abuse ==
  {<<"l5.abuse.rate_exceeded", 25, "abuse">>, <<"l5.abuse.flood", 45, "abuse">>,
   <<"l5.h2dos.rapid_reset", 45, "abuse">>, <<"l5.h2dos.continuation_flood", 45, "abuse">>}

L5Correlation ==
  {<<id, 0, "correlation">> : id \in {"l5.correlation.proxy_rotation", "l5.correlation.shared_fingerprint",
                                      "l5.correlation.fp_churn_proxy", "l5.correlation.ip_velocity"}}

L7Work == {<<"l7.pow.solved", 0, "pow">>, <<"l7.pow.failed", 15, "pow">>, <<"l7.pow.refused", 15, "pow">>,
           <<"l7.pow.too_fast", 30, "pow">>}

L7Pass == {<<"l7.pass.solved", 0, "pass">>, <<"l7.pass.velocity", 25, "pass">>, <<"l7.pass.flood", 45, "pass">>}

Layered(layer, rows) == {<<layer, t[1], t[2], t[3]>> : t \in rows}

Definitions ==
  Layered("L1", L1Static) \cup Layered("L2", L2Fingerprint \cup L2Environment \cup L2Advanced)
    \cup Layered("L3", L3Integrity \cup L3Guard) \cup Layered("L4", L4Behavioral)
    \cup Layered("L5", L5Scored \cup L5Residual \cup L5RequestIntegrity \cup L5Resource \cup L5Media
                         \cup L5Traffic \cup L5Abuse \cup L5Correlation)
    \cup Layered("L7", L7Work \cup L7Pass)

Ids == {d[2] : d \in Definitions}

\* registry: each id is defined once (def panics on a duplicate).
registry == [id \in Ids |-> LET d == CHOOSE d \in Definitions : d[2] = id
                            IN  [layer |-> d[1], weight |-> d[3], group |-> d[4]]]

\* An unknown id has no layer and no group, and weighs nothing.
Definition(reg, id) == IF id \in DOMAIN reg THEN reg[id] ELSE [layer |-> "", weight |-> 0, group |-> ""]

GroupOf(id) == Definition(registry, id).group

\* Severity, in halves.
Severity(v) == CASE v = "BOT" -> 2 [] v = "SUSPICIOUS" -> 1 [] OTHER -> 0

\* ComputeScore: weight * severity * confidence, the confidence in percent.
ComputeScore(weight, conf, v) == weight * conf * Severity(v) * (Point \div 200)

\* New
Authored(id, v, conf, def) == [id |-> id, v |-> v, layer |-> def.layer, score |-> ComputeScore(def.weight, conf, v)]
NewSignal(id, v, conf) == Authored(id, v, conf, Definition(registry, id))

=============================================================================
