----------------------------- MODULE MCCorePlane -----------------------------
(***************************************************************************)
(* The parts of the core server, the registries of what was used once, the *)
(* observers of traffic and the audit log's tree, which share no state,    *)
(* side by side as in MCGatePlane: part names the one a behaviour is       *)
(* about, and the others stay as they start.                               *)
(***************************************************************************)
EXTENDS SessionScoring, PassChallenge, Merkle, ModelCanary, SingleUse, TrafficLog, Correlation, LiveFeed, TLC

CONSTANT Parts

VARIABLE part

coreVars == <<part, scVars, seVars, paVars, mkVars, mlVars, suVars, tlVars, coVars, lfVars>>

\* The choices a part starts with, or an arbitrary one where it is not followed.
Start(name, choices) == IF part = name THEN choices ELSE {CHOOSE c \in choices : TRUE}

CoreInit ==
  /\ part \in Parts
  /\ IF part = "scoring" THEN ScoringInit
     ELSE scReport = "none" /\ scConfig = "none" /\ scResult = {} /\ scTrace = {}
  /\ SessionInit
  /\ PassInit
  /\ MerkleInit
  /\ mlSetup \in Start("canary", MlSetups) /\ mlFile \in Start("canary", MlBundles)
  /\ mlOver \in Start("canary", BOOLEAN) /\ CanaryInit
  /\ suKind \in Start("singleuse", {"beacon", "pat", "trace", "agent", "webauthn"}) /\ SingleUseInit
  /\ TrafficInit
  /\ CorrelationInit
  /\ LiveFeedInit

CoreNext ==
  \/ part = "scoring" /\ ScoringNext
     /\ UNCHANGED <<part, seVars, paVars, mkVars, mlVars, suVars, tlVars, coVars, lfVars>>
  \/ part = "session" /\ SessionNext
     /\ UNCHANGED <<part, scVars, paVars, mkVars, mlVars, suVars, tlVars, coVars, lfVars>>
  \/ part = "pass" /\ PassNext
     /\ UNCHANGED <<part, scVars, seVars, mkVars, mlVars, suVars, tlVars, coVars, lfVars>>
  \/ part = "merkle" /\ MerkleNext
     /\ UNCHANGED <<part, scVars, seVars, paVars, mlVars, suVars, tlVars, coVars, lfVars>>
  \/ part = "canary" /\ CanaryNext
     /\ UNCHANGED <<part, scVars, seVars, paVars, mkVars, suVars, tlVars, coVars, lfVars>>
  \/ part = "singleuse" /\ SingleUseNext
     /\ UNCHANGED <<part, scVars, seVars, paVars, mkVars, mlVars, tlVars, coVars, lfVars>>
  \/ part = "traffic" /\ TrafficNext
     /\ UNCHANGED <<part, scVars, seVars, paVars, mkVars, mlVars, suVars, coVars, lfVars>>
  \/ part = "correlation" /\ CorrelationNext
     /\ UNCHANGED <<part, scVars, seVars, paVars, mkVars, mlVars, suVars, tlVars, lfVars>>
  \/ part = "feed" /\ LiveFeedNext
     /\ UNCHANGED <<part, scVars, seVars, paVars, mkVars, mlVars, suVars, tlVars, coVars>>

CoreSpec == CoreInit /\ [][CoreNext]_coreVars

CoreSymmetry == Permutations(SeHandlers)

(***************************************************************************)
(* The instance                                                            *)
(***************************************************************************)
NoMotion == [samples |-> 0, keys |-> 0, events |-> 0, clicks |-> 0, facts |-> {}, ml |-> {}]
Reader == [samples |-> 2, keys |-> 0, events |-> 3, clicks |-> 0, facts |-> {"long", "noMoveClicks"}, ml |-> {"SUSPICIOUS"}]
Person == [samples |-> 60, keys |-> 12, events |-> 80, clicks |-> 3, facts |-> {"long", "straight"}, ml |-> {"OK"}]
Agent == [samples |-> 5, keys |-> 30, events |-> 20, clicks |-> 2,
          facts |-> {"fastFlight", "longGaps", "instantResume", "lowBurstVar", "flatDwell"}, ml |-> {}]

Chrome == {"mozilla", "chrome", "safari", "windows"}
Bots(ids) == {NewSignal(id, "BOT", 100) : id \in ids}
Base == [ua |-> Chrome, client |-> {}, net |-> {}, behavior |-> Person, environment |-> {"probed"}, guard |-> {},
         advanced |-> {"probed"}, ja4 |-> "chrome", h2 |-> "chrome", headers |-> {"secChUa", "secFetch"}, platform |-> {"windows"}]

AtMost(k, S) == {T \in SUBSET S : Cardinality(T) <= k}
ClientIds == {"l1.navigator.webdriver", "l1.ua.headless_token", "l2.canvas.tampered", "l3.integrity.native_tostring"}
ServerIds == {"l5.abuse.flood", "l7.pass.flood", "l7.pow.too_fast", "l5.rit.stale_replay", "l5.header.proxy_hop"}

\* Browsers with up to three signals, at most two of either side, with and
\* without a privacy claim.
Accused == {p \in AtMost(2, ClientIds) \X AtMost(2, ServerIds) : Cardinality(p[1]) + Cardinality(p[2]) <= 3}
Visitors ==
  {[Base EXCEPT !.client = Bots(p[1]), !.net = Bots(p[2]) \cup {NewSignal("l7.pow.solved", "OK", 100) : x \in s},
                !.behavior = b, !.environment = {"probed"} \cup e] :
     p \in Accused, s \in {{}, {1}}, b \in {Person, Reader}, e \in {{}, {"gpc"}}}

\* Clients whose layers contradict each other.
Mismatches ==
  {[Base EXCEPT !.ua = u, !.ja4 = j, !.h2 = h, !.headers = hd, !.platform = p, !.advanced = a,
                !.guard = {"reported", "evalUsed"}, !.behavior = b, !.environment = {}] :
     u \in {{}, {"library"}, {"mozilla", "firefox", "linux"}, Chrome}, j \in {"", "go"}, h \in {"chrome", "go"},
     hd \in {{}, {"secChUa", "secFetch"}}, p \in {{}, {"linux"}},
     a \in {{}, {"probed", "noVoices", "noMedia", "noWidevine"}, {"probed", "mobileUA", "audio24k"}}, b \in {NoMotion, Agent}}

MCInputs == Visitors \cup Mismatches

Default == [policy |-> [challengeAt |-> 30 * Point, denyAt |-> 70 * Point, layerCap |-> 60 * Point],
            modes |-> <<>>, weights |-> <<>>, net |-> {}]
Tuned == [Default EXCEPT !.modes = ("HR-12" :> "monitor") @@ ("HR-4" :> "monitor") @@ ("HR-2" :> "enforce"),
                         !.weights = "l5.abuse.flood" :> 50, !.net = {"net.vpn" :> "enforce"}]
MCConfigs == {Default, Tuned}

MCReports ==
  NoClient :> [Base EXCEPT !.ua = {}, !.behavior = NoMotion, !.environment = {}, !.advanced = {}, !.ja4 = "", !.h2 = "",
                           !.headers = {}, !.platform = {}]
    @@ "calm" :> Base
    @@ "shady" :> [Base EXCEPT !.client = Bots({"l2.canvas.tampered", "l2.webgl.swiftshader"})]

MCScores == EngineScores(MCReports, Default)

Request(kind, net, extra, token) == [kind |-> kind, net |-> net, extra |-> extra, token |-> token]
MCObservations == {Request("calm", {}, <<>>, "next"), Request("calm", {}, <<>>, "used"), Request("calm", {}, <<>>, "forged"),
                   Request("shady", {"l5.header.proxy_hop"}, <<"l5.abuse.flood">>, "none")}

Seen(sid, addr, engine, ja4, proto) ==
  [sid |-> sid, addr |-> addr, subnet |-> addr, hello |-> [engine |-> engine, ja4 |-> ja4], ua |-> "ua", proto |-> proto]
\* Two visitors behind one address.
MCShared == {Seen("ann", "nat", "chrome", "c1", "2"), Seen("bob", "nat", "firefox", "f1", "2")}
\* A visitor who shares an address, and one alone on theirs whose stack changes.
MCTraffic ==
  {Seen("ann", "nat", "chrome", "c1", "2"), Seen("", "nat", "firefox", "f1", "2"), Seen("eve", "solo", "chrome", "c1", "2"),
   Seen("eve", "solo", "", "", "1.1"), Seen("eve", "solo", "go", "g1", "2")}

MCPool == {[subnet |-> i, session |-> i] : i \in 1..3}

Bundle(id, schema, signed) == [id |-> id, shape |-> TRUE, schema |-> schema, signed |-> signed]
MCBundles == {Bundle("good", TRUE, TRUE), Bundle("stale", FALSE, TRUE), Bundle("other", TRUE, FALSE)}
Flags(pubkey, sig, pin, canary) ==
  [pubkey |-> pubkey, sig |-> sig, pin |-> pin, canary |-> canary, shadow |-> Bundle("next", TRUE, FALSE)]
MCSetups == {Flags("set", "set", "", TRUE), Flags("", "", "good", FALSE), Flags("unreadable", "", "", TRUE)}
==============================================================================
