----------------------------- MODULE MCGatePlane -----------------------------
(***************************************************************************)
(* The parts of a Gate node that share no state, side by side: part names  *)
(* the one a behaviour is about, and the others stay as they start.  Where *)
(* the start of a part is a choice, it is made only for behaviours of that *)
(* part, so the state spaces of the parts add up and do not multiply.      *)
(***************************************************************************)
EXTENDS FleetBans, RateLimit, AdminPlane, AdminApi, GatePipeline, TrustTokens,
        ControlPlane, Injector, TLC

CONSTANTS Parts, s1, s2

VARIABLE part

planeVars == <<part, bansVars, rateVars, adVars, apiVars, gpVars, tkVars, cpVars, injVars>>

\* The choices a part starts with, or an arbitrary one where it is not followed.
Start(name, choices) == IF part = name THEN choices ELSE {CHOOSE c \in choices : TRUE}

PlaneInit ==
  /\ part \in Parts
  /\ BansInit
  /\ rateCfg \in Start("rate", {[n \in RateNodes |-> cfg] : cfg \in RateConfigs}) /\ RateInit
  /\ adBoot \in Start("admin", Boots) /\ AdminInit
  /\ ApiInit
  /\ gpMonitor \in Start("pipeline", BOOLEAN) /\ gpKill \in Start("pipeline", BOOLEAN)
  /\ gpPath \in Start("pipeline", RawPaths) /\ PipelineInit
  /\ TokensInit
  /\ cpPolicy \in Start("control", CpPolicies) /\ cpEngine \in Start("control", CpEngines) /\ ControlInit
  /\ injDoc \in Start("injector", InjPages) /\ newInjectingReader

PlaneNext ==
  \/ /\ part = "bans" /\ BansNext
     /\ UNCHANGED <<part, rateVars, adVars, apiVars, gpVars, tkVars, cpVars, injVars>>
  \/ /\ part = "rate" /\ RateNext
     /\ UNCHANGED <<part, bansVars, adVars, apiVars, gpVars, tkVars, cpVars, injVars>>
  \/ /\ part = "admin" /\ AdminNext
     /\ UNCHANGED <<part, bansVars, rateVars, apiVars, gpVars, tkVars, cpVars, injVars>>
  \/ /\ part = "api" /\ ApiNext
     /\ UNCHANGED <<part, bansVars, rateVars, adVars, gpVars, tkVars, cpVars, injVars>>
  \/ /\ part = "pipeline" /\ PipelineNext
     /\ UNCHANGED <<part, bansVars, rateVars, adVars, apiVars, tkVars, cpVars, injVars>>
  \/ /\ part = "tokens" /\ TokensNext
     /\ UNCHANGED <<part, bansVars, rateVars, adVars, apiVars, gpVars, cpVars, injVars>>
  \/ /\ part = "control" /\ ControlNext
     /\ UNCHANGED <<part, bansVars, rateVars, adVars, apiVars, gpVars, tkVars, injVars>>
  \/ /\ part = "injector" /\ InjectorNext
     /\ UNCHANGED <<part, bansVars, rateVars, adVars, apiVars, gpVars, tkVars, cpVars>>

PlaneSpec == PlaneInit /\ [][PlaneNext]_planeVars

(***************************************************************************)
(* The instance                                                            *)
(***************************************************************************)
MCDurations == <<1, 1, 1>>

MCRateConfigs == {[window |-> 1, soft |-> 1, hard |-> 2], [window |-> 2, soft |-> 2, hard |-> 3]}

MCPrincipals == {"ap", "dpo"}
MCRole == [p \in MCPrincipals |-> IF p = "ap" THEN "approver" ELSE "dpo"]

Boot(monitor, soft) ==
  [globalMonitor |-> monitor, routes |-> "/" :> "balanced", window |-> 10, soft |-> soft, hard |-> 4]
MCBoots == {Boot(FALSE, 2), Boot(TRUE, 4)}

\* A tightening, loosenings of a gate and of a threshold, and an integrity change.
MCBodies == {[EmptyBody EXCEPT !.hard = {3}], [EmptyBody EXCEPT !.gates = "gate.ban" :> "monitor"],
             [EmptyBody EXCEPT !.challengeAt = {40}], [EmptyBody EXCEPT !.gates = "gate.smuggle" :> "monitor"]}

\* A session id as the server makes them, and one that holds the separator.
MCSids == {<<s1>>, <<s2, s1>>}

MCRawPaths == {<<>>, <<"a">>, <<"a", "b">>, <<"a", "..", "c">>, <<"c", "a">>}
MCRoutes == {[prefix |-> <<"a">>, slashes |-> 0, preset |-> "attested"],
             [prefix |-> <<"c">>, slashes |-> 1, preset |-> "monitor"],
             [prefix |-> <<"c", "a">>, slashes |-> 0, preset |-> "strict"]}

MCVerdict == [x \in {"person", "tool", "none"} \X {"plain", "odd", "none"} \X CpEngines |->
                IF x[1] = "tool" /\ x[3]["RuleModes"] = "default" THEN "DENY"
                ELSE IF x[2] = "odd" /\ x[3]["Policy"] = "tuned" THEN "CHALLENGE" ELSE "ALLOW"]

\* Pages with every kind of insertion point and with none, and the same pages as
\* the injector returns them.
Pages == {a \o b \o c \o d : a \in {<<>>, <<"x">>, <<"x", "x", "x", "x">>},
                             b \in {<<>>, <<"<hea", "d", ">">>, <<"<hea", "d", "x", ">">>, <<"<hea", "d">>},
                             c \in {<<>>, <<"</head", ">">>, <<"x", "</head", ">">>},
                             d \in {<<>>, <<"<body", ">", "x">>}}
MCInjPages == Pages \cup {WithSnippet(p, findInsertionPoint(p)) : p \in {q \in Pages : findInsertionPoint(q) >= 0}}
==============================================================================
