------------------------------ MODULE AdminPlane ------------------------------
(* What operators change at run time, and who has to agree to it: the approval *)
(* store of internal/gate/approval.go, the roles of adminauth.go, the handlers *)
(* of admin.go and admin_settings.go, the settings store on disk               *)
(* (settings/store_file.go) and the limiter that an overlay reconfigures       *)
(* (settings_runtime.go). Handlers run concurrently; no lock spans the check   *)
(* of an overlay's parent version, the store and the limiter, and a proposal   *)
(* reads the kill switch twice.                                                *)
EXTENDS Approvals, SettingsPolicy

CONSTANTS
  Boots,              \* the boot configurations the process may be started with
  Bodies,             \* the bodies of proposals
  LooseTTL,           \* the longest life of a class B or D overlay
  IntegrityTTL,       \* the longest life of a class C overlay
  AdminMaxTime,       \* bound: the clock
  MaxChanges,         \* bound: overlays built and approvals requested, together
  MaxInFlight,        \* bound: handlers between two of their steps
  MaxRestarts         \* bound: restarts

ASSUME AdminAssumption ==
  /\ LooseTTL \in Nat \ {0} /\ IntegrityTTL \in Nat \ {0}
  /\ AdminMaxTime \in Nat /\ MaxChanges \in Nat /\ MaxInFlight \in Nat
  /\ MaxRestarts \in Nat

VARIABLES
  adNow,
  adBoot,      \* the boot configuration
  adKill,      \* the kill switch
  adActive,    \* FileStore.active
  adFile,      \* settings.overlay.v1.json
  adLkg,       \* settings.overlay.lkg.json
  adPending,   \* ApprovalStore.pending
  adFlight,    \* handlers on their way through the settings store
  adRate,      \* window and thresholds of the limiter
  adKillBy,    \* history: who asked for and who approved the last flip
  adAgreed,    \* history: the demotions of the overlays that were approved, and by whom
  adCount      \* overlays built, actions requested, restarts

adVars == <<adNow, adBoot, adKill, adActive, adFile, adLkg, adPending, adFlight,
            adRate, adKillBy, adAgreed, adCount>>

NoExpiry == 0
NoOverlay == [id |-> 0, class |-> "A", body |-> EmptyBody, createdBy |-> "",
              approvedBy |-> "", created |-> 0, expiresAt |-> NoExpiry]
\* A file that a crash left half written.
TornFile == [NoOverlay EXCEPT !.id = -1]

Effective(ov) == Resolve(adBoot, adKill, ov.body)
Version(ov) == HashConfigVersion(Effective(ov), ov)
Rate(eff) == <<eff.window, eff.soft, eff.hard>>

AdminInit ==
  /\ adNow = 1
  /\ adBoot \in Boots /\ ValidRuntime(Resolve(adBoot, FALSE, EmptyBody))
  /\ adKill = FALSE
  /\ adActive = NoOverlay /\ adFile = NoOverlay /\ adLkg = NoOverlay
  /\ adPending = {} /\ adFlight = {}
  /\ adRate = Rate(Resolve(adBoot, FALSE, EmptyBody))
  /\ adKillBy = <<"", "">> /\ adAgreed = {}
  /\ adCount = [overlays |-> 0, actions |-> 0, restarts |-> 0]

(***************************************************************************)
(* Approvals                                                               *)
(***************************************************************************)
Changes == adCount.overlays + adCount.actions

\* Create: expired actions are swept, the new one is added.
Create(kind, what, op) ==
  /\ Changes + 1 <= MaxChanges
  /\ adCount' = [adCount EXCEPT !.actions = @ + 1]
  /\ adPending' = {p \in adPending : Live(p, adNow)} \cup
       {[id |-> adCount.actions, kind |-> kind, what |-> what, requester |-> op,
         created |-> adNow]}

\* An expired action goes at the next look at it, or at the list.
AdminForget ==
  \E p \in adPending :
    /\ ~Live(p, adNow)
    /\ adPending' = adPending \ {p}
    /\ UNCHANGED <<adNow, adBoot, adKill, adActive, adFile, adLkg, adFlight,
                   adRate, adKillBy, adAgreed, adCount>>

(***************************************************************************)
(* The kill switch                                                         *)
(***************************************************************************)
KillSwitch ==
  \E op \in Principals, on \in BOOLEAN :
    /\ CanOperate(op)
    /\ Create("killswitch", on, op)
    /\ UNCHANGED <<adNow, adBoot, adKill, adActive, adFile, adLkg, adFlight,
                   adRate, adKillBy, adAgreed>>

(***************************************************************************)
(* Settings: propose, roll back                                            *)
(***************************************************************************)
InFlight(handler) ==
  /\ Cardinality(adFlight) < MaxInFlight
  /\ adFlight' = adFlight \cup {handler}

\* A handler that reached applyOverlayCAS or clearOverlayCAS.
Apply(ov, parent, approver) ==
  [kind |-> "apply", step |-> "check", ov |-> [ov EXCEPT !.approvedBy = approver],
   parent |-> parent]
Clear(parent) ==
  [kind |-> "clear", step |-> "check", ov |-> NoOverlay, parent |-> parent]

\* expiryForClass: the choices a class leaves.
ExpiryForClass(class) ==
  CASE class = "A" -> {NoExpiry, adNow + 1}
    [] class \in {"B", "D"} -> {adNow + 1, adNow + LooseTTL}
    [] class = "C" -> {adNow + 1, adNow + IntegrityTTL}

\* The proposal as the handler builds it from the posture it has just read.
Proposal(body, op, expiry) ==
  [id |-> adCount.overlays + 1, class |-> Classify(Effective(adActive), body),
   body |-> body, createdBy |-> op, approvedBy |-> "", created |-> adNow,
   expiresAt |-> expiry]

\* The posture is read, and the proposal built and classed. The client names the
\* version it has seen; only the current one passes.
Propose ==
  \E op \in Principals, body \in Bodies :
    LET class == Classify(Effective(adActive), body)
    IN /\ CanOperate(op)
       /\ Changes + 1 <= MaxChanges
       /\ Validate(body) /\ ValidRuntime(Resolve(adBoot, adKill, body))
       /\ \E expiry \in ExpiryForClass(class) :
            InFlight([kind |-> "propose", step |-> "switch", ov |-> Proposal(body, op, expiry),
                      parent |-> Version(adActive)])
       /\ adCount' = [adCount EXCEPT !.overlays = @ + 1]
       /\ UNCHANGED <<adNow, adBoot, adKill, adActive, adFile, adLkg, adPending, adRate,
                      adKillBy, adAgreed>>

\* The kill switch is read again: a loosening is refused under it, and waits for an
\* approver otherwise. A tightening goes on at once.
ProposeDecided ==
  \E h \in adFlight :
    /\ h.kind = "propose"
    /\ \/ /\ adKill /\ h.ov.class # "A"
          /\ adFlight' = adFlight \ {h}
          /\ UNCHANGED <<adPending, adCount>>
       \/ /\ h.ov.class = "A"
          /\ adFlight' = (adFlight \ {h}) \cup {Apply(h.ov, h.parent, "")}
          /\ UNCHANGED <<adPending, adCount>>
       \/ /\ ~adKill /\ h.ov.class # "A"
          /\ Create("settings.overlay", [ov |-> h.ov, parent |-> h.parent], h.ov.createdBy)
          /\ adFlight' = adFlight \ {h}
    /\ UNCHANGED <<adNow, adBoot, adKill, adActive, adFile, adLkg, adRate, adKillBy,
                   adAgreed>>

\* Taking a tightening away needs an approver, taking anything else away does not.
Rollback ==
  \E op \in Principals :
    /\ CanOperate(op)
    /\ adActive # NoOverlay
    /\ IF adActive.class = "A"
       THEN Create("settings.overlay.rollback", Version(adActive), op)
            /\ UNCHANGED adFlight
       ELSE InFlight(Clear(Version(adActive))) /\ UNCHANGED <<adPending, adCount>>
    /\ UNCHANGED <<adNow, adBoot, adKill, adActive, adFile, adLkg, adRate, adKillBy,
                   adAgreed>>

\* What a body holds below enforce.
Demoted(body) ==
  {g \in DOMAIN body.gates : body.gates[g] # "enforce"} \cup
  {id \in DOMAIN body.hardRules : body.hardRules[id] # "enforce"}

\* adminApprove: the action leaves the store, then it is carried out.
Approve ==
  \E op \in Principals, p \in adPending :
    /\ CanApprove(op) /\ Approvable(p, op, adNow)
    /\ adPending' = adPending \ {p}
    /\ CASE p.kind = "killswitch" ->
              /\ adKill' = p.what /\ adKillBy' = <<p.requester, op>>
              /\ UNCHANGED <<adFlight, adAgreed>>
         [] p.kind = "settings.overlay" ->
              /\ InFlight(Apply(p.what.ov, p.what.parent, op))
              /\ adAgreed' = adAgreed \cup
                   {[id |-> id, by |-> <<p.requester, op>>] : id \in Demoted(p.what.ov.body)}
              /\ UNCHANGED <<adKill, adKillBy>>
         [] p.kind = "settings.overlay.rollback" ->
              /\ InFlight(Clear(p.what))
              /\ UNCHANGED <<adKill, adKillBy, adAgreed>>
    /\ UNCHANGED <<adNow, adBoot, adActive, adFile, adLkg, adRate, adCount>>

(***************************************************************************)
(* Settings: the steps of applyOverlayCAS, clearOverlayCAS and the expiry  *)
(***************************************************************************)
Moves(h, step) == adFlight' = (adFlight \ {h}) \cup {step}

\* The parent is compared, the class is computed again, an overlay that is over is
\* refused.
CheckApply ==
  \E h \in adFlight :
    LET class == Classify(Effective(adActive), h.ov.body) IN
    /\ h.kind = "apply" /\ h.step = "check"
    /\ IF /\ h.parent = Version(adActive)
          /\ ~(h.ov.expiresAt # NoExpiry /\ h.ov.expiresAt <= adNow)
          /\ ValidRuntime(Effective(h.ov))
          /\ ~(class = "C" /\ h.ov.expiresAt = NoExpiry)
       THEN Moves(h, [h EXCEPT !.step = "store", !.ov.class = class])
       ELSE adFlight' = adFlight \ {h}
    /\ UNCHANGED <<adNow, adBoot, adKill, adActive, adFile, adLkg, adPending,
                   adRate, adKillBy, adAgreed, adCount>>

CheckClear ==
  \E h \in adFlight :
    /\ h.kind = "clear" /\ h.step = "check"
    /\ IF h.parent = Version(adActive)
       THEN Moves(h, [h EXCEPT !.step = "store"])
       ELSE adFlight' = adFlight \ {h}
    /\ UNCHANGED <<adNow, adBoot, adKill, adActive, adFile, adLkg, adPending,
                   adRate, adKillBy, adAgreed, adCount>>

Expired(ov) == ov.expiresAt # NoExpiry /\ adNow > ov.expiresAt

\* expireActiveOverlayIfNeeded reads the active overlay, and decides to clear it.
Expire ==
  /\ ~adKill /\ Expired(adActive)
  /\ InFlight([kind |-> "clear", step |-> "store", ov |-> NoOverlay,
               parent |-> Version(adActive)])
  /\ UNCHANGED <<adNow, adBoot, adKill, adActive, adFile, adLkg, adPending, adRate,
                 adKillBy, adAgreed, adCount>>

\* SetActive under the store's lock: an overlay goes to its file, then to the
\* last-known-good one, then to memory; a write that fails ends the handler. To
\* clear is to remove the file; an error of that is not looked at.
Store ==
  \E h \in adFlight :
    /\ h.step = "store"
    /\ \/ /\ h.kind = "apply"
          /\ adActive' = h.ov /\ adFile' = h.ov /\ adLkg' \in {h.ov, TornFile, adLkg}
          /\ Moves(h, [h EXCEPT !.step = "sync"])
       \/ /\ h.kind = "apply"
          /\ adFile' \in {TornFile, adFile} /\ adFlight' = adFlight \ {h}
          /\ UNCHANGED <<adActive, adLkg>>
       \/ /\ h.kind = "clear"
          /\ adActive' = NoOverlay /\ adFile' \in {NoOverlay, adFile}
          /\ Moves(h, [h EXCEPT !.step = "sync"])
          /\ UNCHANGED adLkg
    /\ UNCHANGED <<adNow, adBoot, adKill, adPending, adRate, adKillBy,
                   adAgreed, adCount>>

\* syncSettingsRuntime: the limiter gets the posture this handler computed.
Sync ==
  \E h \in adFlight :
    /\ h.step = "sync"
    /\ adRate' = Rate(Effective(h.ov))
    /\ adFlight' = adFlight \ {h}
    /\ UNCHANGED <<adNow, adBoot, adKill, adActive, adFile, adLkg, adPending,
                   adKillBy, adAgreed, adCount>>

(***************************************************************************)
(* Restarts                                                                *)
(***************************************************************************)
\* NewFileStore: the file, or when it does not parse or is not valid, the
\* last-known-good one, or nothing.
Loaded(file, lkg) ==
  IF file # TornFile /\ Validate(file.body) THEN file
  ELSE IF lkg # TornFile /\ Validate(lkg.body) THEN lkg
  ELSE NoOverlay

\* The process ends between two steps, or inside the write of a file, and is started
\* again, maybe with another configuration; it refuses to start with a rate limit
\* that is not valid.
Restart ==
  /\ adCount.restarts < MaxRestarts
  /\ adCount' = [adCount EXCEPT !.restarts = @ + 1]
  /\ adFile' \in {adFile} \cup
       {TornFile : h \in {x \in adFlight : x.kind = "apply" /\ x.step = "store"}}
  /\ adBoot' \in Boots
  /\ adKill' = FALSE /\ adKillBy' = <<"", "">>
  /\ adActive' = Loaded(adFile', adLkg)
  /\ ValidRuntime(Resolve(adBoot', FALSE, adActive'.body))
  /\ adRate' = Rate(Resolve(adBoot', FALSE, adActive'.body))
  /\ adPending' = {} /\ adFlight' = {}
  /\ UNCHANGED <<adNow, adLkg, adAgreed>>

AdminTick ==
  /\ adNow < AdminMaxTime
  /\ adNow' = adNow + 1
  /\ UNCHANGED <<adBoot, adKill, adActive, adFile, adLkg, adPending, adFlight,
                 adRate, adKillBy, adAgreed, adCount>>

AdminNext ==
  \/ KillSwitch \/ Propose \/ ProposeDecided \/ Rollback \/ Approve
  \/ CheckApply \/ CheckClear \/ Expire \/ Store \/ Sync
  \/ AdminForget \/ Restart \/ AdminTick

AdminSpec == AdminInit /\ [][AdminNext]_adVars

(***************************************************************************)
(* Properties                                                              *)
(***************************************************************************)
\* With an end within what its class allows.
Ends(ov) ==
  /\ ov.expiresAt # NoExpiry
  /\ ov.expiresAt <= ov.created + (IF ov.class = "C" THEN IntegrityTTL ELSE LooseTTL)

\* What Classify finds weaker than the defaults whatever is in force.
Weakens(body) ==
  \/ \E v \in body.challengeAt : v > DefChallenge
  \/ \E v \in body.denyAt : v > DefDeny
  \/ \E v \in body.layerCap : v < DefLayerCap
  \/ \E s \in DOMAIN body.weights : body.weights[s] < 100

\* "the store enforces approver != requester" (approval.go:15), "Protection-reducing
\* and integrity-affecting proposals land in Approvals" (audit-console-tour.md:166):
\* two principals agreed to the kill switch that is on, to the very overlay that holds
\* a threshold, a layer cap or a weight below the defaults, which also ends in time,
\* and, at some time, to every gate and hard rule that is below enforce. An overlay
\* is classed against the posture it replaces, so one person may propose a demotion
\* again that is in force already; racing handlers, failed writes, and restarts that
\* load the last-known-good file must not turn that into a demotion nobody agreed to.
Governed ==
  /\ adKill => TwoPersons(adKillBy[1], adKillBy[2])
  /\ Weakens(adActive.body) => TwoPersons(adActive.createdBy, adActive.approvedBy) /\ Ends(adActive)
  /\ \A id \in Demoted(adActive.body) :
       \E a \in adAgreed : a.id = id /\ TwoPersons(a.by[1], a.by[2])

==============================================================================
