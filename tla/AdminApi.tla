------------------------------- MODULE AdminApi -------------------------------
(* The admin API of a Gate node (internal/gate/admin.go): authentication, the  *)
(* record of every access, the table of routes and roles, and the handlers of  *)
(* manual bans with their approvals. Settings and the kill switch are in       *)
(* module AdminPlane, erasures in module Erasure, what a ban does in module    *)
(* FleetBans.                                                                  *)
EXTENDS Approvals, FiniteSets, Sequences

CONSTANTS
  ApiMaxTime,     \* bound: the clock
  ApiMaxActions   \* bound: approvals requested

ASSUME ApiAssumption == ApiMaxTime \in Nat /\ ApiMaxActions \in Nat

VARIABLES
  apiNow,
  apiPending,  \* ApprovalStore.pending
  apiCreated,  \* approvals requested so far
  apiBans,     \* the manual bans, with who asked and who approved
  apiTrail     \* what the audit log says of the last request

apiVars == <<apiNow, apiPending, apiCreated, apiBans, apiTrail>>

Anonymous == "nobody"

(***************************************************************************)
(* Routes and roles: the first row that matches decides                    *)
(***************************************************************************)
Row(method, path, need) == [method |-> method, path |-> path, need |-> need]

Reads == {"bans", "integrity", "proof", "audit", "incidents", "policy",
          "virtual-usb", "settings/effective", "settings/schema",
          "settings/overlays", "approvals", "erasures", "whoami", "metrics",
          "keys", "checkpoints"}

Writes == {"settings/overlays", "settings/dry-run", "settings/rollback", "bans",
           "bans/bulk", "bans/lift", "erasure", "killswitch", "erasures/cancel"}

AdminRoutes ==
  {Row("GET", p, "read") : p \in Reads} \cup
  {Row("POST", p, "operate") : p \in Writes} \cup
  {Row("POST", "approvals", "approve")}

Allowed(who, need) ==
  CASE need = "read" -> TRUE
    [] need = "operate" -> CanOperate(who)
    [] need = "approve" -> CanApprove(who)

\* handleAdmin up to the handler: an authenticated access is recorded before
\* anything is served, then the row decides; records are the handler's own.
HandleAdmin(who, method, path, records) ==
  /\ who # Anonymous
  /\ \E row \in AdminRoutes :
       row.method = method /\ row.path = path /\ Allowed(who, row.need)
  /\ apiTrail' = <<[event |-> "access", who |-> who]>> \o records

\* Who is refused: 404 without a token, 403 without the role.
Refused ==
  \E who \in Principals \cup {Anonymous}, row \in AdminRoutes :
    /\ who # Anonymous => ~Allowed(who, row.need)
    /\ apiTrail' = <<[event |-> IF who = Anonymous THEN "auth failed" ELSE "access",
                      who |-> who]>>
    /\ UNCHANGED <<apiNow, apiPending, apiCreated, apiBans>>

(***************************************************************************)
(* Bans                                                                    *)
(***************************************************************************)
\* A ban as it is asked for: on one address or on a range; for a while, for ever
\* (0), or for so long that it reaches the cap or overflows.
Requests == [broad : BOOLEAN, duration : {"short", "zero", "over the cap"}]

\* Faulty: only 0 is taken for a ban for ever.
NeedsApprovalZero(b) == b.broad \/ b.duration = "zero"

NeedsApproval(b) == b.broad \/ b.duration # "short"

\* commitBan: what reaches the ban ledger.
CommitBan(b, requester, approver) ==
  [broad |-> b.broad, permanent |-> b.duration # "short",
   requester |-> requester, approver |-> approver]

AddBan ==
  \E who \in Principals, b \in Requests :
    /\ HandleAdmin(who, "POST", "bans",
         <<[event |-> IF NeedsApproval(b) THEN "requested" ELSE "banned", who |-> who]>>)
    /\ IF NeedsApproval(b)
       THEN /\ apiCreated < ApiMaxActions /\ apiCreated' = apiCreated + 1
            /\ apiPending' = {p \in apiPending : Live(p, apiNow)} \cup
                 {[id |-> apiCreated, ban |-> b, requester |-> who, created |-> apiNow]}
            /\ UNCHANGED apiBans
       ELSE /\ apiBans' = apiBans \cup {CommitBan(b, who, "")}
            /\ UNCHANGED <<apiPending, apiCreated>>
    /\ UNCHANGED apiNow

\* adminBulkBan: for a while only, and without the ranges among the keys.
BulkBan ==
  \E who \in Principals, keys \in SUBSET BOOLEAN \ {{}} :
    LET taken == {[broad |-> k, duration |-> "short"] : k \in keys \ {TRUE}}
    IN /\ HandleAdmin(who, "POST", "bans/bulk",
            IF taken = {} THEN <<>> ELSE <<[event |-> "banned", who |-> who]>>)
       /\ apiBans' = apiBans \cup {CommitBan(b, who, "") : b \in taken}
       /\ UNCHANGED <<apiNow, apiPending, apiCreated>>

LiftBan ==
  \E who \in Principals, b \in apiBans :
    /\ HandleAdmin(who, "POST", "bans/lift", <<[event |-> "lifted", who |-> who]>>)
    /\ apiBans' = apiBans \ {b}
    /\ UNCHANGED <<apiNow, apiPending, apiCreated>>

\* adminApprove of a ban: the action leaves the store and is carried out.
ApproveBan ==
  \E who \in Principals, p \in apiPending :
    /\ Approvable(p, who, apiNow)
    /\ HandleAdmin(who, "POST", "approvals",
         <<[event |-> "approved", who |-> who], [event |-> "banned", who |-> p.requester]>>)
    /\ apiPending' = apiPending \ {p}
    /\ apiBans' = apiBans \cup {CommitBan(p.ban, p.requester, who)}
    /\ UNCHANGED <<apiNow, apiCreated>>

\* Approve and Pending drop an action that nobody approved in time.
ForgetBan ==
  \E who \in Principals, p \in apiPending :
    /\ ~Live(p, apiNow)
    /\ HandleAdmin(who, "POST", "approvals", <<>>)
    /\ apiPending' = apiPending \ {p}
    /\ UNCHANGED <<apiNow, apiCreated, apiBans>>

ApiTick ==
  /\ apiNow < ApiMaxTime
  /\ apiNow' = apiNow + 1
  /\ UNCHANGED <<apiPending, apiCreated, apiBans, apiTrail>>

ApiInit ==
  /\ apiNow = 1 /\ apiPending = {} /\ apiCreated = 0 /\ apiBans = {} /\ apiTrail = <<>>

ApiNext ==
  \/ Refused \/ AddBan \/ BulkBan \/ LiftBan \/ ApproveBan \/ ForgetBan \/ ApiTick

ApiSpec == ApiInit /\ [][ApiNext]_apiVars

(***************************************************************************)
(* Properties                                                              *)
(***************************************************************************)
\* "a PERMANENT ban committed by ONE operator" (admin.go:569) cannot be: a ban for ever
\* or on a range has an operator who asked and another principal who approved in
\* time, whichever of the three ways into the ban ledger it took.
BansGoverned ==
  \A b \in apiBans : b.broad \/ b.permanent => TwoPersons(b.requester, b.approver)

==============================================================================
