------------------------------- MODULE Approvals -------------------------------
(* Who may ask for what and who has to agree (internal/gate/adminauth.go and   *)
(* approval.go), for the modules in which operators act.                       *)
EXTENDS Integers

CONSTANTS
  Principals, Role,  \* the authenticated operators and their roles
  ApprovalTTL        \* how long a pending action can be approved

Roles == {"auditor", "operator", "approver", "dpo"}

ASSUME ApprovalsAssumption ==
  /\ Role \in [Principals -> Roles]
  /\ "" \notin Principals
  /\ ApprovalTTL \in Nat

CanOperate(op) == Role[op] \in {"operator", "dpo"}
CanApprove(op) == Role[op] \in {"approver", "dpo"}

\* hasRole: a DPO may stand in for an approver.
HasRole(have, need) == have = need \/ (need = "approver" /\ have = "dpo")

Live(p, now) == now - p.created <= ApprovalTTL

\* Approve refuses an expired action, the requester, and the wrong role.
Approvable(p, op, now) ==
  Live(p, now) /\ op # p.requester /\ HasRole(Role[op], "approver")

\* The requester may ask, and somebody else who may approve has approved.
TwoPersons(requester, approver) ==
  /\ requester \in Principals /\ CanOperate(requester)
  /\ approver \in Principals /\ CanApprove(approver)
  /\ requester # approver
================================================================================
