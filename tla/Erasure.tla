------------------------------ MODULE Erasure -------------------------------
(* The crypto-shred erasure of the Gate: the vault of per-subject linkage keys *)
(* (internal/audit/pseudonym.go), the sealed keystore it survives a restart in *)
(* (keystore.go), the dual-control approvals (internal/gate/approval.go), the  *)
(* queue of shreds in their hold window (erasure.go), the ticker that runs the *)
(* due ones (gate.go), and the shutdown, crash and boot of the process.        *)
(*                                                                             *)
(* A linkage key is a fresh number. A subject's handle is an HMAC of the raw   *)
(* subject under its key, so the number of the key stands for the handle too.  *)
(* The keys the vault also mints for the names of operators are left out.      *)
EXTENDS Integers, FiniteSets

CONSTANTS
  Subjects,      \* raw session subjects
  RoleOperator, RoleApprover, RoleDPO,  \* the operators who hold each role
  TornFile,      \* a keystore file cut short
  TTL,           \* how long a pending action can be approved
  Hold,          \* the cancellation window of an approved erasure
  MaxTime,       \* bound: the clock
  MaxKeys,       \* bound: keys minted over the whole behaviour
  MaxRequests,   \* bound: erasures requested
  MaxBoots       \* bound: restarts

NoKey == 0

Handles == 1..MaxKeys

ASSUME ConstantsAssumption ==
  /\ Subjects \cap Handles = {}
  /\ TTL \in Nat /\ Hold \in Nat /\ MaxTime \in Nat
  /\ MaxKeys \in Nat /\ MaxRequests \in Nat /\ MaxBoots \in Nat

VARIABLES
  stage,       \* "up", "draining", "sealing", "writing" or "down"
  now,         \* the clock
  vault,       \* the fields of Vault
  collecting,  \* collect handlers between Pseudonymize and Link
  pending,     \* ApprovalStore.pending
  granting,    \* approve handlers between Approve and Schedule
  scheduled,   \* ShredQueue.items
  running,     \* what Due returned and RunDueShreds has not shredded yet
  certifying,  \* the shred whose certificate RunDueShreds is about to emit
  snapshot,    \* the vault as the shutdown copied it
  keystore,    \* the keystore file: a sealed vault, or torn
  minted, requests, boots,  \* keys minted, erasures requested, restarts
  certificates,             \* the erasure records in the audit log
  cancelled                 \* the erasures a cancellation removed

vars == <<stage, now, vault, collecting, pending, granting, scheduled, running,
          certifying, snapshot, keystore, minted, requests, boots, certificates,
          cancelled>>

Up == stage # "down"

\* The listeners accept requests until the shutdown begins to drain them.
Serving == stage = "up"

(***************************************************************************)
(* The vault                                                               *)
(***************************************************************************)
EmptyVault == [keys |-> [s \in Subjects |-> NoKey], index |-> {}, shredded |-> {}]

\* Faulty: the tombstone is not consulted.
LinkAlways(v, h, s) == [v EXCEPT !.index = @ \cup {<<h, s>>}]

Link(v, h, s) == IF s \in v.shredded THEN v ELSE [v EXCEPT !.index = @ \cup {<<h, s>>}]

\* The subject behind a handle, or the value itself.
Resolve(v, x) ==
  IF \E s \in Subjects : <<x, s>> \in v.index
  THEN CHOOSE s \in Subjects : <<x, s>> \in v.index
  ELSE x

Shred(v, s) ==
  [keys     |-> [t \in Subjects |-> IF t = s THEN NoKey ELSE v.keys[t]],
   index    |-> {e \in v.index : e[2] # s},
   shredded |-> v.shredded \cup {s}]

\* Faulty: the tombstones are not restored.
LoadVaultForgets(v) == [v EXCEPT !.shredded = {}]

\* LoadVault rebuilds what Snapshot wrote: keys, tombstones and index.
LoadVault(v) == [keys |-> v.keys, index |-> v.index, shredded |-> v.shredded]

Init ==
  /\ stage = "up" /\ now = 0
  /\ vault = EmptyVault /\ snapshot = EmptyVault /\ keystore = EmptyVault
  /\ collecting = {} /\ pending = {} /\ granting = {} /\ scheduled = {}
  /\ running = {} /\ certifying = {}
  /\ minted = 0 /\ requests = 0 /\ boots = 0
  /\ certificates = {} /\ cancelled = {}

(***************************************************************************)
(* Collection: linkAndAuditScoring pseudonymizes the session, then links.  *)
(***************************************************************************)
\* subjectKey mints on first use. An erased subject gets the tombstone handle,
\* which Link ignores.
Pseudonymize(s) ==
  /\ Serving
  /\ s \notin vault.shredded
  /\ IF vault.keys[s] # NoKey THEN UNCHANGED <<vault, minted>>
     ELSE /\ minted < MaxKeys
          /\ minted' = minted + 1
          /\ vault' = [vault EXCEPT !.keys[s] = minted']
  /\ collecting' = collecting \cup {<<vault'.keys[s], s>>}
  /\ UNCHANGED <<stage, now, pending, granting, scheduled, running, certifying,
                 snapshot, keystore, requests, boots, certificates, cancelled>>

LinkHandle(e) ==
  /\ Up
  /\ collecting' = collecting \ {e}
  /\ vault' = Link(vault, e[1], e[2])
  /\ UNCHANGED <<stage, now, pending, granting, scheduled, running, certifying,
                 snapshot, keystore, minted, requests, boots, certificates, cancelled>>

(***************************************************************************)
(* The admin plane: request, dual-control approval, cancellation           *)
(***************************************************************************)
canOperate(op) == op \in RoleOperator \cup RoleDPO

canApprove(op) == op \in RoleApprover \cup RoleDPO

\* hasRole for the role an erasure needs.
hasRoleDPO(op) == op \in RoleDPO

Expired(p) == now - p.created > TTL

\* gcLocked
Unexpired == {p \in pending : ~Expired(p)}

\* adminErasure resolves the handle and creates the pending action.
RequestErasure(op, x) ==
  /\ Serving /\ canOperate(op)
  /\ requests < MaxRequests
  /\ requests' = requests + 1
  /\ pending' = Unexpired \cup
       {[id |-> requests', subject |-> Resolve(vault, x), requester |-> op,
         created |-> now]}
  /\ UNCHANGED <<stage, now, vault, collecting, granting, scheduled, running,
                 certifying, snapshot, keystore, minted, boots, certificates, cancelled>>

\* adminListApprovals drops what has expired.
ListApprovals ==
  /\ Serving
  /\ pending' = Unexpired
  /\ UNCHANGED <<stage, now, vault, collecting, granting, scheduled, running,
                 certifying, snapshot, keystore, minted, requests, boots,
                 certificates, cancelled>>

\* Approve takes the action out of the store for a distinct DPO; the handler goes
\* on to audit the grant. An expired action is dropped, a refusal changes nothing.
Approve(op, p) ==
  /\ Serving /\ canApprove(op)
  /\ Expired(p) \/ (op # p.requester /\ hasRoleDPO(op))
  /\ pending' = pending \ {p}
  /\ granting' = IF Expired(p) THEN granting
                 ELSE granting \cup {[id |-> p.id, subject |-> p.subject,
                                      requester |-> p.requester, approver |-> op]}
  /\ UNCHANGED <<stage, now, vault, collecting, scheduled, running, certifying,
                 snapshot, keystore, minted, requests, boots, certificates, cancelled>>

\* The grant is audited and the erasure enters its hold window.
Schedule(g) ==
  /\ Up /\ now + Hold <= MaxTime
  /\ granting' = granting \ {g}
  /\ scheduled' = scheduled \cup
       {[id |-> g.id, subject |-> g.subject, requester |-> g.requester,
         approver |-> g.approver, executeAt |-> now + Hold]}
  /\ UNCHANGED <<stage, now, vault, collecting, pending, running, certifying,
                 snapshot, keystore, minted, requests, boots, certificates, cancelled>>

\* The audit append of the grant panics: the handler ends, the approval is spent.
GrantFails(g) ==
  /\ Up
  /\ granting' = granting \ {g}
  /\ UNCHANGED <<stage, now, vault, collecting, pending, scheduled, running, certifying,
                 snapshot, keystore, minted, requests, boots, certificates, cancelled>>

\* adminCancelErasure
Cancel(op, d) ==
  /\ Serving /\ canOperate(op)
  /\ scheduled' = scheduled \ {d}
  /\ cancelled' = cancelled \cup {d.id}
  /\ UNCHANGED <<stage, now, vault, collecting, pending, granting, running, certifying,
                 snapshot, keystore, minted, requests, boots, certificates>>

(***************************************************************************)
(* The ticker goroutine: RunDueShreds. Nothing stops it at shutdown.       *)
(***************************************************************************)
IsDue(d) == now >= d.executeAt

\* Faulty: the due erasures stay in the queue while they run.
DueKeeps ==
  /\ Up /\ running = {} /\ certifying = {}
  /\ \E d \in scheduled : IsDue(d)
  /\ running' = {d \in scheduled : IsDue(d) /\ \A c \in certificates : c.id # d.id}
  /\ UNCHANGED <<stage, now, vault, collecting, pending, granting, scheduled, certifying,
                 snapshot, keystore, minted, requests, boots, certificates, cancelled>>

\* Faulty: the queue is emptied of all due erasures, one of them runs.
DueDropsOthers ==
  /\ Up /\ running = {} /\ certifying = {}
  /\ \E d \in scheduled : IsDue(d) /\ running' = {d}
  /\ scheduled' = {d \in scheduled : ~IsDue(d)}
  /\ UNCHANGED <<stage, now, vault, collecting, pending, granting, certifying, snapshot,
                 keystore, minted, requests, boots, certificates, cancelled>>

\* Due returns and removes the erasures whose hold window has elapsed.
Due ==
  /\ Up /\ running = {} /\ certifying = {}
  /\ \E d \in scheduled : IsDue(d)
  /\ running' = {d \in scheduled : IsDue(d)}
  /\ scheduled' = scheduled \ running'
  /\ UNCHANGED <<stage, now, vault, collecting, pending, granting, certifying, snapshot,
                 keystore, minted, requests, boots, certificates, cancelled>>

\* Vault.Shred, in the order of the map iteration.
RunShred ==
  /\ Up /\ certifying = {}
  /\ \E d \in running :
       /\ running' = running \ {d}
       /\ vault' = Shred(vault, d.subject)
       /\ certifying' =
            {[erasure |-> d,
              key |-> IF d.subject \in Subjects THEN vault.keys[d.subject] ELSE NoKey]}
  /\ UNCHANGED <<stage, now, collecting, pending, granting, scheduled, snapshot,
                 keystore, minted, requests, boots, certificates, cancelled>>

\* emitErasureCertificate: erasure.completed with the key that existed, or
\* erasure.no_subject. If the append panics the process ends, as in Crash.
EmitCertificate ==
  /\ Up /\ certifying # {}
  /\ certificates' = certificates \cup certifying
  /\ certifying' = {}
  /\ UNCHANGED <<stage, now, vault, collecting, pending, granting, scheduled, running,
                 snapshot, keystore, minted, requests, boots, cancelled>>

(***************************************************************************)
(* Shutdown, crash, boot and the clock                                     *)
(***************************************************************************)
\* A signal: the listeners stop accepting, handlers in flight go on.
Drain ==
  /\ stage = "up"
  /\ stage' = "draining"
  /\ UNCHANGED <<now, vault, collecting, pending, granting, scheduled, running,
                 certifying, snapshot, keystore, minted, requests, boots,
                 certificates, cancelled>>

\* The drain ends or runs out of grace, and the arguments of SealKeys are built.
TakeSnapshot ==
  /\ stage = "draining"
  /\ stage' = "sealing"
  /\ snapshot' = vault
  /\ UNCHANGED <<now, vault, collecting, pending, granting, scheduled, running,
                 certifying, keystore, minted, requests, boots, certificates, cancelled>>

\* os.WriteFile truncates the keystore ...
BeginSeal ==
  /\ stage = "sealing"
  /\ stage' = "writing"
  /\ keystore' = TornFile
  /\ UNCHANGED <<now, vault, collecting, pending, granting, scheduled, running,
                 certifying, snapshot, minted, requests, boots, certificates, cancelled>>

\* What the end of the process takes with it.
Stopped ==
  /\ stage' = "down"
  /\ vault' = EmptyVault /\ snapshot' = EmptyVault
  /\ collecting' = {} /\ pending' = {} /\ granting' = {} /\ scheduled' = {}
  /\ running' = {} /\ certifying' = {}
  /\ UNCHANGED <<now, minted, requests, boots, certificates, cancelled>>

\* ... and fills it; main returns.
EndSeal ==
  /\ stage = "writing"
  /\ keystore' = snapshot
  /\ Stopped

\* A crash, a second signal, a seal that fails, or a panic in the ticker.
Crash ==
  /\ Up
  /\ Stopped
  /\ UNCHANGED keystore

\* LoadOrCreateKeys refuses a torn keystore and the process exits.
Boot ==
  /\ stage = "down" /\ keystore # TornFile
  /\ boots < MaxBoots
  /\ boots' = boots + 1
  /\ stage' = "up"
  /\ vault' = LoadVault(keystore)
  /\ UNCHANGED <<now, collecting, pending, granting, scheduled, running, certifying,
                 snapshot, keystore, minted, requests, certificates, cancelled>>

Tick ==
  /\ now < MaxTime
  /\ now' = now + 1
  /\ UNCHANGED <<stage, vault, collecting, pending, granting, scheduled, running,
                 certifying, snapshot, keystore, minted, requests, boots,
                 certificates, cancelled>>

Operators == RoleOperator \cup RoleApprover \cup RoleDPO

Next ==
  \/ \E s \in Subjects : Pseudonymize(s)
  \/ \E e \in collecting : LinkHandle(e)
  \/ \E op \in Operators, x \in Subjects \cup Handles : RequestErasure(op, x)
  \/ ListApprovals
  \/ \E op \in Operators, p \in pending : Approve(op, p)
  \/ \E g \in granting : Schedule(g) \/ GrantFails(g)
  \/ \E op \in Operators, d \in scheduled : Cancel(op, d)
  \/ Due \/ RunShred \/ EmitCertificate
  \/ Drain \/ TakeSnapshot \/ BeginSeal \/ EndSeal
  \/ Crash \/ Boot \/ Tick

\* Time passes, and the ticker goroutine runs as long as the process does.
Fairness == WF_vars(Tick) /\ WF_vars(Due) /\ WF_vars(RunShred) /\ WF_vars(EmitCertificate)

Spec == Init /\ [][Next]_vars /\ Fairness

(***************************************************************************)
(* Properties                                                              *)
(***************************************************************************)
Vaults == [keys : [Subjects -> Nat], index : SUBSET (Nat \X Subjects),
           shredded : SUBSET (Subjects \cup Nat)]

Pendings == [id : Nat, subject : Subjects \cup Nat, requester : Operators, created : Nat]

Grants == [id : Nat, subject : Subjects \cup Nat, requester : Operators,
           approver : Operators]

Shreds == [id : Nat, subject : Subjects \cup Nat, requester : Operators,
           approver : Operators, executeAt : Nat]

Certificates == [erasure : Shreds, key : Nat]

\* Every variable has the shape of the Go value it stands for; the ticker has at
\* most one certificate in hand.
TypeOK ==
  /\ stage \in {"up", "draining", "sealing", "writing", "down"}
  /\ now \in Nat /\ minted \in Nat /\ requests \in Nat /\ boots \in Nat
  /\ vault \in Vaults /\ snapshot \in Vaults /\ keystore \in Vaults \cup {TornFile}
  /\ collecting \subseteq Nat \X Subjects
  /\ pending \subseteq Pendings /\ granting \subseteq Grants
  /\ scheduled \subseteq Shreds /\ running \subseteq Shreds
  /\ certifying \subseteq Certificates /\ certificates \subseteq Certificates
  /\ Cardinality(certifying) <= 1
  /\ cancelled \subseteq Nat

\* A vault can re-identify only with a live key: a tombstoned subject has neither
\* key nor handle, and every handle of the index belongs to the key its subject
\* holds now. In particular a collect handler caught between Pseudonymize and Link
\* by the shred does not bring the subject back (Vault.Link, Vault.Shred).
Unlinkable(v) ==
  /\ \A s \in v.shredded \cap Subjects : v.keys[s] = NoKey
  /\ \A e \in v.index : e[1] # NoKey /\ v.keys[e[2]] = e[1]

\* The running vault, the copy the shutdown seals and the sealed one are such.
ErasedIsUnlinkable ==
  /\ Unlinkable(vault) /\ Unlinkable(snapshot)
  /\ keystore # TornFile => Unlinkable(keystore)

\* Every erasure that is queued, running or done was approved by a DPO other than
\* its requester; none runs before its hold window is over; and an acknowledged
\* cancellation holds, whatever the ticker was doing (Approve, Due, Cancel).
ErasureIsDeliberate ==
  LET started == running \cup {c.erasure : c \in certifying \cup certificates}
  IN /\ \A d \in scheduled \cup started :
          d.approver \in RoleDPO /\ d.approver # d.requester
     /\ \A d \in started : IsDue(d) /\ d.id \notin cancelled

\* A sealed tombstone outlives every restart: the running vault still has it, so
\* the subject never gets a key again, and the next keystore will have it too
\* (Snapshot, LoadVault, subjectKey).
TombstonesPersist ==
  keystore # TornFile =>
    \A s \in keystore.shredded \cap Subjects :
      /\ vault.keys[s] = NoKey
      /\ Up => s \in vault.shredded
      /\ stage = "sealing" => s \in snapshot.shredded

\* An erasure in its hold window is certified or cancelled unless the process
\* stops first: neither side of the Due/Cancel race drops it.
ErasureCompletes ==
  \A i \in 1..MaxRequests :
    (\E d \in scheduled : d.id = i) ~>
      \/ i \in cancelled
      \/ \E c \in certificates : c.erasure.id = i
      \/ ~Serving

\* "Destroying the per-subject linkage key cannot be undone, and there is no
\* recovery path once the shred commits" (docs/runbooks/erasure-crypto-shred.md):
\* a key an erasure certificate reports destroyed is never in the vault again.
ErasureIrreversible ==
  \A c \in certificates : c.key # NoKey => \A s \in Subjects : vault.keys[s] # c.key
==============================================================================
