---------------------------- MODULE ErasureProofs ----------------------------
(* The erasure of the Gate for any set of subjects and operators, any hold     *)
(* window and any number of requests, restarts and collect handlers: the types,*)
(* the unlinkability of what was erased, the survival of tombstones and the    *)
(* dual control behind every shred.                                            *)
EXTENDS Erasure, FiniteSetTheorems, TLAPS

-----------------------------------------------------------------------------
(* Types *)

\* The ticker has no certificate in hand, or one.
OneInHand == certifying = {} \/ \E c \in Certificates : certifying = {c}

ETypes == TypeOK /\ OneInHand

LEMMA EmptyVaultType == EmptyVault \in Vaults
  BY Zenon DEF EmptyVault, Vaults, NoKey

LEMMA HandlesNat == Handles \subseteq Nat
  BY ConstantsAssumption DEF Handles

\* What adminErasure resolves a handle to is a subject, or the handle itself.
LEMMA ResolveType ==
  ASSUME NEW v, NEW x \in Subjects \cup Nat PROVE Resolve(v, x) \in Subjects \cup Nat
  BY Zenon DEF Resolve

LEMMA ShredType ==
  ASSUME NEW v \in Vaults, NEW s \in Subjects \cup Nat PROVE Shred(v, s) \in Vaults
  BY Zenon DEF Shred, Vaults, NoKey

LEMMA LinkType ==
  ASSUME NEW v \in Vaults, NEW h \in Nat, NEW s \in Subjects PROVE Link(v, h, s) \in Vaults
  BY DEF Link, Vaults

\* A certificate in hand is one element, whatever it says.
LEMMA InHandBound == OneInHand => Cardinality(certifying) <= 1
<1>1. \A x : Cardinality({x}) = 1
  BY FS_Singleton, Zenon
<1>2. OneInHand => Cardinality(certifying) = 0 \/ Cardinality(certifying) = 1
  BY <1>1, FS_EmptySet, Zenon DEF OneInHand
<1> QED
  BY <1>2

LEMMA InitTypes == Init => ETypes
<1> SUFFICES ASSUME Init PROVE ETypes
  BY Zenon
<1>1. OneInHand
  BY Zenon DEF Init, OneInHand
<1> QED
  BY <1>1, InHandBound, EmptyVaultType, Zenon DEF Init, ETypes, TypeOK

\* The steps of the collect handlers keep the types.
LEMMA CollectTypes ==
  ASSUME ETypes, (\E s \in Subjects : Pseudonymize(s)) \/ (\E e \in collecting : LinkHandle(e))
  PROVE  TypeOK' /\ UNCHANGED certifying
<1>1. ASSUME NEW s \in Subjects, Pseudonymize(s) PROVE TypeOK' /\ UNCHANGED certifying
  <2>1. vault' \in Vaults /\ minted' \in Nat
    BY <1>1 DEF Pseudonymize, ETypes, TypeOK, Vaults
  <2>2. vault'.keys[s] \in Nat
    BY <2>1, Zenon DEF Vaults
  <2>3. collecting' \subseteq Nat \X Subjects
    BY <1>1, <2>2 DEF Pseudonymize, ETypes, TypeOK
  <2> QED
    BY <1>1, <2>1, <2>3, Zenon DEF Pseudonymize, ETypes, TypeOK
<1>2. ASSUME NEW e \in collecting, LinkHandle(e) PROVE TypeOK' /\ UNCHANGED certifying
  <2>1. vault' \in Vaults
    BY <1>2, LinkType, Zenon DEF LinkHandle, ETypes, TypeOK
  <2> QED
    BY <1>2, <2>1, Zenon DEF LinkHandle, ETypes, TypeOK
<1> QED
  BY <1>1, <1>2, Zenon

\* The steps of the admin plane keep the types.
LEMMA AdminTypes ==
  ASSUME ETypes,
         \/ \E op \in Operators, x \in Subjects \cup Handles : RequestErasure(op, x)
         \/ ListApprovals
         \/ \E op \in Operators, p \in pending : Approve(op, p)
         \/ \E g \in granting : Schedule(g) \/ GrantFails(g)
         \/ \E op \in Operators, d \in scheduled : Cancel(op, d)
  PROVE  TypeOK' /\ UNCHANGED certifying
<1> USE DEF ETypes
<1>0. Unexpired \subseteq Pendings
  BY Zenon DEF Unexpired, TypeOK
<1>1. ASSUME NEW op \in Operators, NEW x \in Subjects \cup Handles, RequestErasure(op, x)
      PROVE  TypeOK' /\ UNCHANGED certifying
  <2>1. Resolve(vault, x) \in Subjects \cup Nat
    BY ResolveType, HandlesNat, Zenon
  <2>2. pending' \subseteq Pendings /\ requests' \in Nat
    BY <1>0, <1>1, <2>1 DEF RequestErasure, TypeOK, Pendings
  <2> QED
    BY <1>1, <2>2, Zenon DEF RequestErasure, TypeOK
<1>2. CASE ListApprovals
  BY <1>0, <1>2, Zenon DEF ListApprovals, TypeOK
<1>3. ASSUME NEW op \in Operators, NEW p \in pending, Approve(op, p)
      PROVE  TypeOK' /\ UNCHANGED certifying
  <2>1. p \in Pendings
    BY Zenon DEF TypeOK
  <2>2. granting' \subseteq Grants
    BY <1>3, <2>1 DEF Approve, TypeOK, Grants, Pendings
  <2> QED
    BY <1>3, <2>2, Zenon DEF Approve, TypeOK
<1>4. ASSUME NEW g \in granting, Schedule(g) PROVE TypeOK' /\ UNCHANGED certifying
  <2>1. g \in Grants /\ now + Hold \in Nat
    BY ConstantsAssumption DEF TypeOK
  <2>2. scheduled' \subseteq Shreds
    BY <1>4, <2>1 DEF Schedule, TypeOK, Grants, Shreds
  <2> QED
    BY <1>4, <2>2, Zenon DEF Schedule, TypeOK
<1>5. ASSUME NEW g \in granting, GrantFails(g) PROVE TypeOK' /\ UNCHANGED certifying
  BY <1>5, Zenon DEF GrantFails, TypeOK
<1>6. ASSUME NEW op \in Operators, NEW d \in scheduled, Cancel(op, d)
      PROVE  TypeOK' /\ UNCHANGED certifying
  <2>1. d.id \in Nat
    BY Zenon DEF TypeOK, Shreds
  <2> QED
    BY <1>6, <2>1, Zenon DEF Cancel, TypeOK
<1> QED
  BY <1>1, <1>2, <1>3, <1>4, <1>5, <1>6, Zenon

\* The steps of the ticker keep the types and hold at most one certificate.
LEMMA TickerTypes ==
  ASSUME ETypes, Due \/ RunShred \/ EmitCertificate PROVE ETypes'
<1> USE DEF ETypes
<1>1. CASE Due
  <2>1. OneInHand'
    BY <1>1, Zenon DEF Due, OneInHand
  <2> QED
    BY <1>1, <2>1, Zenon DEF Due, TypeOK
<1>2. CASE RunShred
  <2>1. PICK d \in running :
          /\ running' = running \ {d}
          /\ vault' = Shred(vault, d.subject)
          /\ certifying' = {[erasure |-> d, key |-> IF d.subject \in Subjects THEN vault.keys[d.subject] ELSE NoKey]}
    BY <1>2, Zenon DEF RunShred
  <2>2. d \in Shreds /\ d.subject \in Subjects \cup Nat
    BY Zenon DEF TypeOK, Shreds
  <2>3. [erasure |-> d, key |-> IF d.subject \in Subjects THEN vault.keys[d.subject] ELSE NoKey] \in Certificates
    BY <2>2, Zenon DEF TypeOK, Vaults, Certificates, NoKey
  <2>4. OneInHand' /\ certifying' \subseteq Certificates
    BY <2>1, <2>3, Zenon DEF OneInHand
  <2>5. Cardinality(certifying') <= 1
    <3>1. Cardinality(certifying') = 1
      BY <2>1, FS_Singleton, Zenon
    <3> QED
      BY <3>1
  <2>6. vault' \in Vaults
    BY <2>1, <2>2, ShredType, Zenon DEF TypeOK
  <2> QED
    BY <1>2, <2>1, <2>4, <2>5, <2>6, Zenon DEF RunShred, TypeOK
<1>3. CASE EmitCertificate
  <2>1. OneInHand' /\ Cardinality(certifying') <= 1
    BY <1>3, FS_EmptySet DEF EmitCertificate, OneInHand
  <2> QED
    BY <1>3, <2>1, Zenon DEF EmitCertificate, TypeOK
<1> QED
  BY <1>1, <1>2, <1>3, Zenon

\* Shutdown, crash, boot and the clock keep the types.
LEMMA ProcessTypes ==
  ASSUME ETypes, Drain \/ TakeSnapshot \/ BeginSeal \/ EndSeal \/ Crash \/ Boot \/ Tick
  PROVE  ETypes'
<1> USE DEF ETypes
<1>1. CASE Drain \/ TakeSnapshot \/ BeginSeal \/ Tick
  <2>1. OneInHand'
    BY <1>1, Zenon DEF Drain, TakeSnapshot, BeginSeal, Tick, OneInHand
  <2>2. CASE Drain
    BY <2>1, <2>2, Zenon DEF Drain, TypeOK
  <2>3. CASE TakeSnapshot
    BY <2>1, <2>3, Zenon DEF TakeSnapshot, TypeOK
  <2>4. CASE BeginSeal
    BY <2>1, <2>4, Zenon DEF BeginSeal, TypeOK
  <2>5. CASE Tick
    BY <2>1, <2>5 DEF Tick, TypeOK
  <2> QED
    BY <1>1, <2>2, <2>3, <2>4, <2>5, Zenon
<1>2. CASE EndSeal \/ Crash
  <2>1. Stopped /\ keystore' \in Vaults \cup {TornFile}
    BY <1>2, Zenon DEF EndSeal, Crash, TypeOK
  <2>2. OneInHand' /\ Cardinality(certifying') <= 1
    BY <2>1, FS_EmptySet DEF Stopped, OneInHand
  <2> QED
    BY <2>1, <2>2, EmptyVaultType, Zenon DEF Stopped, TypeOK
<1>3. CASE Boot
  <2>1. vault' \in Vaults
    BY <1>3, Zenon DEF Boot, LoadVault, TypeOK, Vaults
  <2>2. OneInHand' /\ boots' \in Nat
    BY <1>3 DEF Boot, OneInHand, TypeOK
  <2> QED
    BY <1>3, <2>1, <2>2, Zenon DEF Boot, TypeOK
<1> QED
  BY <1>1, <1>2, <1>3, Zenon

\* Every variable keeps the shape of the Go value it stands for, and RunDueShreds
\* has at most one certificate in hand.
THEOREM ErasureTypes == Spec => []TypeOK
<1>1. ETypes /\ [Next]_vars => ETypes'
  <2> SUFFICES ASSUME ETypes, [Next]_vars PROVE ETypes'
    BY Zenon
  <2>1. ASSUME TypeOK', UNCHANGED certifying PROVE ETypes'
    BY <2>1, Zenon DEF ETypes, OneInHand
  <2>2. CASE (\E s \in Subjects : Pseudonymize(s)) \/ (\E e \in collecting : LinkHandle(e))
    BY <2>1, <2>2, CollectTypes, Zenon
  <2>3. CASE \/ \E op \in Operators, x \in Subjects \cup Handles : RequestErasure(op, x)
             \/ ListApprovals
             \/ \E op \in Operators, p \in pending : Approve(op, p)
             \/ \E g \in granting : Schedule(g) \/ GrantFails(g)
             \/ \E op \in Operators, d \in scheduled : Cancel(op, d)
    BY <2>1, <2>3, AdminTypes, Zenon
  <2>4. CASE Due \/ RunShred \/ EmitCertificate
    BY <2>4, TickerTypes, Zenon
  <2>5. CASE Drain \/ TakeSnapshot \/ BeginSeal \/ EndSeal \/ Crash \/ Boot \/ Tick
    BY <2>5, ProcessTypes, Zenon
  <2>6. CASE UNCHANGED vars
    BY <2>6, Zenon DEF vars, ETypes, TypeOK, OneInHand
  <2> QED
    BY <2>2, <2>3, <2>4, <2>5, <2>6, Zenon DEF Next
<1>2. ETypes => TypeOK
  BY Zenon DEF ETypes
<1> QED
  BY InitTypes, <1>1, <1>2, PTL DEF Spec

-----------------------------------------------------------------------------
(* Unlinkability and tombstones *)

\* A collect handler between Pseudonymize and Link holds the key its subject has
\* now, unless the subject was erased meanwhile.
HandlersCurrent ==
  \A e \in collecting : e[1] # NoKey /\ (e[2] \in vault.shredded \/ vault.keys[e[2]] = e[1])

\* A process that is down holds nothing, and one that is writing the keystore has
\* truncated it.
DownIsEmpty ==
  /\ ~Up => vault = EmptyVault /\ collecting = {}
  /\ stage = "writing" => keystore = TornFile

VaultInv == ErasedIsUnlinkable /\ TombstonesPersist /\ HandlersCurrent /\ DownIsEmpty

LEMMA EmptyUnlinkable == Unlinkable(EmptyVault)
  BY Zenon DEF Unlinkable, EmptyVault

\* A shred leaves an unlinkable vault: key, handles and tombstone change at once.
LEMMA ShredUnlinkable ==
  ASSUME NEW v \in Vaults, NEW s \in Subjects \cup Nat, Unlinkable(v)
  PROVE  Unlinkable(Shred(v, s))
  BY Zenon DEF Unlinkable, Shred, Vaults, NoKey

\* Linking the key the subject holds leaves an unlinkable vault.
LEMMA LinkUnlinkable ==
  ASSUME NEW v \in Vaults, NEW h \in Nat, NEW s \in Subjects, Unlinkable(v),
         h # NoKey, s \in v.shredded \/ v.keys[s] = h
  PROVE  Unlinkable(Link(v, h, s))
  BY DEF Unlinkable, Link, Vaults, NoKey

LEMMA VaultInit == Init => VaultInv
<1> SUFFICES ASSUME Init PROVE VaultInv
  BY Zenon
<1>1. ErasedIsUnlinkable
  BY EmptyUnlinkable, Zenon DEF Init, ErasedIsUnlinkable
<1>2. TombstonesPersist /\ HandlersCurrent /\ DownIsEmpty
  BY Zenon DEF Init, TombstonesPersist, HandlersCurrent, DownIsEmpty, EmptyVault, Up
<1> QED
  BY <1>1, <1>2, Zenon DEF VaultInv

\* A fresh key goes to a subject that had none, so no handle in flight and no
\* entry of the index belongs to it.
LEMMA PseudonymizeVault ==
  ASSUME TypeOK, VaultInv, NEW s \in Subjects, Pseudonymize(s) PROVE VaultInv'
<1> USE DEF VaultInv
<1>1. /\ vault'.shredded = vault.shredded /\ vault'.index = vault.index
      /\ \A t \in Subjects : t # s => vault'.keys[t] = vault.keys[t]
      /\ vault'.keys[s] # NoKey
      /\ vault.keys[s] # NoKey => vault'.keys[s] = vault.keys[s]
  BY DEF Pseudonymize, TypeOK, Vaults, NoKey
<1>2. Unlinkable(vault')
  BY <1>1 DEF Pseudonymize, ErasedIsUnlinkable, Unlinkable, TypeOK, Vaults
<1>3. HandlersCurrent'
  BY <1>1 DEF Pseudonymize, HandlersCurrent, TypeOK
<1>4. TombstonesPersist'
  BY <1>1, Zenon DEF Pseudonymize, TombstonesPersist, Serving, Up
<1> QED
  BY <1>2, <1>3, <1>4, Zenon DEF Pseudonymize, ErasedIsUnlinkable, DownIsEmpty, Serving, Up

\* Link stores a handle only for the key the subject still holds.
LEMMA LinkVault ==
  ASSUME TypeOK, VaultInv, NEW e \in collecting, LinkHandle(e) PROVE VaultInv'
<1> USE DEF VaultInv
<1>1. e[1] \in Nat /\ e[2] \in Subjects /\ vault \in Vaults
  BY Zenon DEF TypeOK
<1>2. Unlinkable(vault')
  BY <1>1, LinkUnlinkable, Zenon DEF LinkHandle, HandlersCurrent, ErasedIsUnlinkable
<1>3. vault'.keys = vault.keys /\ vault'.shredded = vault.shredded
  BY <1>1, Zenon DEF LinkHandle, Link, Vaults
<1>4. HandlersCurrent' /\ TombstonesPersist'
  BY <1>3, Zenon DEF LinkHandle, HandlersCurrent, TombstonesPersist, Up
<1> QED
  BY <1>2, <1>4, Zenon DEF LinkHandle, ErasedIsUnlinkable, DownIsEmpty, Up

\* A shred during a collect leaves the handler a handle that Link will ignore.
LEMMA ShredVault ==
  ASSUME TypeOK, VaultInv, RunShred PROVE VaultInv'
<1> USE DEF VaultInv
<1>1. PICK d \in running : vault' = Shred(vault, d.subject)
  BY Zenon DEF RunShred
<1>2. d.subject \in Subjects \cup Nat /\ vault \in Vaults
  BY Zenon DEF TypeOK, Shreds
<1>3. Unlinkable(vault')
  BY <1>1, <1>2, ShredUnlinkable, Zenon DEF ErasedIsUnlinkable
<1>4. /\ vault.shredded \subseteq vault'.shredded
      /\ \A t \in Subjects : vault'.keys[t] = vault.keys[t] \/ (vault'.keys[t] = NoKey /\ t \in vault'.shredded)
  BY <1>1, <1>2, Zenon DEF Shred, Vaults
<1>5. HandlersCurrent'
  BY <1>4, Zenon DEF RunShred, HandlersCurrent, TypeOK
<1>6. TombstonesPersist'
  BY <1>4, Zenon DEF RunShred, TombstonesPersist, Up
<1> QED
  BY <1>3, <1>5, <1>6, Zenon DEF RunShred, ErasedIsUnlinkable, DownIsEmpty, Up

\* Shutdown copies and seals an unlinkable vault; a boot restores one.
LEMMA ProcessVault ==
  ASSUME TypeOK, VaultInv, Drain \/ TakeSnapshot \/ BeginSeal \/ EndSeal \/ Crash \/ Boot
  PROVE  VaultInv'
<1> USE DEF VaultInv
<1>1. CASE Drain
  BY <1>1, Zenon DEF Drain, ErasedIsUnlinkable, TombstonesPersist, HandlersCurrent, DownIsEmpty, Up
<1>2. CASE TakeSnapshot
  BY <1>2, Zenon DEF TakeSnapshot, ErasedIsUnlinkable, TombstonesPersist, HandlersCurrent, DownIsEmpty, Up
<1>3. CASE BeginSeal
  BY <1>3, Zenon DEF BeginSeal, ErasedIsUnlinkable, TombstonesPersist, HandlersCurrent, DownIsEmpty, Up
<1>4. CASE EndSeal \/ Crash
  <2>1. Stopped /\ (keystore' = snapshot \/ keystore' = keystore)
    BY <1>4, Zenon DEF EndSeal, Crash
  <2>2. ErasedIsUnlinkable'
    BY <2>1, EmptyUnlinkable, Zenon DEF Stopped, ErasedIsUnlinkable
  <2>3. TombstonesPersist' /\ HandlersCurrent' /\ DownIsEmpty'
    BY <2>1, Zenon DEF Stopped, TombstonesPersist, HandlersCurrent, DownIsEmpty, EmptyVault, Up
  <2> QED
    BY <2>2, <2>3, Zenon
<1>5. CASE Boot
  <2>1. keystore \in Vaults /\ vault' = keystore /\ keystore # TornFile
    BY <1>5, Zenon DEF Boot, LoadVault, TypeOK, Vaults
  <2>2. ErasedIsUnlinkable'
    BY <1>5, <2>1, Zenon DEF Boot, ErasedIsUnlinkable
  <2>3. TombstonesPersist'
    BY <1>5, <2>1, Zenon DEF Boot, TombstonesPersist, ErasedIsUnlinkable, Unlinkable
  <2>4. HandlersCurrent' /\ DownIsEmpty'
    BY <1>5, Zenon DEF Boot, HandlersCurrent, DownIsEmpty, Up
  <2> QED
    BY <2>2, <2>3, <2>4, Zenon
<1> QED
  BY <1>1, <1>2, <1>3, <1>4, <1>5, Zenon

\* Every other step leaves the vault, its copies and the handlers alone.
LEMMA OtherVault ==
  ASSUME VaultInv, UNCHANGED <<stage, vault, snapshot, keystore, collecting>> PROVE VaultInv'
  BY Zenon DEF VaultInv, ErasedIsUnlinkable, TombstonesPersist, HandlersCurrent, DownIsEmpty, Up

LEMMA VaultNext == TypeOK /\ VaultInv /\ [Next]_vars => VaultInv'
<1> SUFFICES ASSUME TypeOK, VaultInv, [Next]_vars PROVE VaultInv'
  BY Zenon
<1>1. CASE \E s \in Subjects : Pseudonymize(s)
  BY <1>1, PseudonymizeVault, Zenon
<1>2. CASE \E e \in collecting : LinkHandle(e)
  BY <1>2, LinkVault, Zenon
<1>3. CASE \/ \E op \in Operators, x \in Subjects \cup Handles : RequestErasure(op, x)
           \/ ListApprovals
           \/ \E op \in Operators, p \in pending : Approve(op, p)
           \/ \E g \in granting : Schedule(g) \/ GrantFails(g)
           \/ \E op \in Operators, d \in scheduled : Cancel(op, d)
  BY <1>3, OtherVault, Zenon DEF RequestErasure, ListApprovals, Approve, Schedule, GrantFails, Cancel
<1>4. CASE Due \/ EmitCertificate \/ Tick \/ UNCHANGED vars
  BY <1>4, OtherVault, Zenon DEF Due, EmitCertificate, Tick, vars
<1>5. CASE RunShred
  BY <1>5, ShredVault, Zenon
<1>6. CASE Drain \/ TakeSnapshot \/ BeginSeal \/ EndSeal \/ Crash \/ Boot
  BY <1>6, ProcessVault, Zenon
<1> QED
  BY <1>1, <1>2, <1>3, <1>4, <1>5, <1>6, Zenon DEF Next

LEMMA VaultAlways == Spec => []VaultInv
  BY VaultInit, VaultNext, ErasureTypes, PTL DEF Spec

\* Whatever collect handlers, shreds, shutdowns, crashes and boots interleave, the
\* running vault, the copy being sealed and the sealed one re-identify only with a
\* key the subject holds, and an erased subject holds none (Vault.Link, Vault.Shred).
THEOREM ErasureUnlinkable == Spec => []ErasedIsUnlinkable
<1>1. VaultInv => ErasedIsUnlinkable
  BY Zenon DEF VaultInv
<1> QED
  BY VaultAlways, <1>1, PTL

\* A tombstone that was sealed once outlives every later restart, crash and seal
\* (Snapshot, LoadVault, subjectKey).
THEOREM TombstonesSurvive == Spec => []TombstonesPersist
<1>1. VaultInv => TombstonesPersist
  BY Zenon DEF VaultInv
<1> QED
  BY VaultAlways, <1>1, PTL

-----------------------------------------------------------------------------
(* Dual control and cancellation.  An erasure is in one place at a time: its   *)
(* number is in at most one of the approval store, the approve handlers, the   *)
(* queue and what the ticker took out of it, and a cancelled number is in none.*)

Started == running \cup {c.erasure : c \in certifying \cup certificates}

Apart(S, T) == \A x \in S, y \in T : x.id # y.id
Single(S) == \A x, y \in S : x.id = y.id => x = y
Uncancelled(S) == \A x \in S : x.id <= requests /\ x.id \notin cancelled
Deliberate(S) == \A d \in S : d.approver \in RoleDPO /\ d.approver # d.requester

QueueInv ==
  /\ Uncancelled(pending) /\ Uncancelled(granting) /\ Uncancelled(scheduled) /\ Uncancelled(Started)
  /\ \A i \in cancelled : i <= requests
  /\ Single(pending) /\ Single(granting) /\ Single(scheduled)
  /\ Apart(pending, granting) /\ Apart(pending, scheduled) /\ Apart(pending, Started)
  /\ Apart(granting, scheduled) /\ Apart(granting, Started) /\ Apart(scheduled, Started)
  /\ Deliberate(granting) /\ Deliberate(scheduled) /\ Deliberate(Started)
  /\ \A d \in Started : IsDue(d)

LEMMA QueueInit == Init => QueueInv
  BY Zenon DEF Init, QueueInv, Started, Apart, Single, Uncancelled, Deliberate

LEMMA StartedType == TypeOK => Started \subseteq Shreds
  BY Zenon DEF TypeOK, Started, Certificates

\* A request takes a number nobody has.
LEMMA RequestQueue ==
  ASSUME TypeOK, QueueInv, NEW op \in Operators, NEW x \in Subjects \cup Handles, RequestErasure(op, x)
  PROVE  QueueInv'
<1> DEFINE new == [id |-> requests + 1, subject |-> Resolve(vault, x), requester |-> op, created |-> now]
<1>1. /\ pending' = Unexpired \cup {new} /\ Unexpired \subseteq pending /\ new.id = requests + 1
      /\ requests' = requests + 1
      /\ UNCHANGED <<now, granting, scheduled, running, certifying, certificates, cancelled>>
  BY Zenon DEF RequestErasure, Unexpired
<1>2. Started' = Started
  BY <1>1, Zenon DEF Started
<1> HIDE DEF new
<1>3. requests \in Nat /\ cancelled \subseteq Nat
      /\ \A y \in pending \cup granting \cup scheduled \cup Started : y.id \in Nat
  BY StartedType, Zenon DEF TypeOK, Pendings, Grants, Shreds
<1>4. \A y \in pending \cup granting \cup scheduled \cup Started : y.id <= requests /\ y.id # new.id
  BY <1>1, <1>3 DEF QueueInv, Uncancelled
<1>5. new.id \notin cancelled /\ (\A i \in cancelled : i <= requests')
  BY <1>1, <1>3 DEF QueueInv
<1>6. /\ Uncancelled(pending)' /\ Uncancelled(granting)' /\ Uncancelled(scheduled)' /\ Uncancelled(Started)'
  BY <1>1, <1>2, <1>3, <1>4, <1>5 DEF QueueInv, Uncancelled
<1>7. Single(pending)'
  BY <1>1, <1>4, Zenon DEF QueueInv, Single
<1>8. Apart(pending, granting)' /\ Apart(pending, scheduled)' /\ Apart(pending, Started)'
  BY <1>1, <1>2, <1>4, Zenon DEF QueueInv, Apart
<1>9. /\ Single(granting)' /\ Single(scheduled)'
      /\ Apart(granting, scheduled)' /\ Apart(granting, Started)' /\ Apart(scheduled, Started)'
      /\ Deliberate(granting)' /\ Deliberate(scheduled)' /\ Deliberate(Started)'
      /\ \A d \in Started' : IsDue(d)'
  BY <1>1, <1>2, Zenon DEF QueueInv, Single, Apart, Deliberate, IsDue
<1> QED
  BY <1>1, <1>5, <1>6, <1>7, <1>8, <1>9, Zenon DEF QueueInv

\* Approve moves a number from the store to its handler, for a DPO who did not
\* ask for the erasure.
LEMMA ApproveQueue ==
  ASSUME TypeOK, QueueInv, NEW op \in Operators, NEW p \in pending, Approve(op, p)
  PROVE  QueueInv'
<1>1. /\ pending' = pending \ {p}
      /\ UNCHANGED <<now, requests, scheduled, running, certifying, certificates, cancelled>>
  BY Zenon DEF Approve
<1>2. Started' = Started
  BY <1>1, Zenon DEF Started
<1>3. \A y \in pending' : y \in pending /\ y.id # p.id
  BY <1>1, Zenon DEF QueueInv, Single
<1>4. \A g \in granting' : \/ g \in granting
                           \/ g.id = p.id /\ g.approver \in RoleDPO /\ g.approver # g.requester
  BY DEF Approve, hasRoleDPO
<1>5. Single(granting)'
  <2>1. CASE granting' = granting
    BY <2>1, Zenon DEF QueueInv, Single
  <2>2. CASE granting' # granting
    <3>1. PICK g : granting' = granting \cup {g} /\ g.id = p.id
      BY <2>2 DEF Approve
    <3>2. \A y \in granting : y.id # p.id
      BY Zenon DEF QueueInv, Apart
    <3> QED
      BY <3>1, <3>2, Zenon DEF QueueInv, Single
  <2> QED
    BY <2>1, <2>2, Zenon
<1>6. /\ Uncancelled(pending)' /\ Uncancelled(granting)' /\ Uncancelled(scheduled)' /\ Uncancelled(Started)'
      /\ Deliberate(granting)' /\ Deliberate(scheduled)' /\ Deliberate(Started)'
  BY <1>1, <1>2, <1>3, <1>4, Zenon DEF QueueInv, Uncancelled, Deliberate
<1>7. /\ Apart(pending, granting)' /\ Apart(granting, scheduled)' /\ Apart(granting, Started)'
  BY <1>1, <1>2, <1>3, <1>4, Zenon DEF QueueInv, Apart
<1>8. /\ Single(pending)' /\ Single(scheduled)'
      /\ Apart(pending, scheduled)' /\ Apart(pending, Started)' /\ Apart(scheduled, Started)'
      /\ \A i \in cancelled' : i <= requests'
      /\ \A d \in Started' : IsDue(d)'
  BY <1>1, <1>2, <1>3, Zenon DEF QueueInv, Single, Apart, IsDue
<1> QED
  BY <1>5, <1>6, <1>7, <1>8, Zenon DEF QueueInv

\* Schedule moves a number from its handler to the queue.
LEMMA ScheduleQueue ==
  ASSUME TypeOK, QueueInv, NEW g \in granting, Schedule(g)
  PROVE  QueueInv'
<1> DEFINE d == [id |-> g.id, subject |-> g.subject, requester |-> g.requester,
                 approver |-> g.approver, executeAt |-> now + Hold]
<1>1. /\ granting' = granting \ {g} /\ scheduled' = scheduled \cup {d}
      /\ d.id = g.id /\ d.approver = g.approver /\ d.requester = g.requester
      /\ UNCHANGED <<now, requests, pending, running, certifying, certificates, cancelled>>
  BY Zenon DEF Schedule
<1> HIDE DEF d
<1>2. Started' = Started
  BY <1>1, Zenon DEF Started
<1>3. \A y \in granting' : y \in granting /\ y.id # d.id
  BY <1>1, Zenon DEF QueueInv, Single
<1>4. Single(scheduled)'
  <2>1. \A y \in scheduled : y.id # d.id
    BY <1>1, Zenon DEF QueueInv, Apart
  <2> QED
    BY <1>1, <2>1, Zenon DEF QueueInv, Single
<1>5. /\ Uncancelled(pending)' /\ Uncancelled(granting)' /\ Uncancelled(scheduled)' /\ Uncancelled(Started)'
      /\ Deliberate(granting)' /\ Deliberate(scheduled)' /\ Deliberate(Started)'
  BY <1>1, <1>2, Zenon DEF QueueInv, Uncancelled, Deliberate
<1>6. Apart(pending, scheduled)' /\ Apart(granting, scheduled)' /\ Apart(scheduled, Started)'
  BY <1>1, <1>2, <1>3 DEF QueueInv, Apart
<1>7. /\ Single(pending)' /\ Single(granting)'
      /\ Apart(pending, granting)' /\ Apart(pending, Started)' /\ Apart(granting, Started)'
      /\ \A i \in cancelled' : i <= requests'
      /\ \A e \in Started' : IsDue(e)'
  BY <1>1, <1>2, <1>3, ZenonT(30) DEF QueueInv, Single, Apart, IsDue
<1> QED
  BY <1>4, <1>5, <1>6, <1>7, Zenon DEF QueueInv

\* A cancellation takes the only erasure of its number out of the queue.
LEMMA CancelQueue ==
  ASSUME TypeOK, QueueInv, NEW op \in Operators, NEW d \in scheduled, Cancel(op, d)
  PROVE  QueueInv'
<1>1. /\ scheduled' = scheduled \ {d} /\ cancelled' = cancelled \cup {d.id}
      /\ UNCHANGED <<now, requests, pending, granting, running, certifying, certificates>>
  BY Zenon DEF Cancel
<1>2. Started' = Started
  BY <1>1, Zenon DEF Started
<1>3. \A y \in pending \cup granting \cup scheduled' \cup Started : y.id # d.id
  BY <1>1, Zenon DEF QueueInv, Apart, Single
<1>4. /\ Uncancelled(pending)' /\ Uncancelled(granting)' /\ Uncancelled(scheduled)' /\ Uncancelled(Started)'
      /\ \A i \in cancelled' : i <= requests'
  BY <1>1, <1>2, <1>3, Zenon DEF QueueInv, Uncancelled
<1>5. /\ Single(pending)' /\ Single(granting)' /\ Single(scheduled)'
      /\ Apart(pending, granting)' /\ Apart(pending, scheduled)' /\ Apart(pending, Started)'
      /\ Apart(granting, scheduled)' /\ Apart(granting, Started)' /\ Apart(scheduled, Started)'
  BY <1>1, <1>2, Zenon DEF QueueInv, Single, Apart
<1>6. /\ Deliberate(granting)' /\ Deliberate(scheduled)' /\ Deliberate(Started)'
      /\ \A e \in Started' : IsDue(e)'
  BY <1>1, <1>2, Zenon DEF QueueInv, Deliberate, IsDue
<1> QED
  BY <1>4, <1>5, <1>6, Zenon DEF QueueInv

\* Due moves whole erasures whose hold window is over from the queue to the ticker.
LEMMA DueQueue ==
  ASSUME TypeOK, QueueInv, Due PROVE QueueInv'
<1>1. /\ scheduled' \subseteq scheduled
      /\ \A d \in running' : d \in scheduled /\ d \notin scheduled' /\ IsDue(d)
      /\ UNCHANGED <<now, requests, pending, granting, certifying, certificates, cancelled>>
  BY Zenon DEF Due
<1>2. \A d \in Started' : d \in Started \/ (d \in scheduled /\ d \notin scheduled' /\ IsDue(d))
  BY <1>1, Zenon DEF Started
<1>3. /\ Uncancelled(pending)' /\ Uncancelled(granting)' /\ Uncancelled(scheduled)' /\ Uncancelled(Started)'
      /\ Deliberate(granting)' /\ Deliberate(scheduled)' /\ Deliberate(Started)'
      /\ \A i \in cancelled' : i <= requests'
  BY <1>1, <1>2, Zenon DEF QueueInv, Uncancelled, Deliberate
<1>4. Apart(scheduled, Started)'
  BY <1>1, <1>2 DEF QueueInv, Apart, Single
<1>5. Apart(pending, Started)' /\ Apart(granting, Started)'
  BY <1>1, <1>2, Zenon DEF QueueInv, Apart
<1>6. /\ Single(pending)' /\ Single(granting)' /\ Single(scheduled)'
      /\ Apart(pending, granting)' /\ Apart(pending, scheduled)' /\ Apart(granting, scheduled)'
      /\ \A e \in Started' : IsDue(e)'
  BY <1>1, <1>2, Zenon DEF QueueInv, Single, Apart, IsDue
<1> QED
  BY <1>3, <1>4, <1>5, <1>6, Zenon DEF QueueInv

\* A step that only drops erasures, or lets the clock advance, keeps the rest.
Shrinks ==
  /\ now' \in Nat /\ now' >= now
  /\ pending' \subseteq pending /\ granting' \subseteq granting /\ scheduled' \subseteq scheduled
  /\ Started' \subseteq Started
  /\ requests' = requests /\ cancelled' = cancelled

LEMMA ShrinkQueue ==
  ASSUME TypeOK, QueueInv, Shrinks
  PROVE  QueueInv'
<1>1. /\ Uncancelled(pending)' /\ Uncancelled(granting)' /\ Uncancelled(scheduled)' /\ Uncancelled(Started)'
      /\ Deliberate(granting)' /\ Deliberate(scheduled)' /\ Deliberate(Started)'
      /\ \A i \in cancelled' : i <= requests'
  BY Zenon DEF Shrinks, QueueInv, Uncancelled, Deliberate
<1>2. /\ Single(pending)' /\ Single(granting)' /\ Single(scheduled)'
      /\ Apart(pending, granting)' /\ Apart(pending, scheduled)' /\ Apart(pending, Started)'
      /\ Apart(granting, scheduled)' /\ Apart(granting, Started)' /\ Apart(scheduled, Started)'
  BY Zenon DEF Shrinks, QueueInv, Single, Apart
<1>3. \A e \in Started' : IsDue(e)'
  <2>1. now \in Nat /\ \A e \in Started : e.executeAt \in Nat
    BY StartedType, Zenon DEF TypeOK, Shreds
  <2> QED
    BY <2>1 DEF Shrinks, QueueInv, IsDue
<1> QED
  BY <1>1, <1>2, <1>3, Zenon DEF QueueInv

LEMMA QueueNext == TypeOK /\ QueueInv /\ [Next]_vars => QueueInv'
<1> SUFFICES ASSUME TypeOK, QueueInv, [Next]_vars PROVE QueueInv'
  BY Zenon
<1>0. now \in Nat
  BY Zenon DEF TypeOK
<1>1. CASE \E op \in Operators, x \in Subjects \cup Handles : RequestErasure(op, x)
  BY <1>1, RequestQueue, Zenon
<1>2. CASE \E op \in Operators, p \in pending : Approve(op, p)
  BY <1>2, ApproveQueue, Zenon
<1>3. CASE \E g \in granting : Schedule(g)
  BY <1>3, ScheduleQueue, Zenon
<1>4. CASE \E op \in Operators, d \in scheduled : Cancel(op, d)
  BY <1>4, CancelQueue, Zenon
<1>5. CASE Due
  BY <1>5, DueQueue, Zenon
<1>6. CASE (\E s \in Subjects : Pseudonymize(s)) \/ (\E e \in collecting : LinkHandle(e))
  <2>1. Shrinks
    BY <1>0, <1>6, SMTT(30) DEF Pseudonymize, LinkHandle, Started, Shrinks
  <2> QED
    BY <2>1, ShrinkQueue, Zenon
<1>7. CASE ListApprovals \/ (\E g \in granting : GrantFails(g))
  <2>1. Shrinks
    BY <1>0, <1>7 DEF ListApprovals, Unexpired, GrantFails, Started, Shrinks
  <2> QED
    BY <2>1, ShrinkQueue, Zenon
<1>8. CASE RunShred
  <2>1. PICK d \in running : running' = running \ {d} /\ \A c \in certifying' : c.erasure = d
    BY <1>8 DEF RunShred
  <2>2. Started' \subseteq Started
    BY <1>8, <2>1, Zenon DEF RunShred, Started
  <2> QED
    BY <1>0, <1>8, <2>2, ShrinkQueue, SMTT(30) DEF RunShred, Shrinks
<1>9. CASE EmitCertificate
  <2>1. Shrinks
    BY <1>0, <1>9, SMTT(30) DEF EmitCertificate, Started, Shrinks
  <2> QED
    BY <2>1, ShrinkQueue, Zenon
<1>10. CASE Drain \/ TakeSnapshot \/ BeginSeal \/ Boot \/ UNCHANGED vars
  <2>1. Shrinks
    BY <1>0, <1>10 DEF Drain, TakeSnapshot, BeginSeal, Boot, vars, Started, Shrinks
  <2> QED
    BY <2>1, ShrinkQueue, Zenon
<1>11. CASE EndSeal \/ Crash
  <2>1. Stopped
    BY <1>11, Zenon DEF EndSeal, Crash
  <2>2. Started' \subseteq Started
    BY <2>1, Zenon DEF Stopped, Started
  <2>3. Shrinks
    BY <1>0, <2>1, <2>2, SMTT(30) DEF Stopped, Shrinks
  <2> QED
    BY <2>3, ShrinkQueue, Zenon
<1>12. CASE Tick
  <2>1. Shrinks
    BY <1>0, <1>12 DEF Tick, Started, Shrinks
  <2> QED
    BY <2>1, ShrinkQueue, Zenon
<1> QED
  BY <1>1, <1>2, <1>3, <1>4, <1>5, <1>6, <1>7, <1>8, <1>9, <1>10, <1>11, <1>12, Zenon DEF Next

\* No erasure is queued or runs without the approval of a DPO other than its
\* requester, none runs before its hold window is over, and none runs after its
\* cancellation was acknowledged, however approve handlers, the ticker, operators
\* and restarts interleave (Approve, Due, Cancel).
THEOREM ErasureDeliberate == Spec => []ErasureIsDeliberate
<1>1. QueueInv => ErasureIsDeliberate
  BY Zenon DEF QueueInv, ErasureIsDeliberate, Started, Deliberate, Uncancelled
<1> QED
  BY QueueInit, QueueNext, ErasureTypes, <1>1, PTL DEF Spec
=============================================================================
