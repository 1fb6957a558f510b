----------------------------- MODULE AuditProofs -----------------------------
(* Proofs about AuditLog for every value of its constants.                     *)
EXTENDS AuditLog, SequenceTheorems, TLAPS

(***************************************************************************)
(* Sequences                                                               *)
(***************************************************************************)
\* Last, the head of Log's slices, is an element.
LEMMA LastElement ==
  ASSUME NEW S, NEW s \in Seq(S), s # <<>>
  PROVE  /\ Len(s) \in Nat \ {0}
         /\ Last(s) \in S
BY EmptySeq, ElementOfSeq DEF Last

\* A prefix of a sequence, as a crash or a Merkle tree size cuts it.
LEMMA Prefix ==
  ASSUME NEW S, NEW s \in Seq(S), NEW n \in 0..Len(s)
  PROVE  /\ SubSeq(s, 1, n) \in Seq(S)
         /\ Len(SubSeq(s, 1, n)) = n
         /\ \A i \in 1..n : SubSeq(s, 1, n)[i] = s[i]
<1>1. Len(s) \in Nat
  BY LenProperties, Zenon
<1>2. \A i \in 1..n : s[i] \in S
  BY <1>1, ElementOfSeq
<1> QED
  BY <1>1, <1>2, SubSeqProperties

\* The suffix that the ring trim and the replay keep.
LEMMA Suffix ==
  ASSUME NEW S, NEW s \in Seq(S), NEW n \in 0..Len(s)
  PROVE  /\ LastN(s, n) \in Seq(S)
         /\ Len(LastN(s, n)) = n
         /\ \A i \in 1..n : LastN(s, n)[i] = s[Len(s) - n + i]
<1>1. Len(s) \in Nat
  BY LenProperties, Zenon
<1>2. \A i \in (Len(s) - n + 1)..Len(s) : s[i] \in S
  BY <1>1, ElementOfSeq
<1>3. Len(s) - n + 1 \in Int /\ Len(s) \in Int
  BY <1>1
<1> QED
  BY <1>1, <1>2, <1>3, SubSeqProperties DEF LastN

\* The leaves of a list of records.
LEMMA HashesOfRecords ==
  ASSUME NEW recs \in Seq(Record)
  PROVE  /\ Hashes(recs) \in Seq(Nat)
         /\ Len(Hashes(recs)) = Len(recs)
         /\ \A i \in 1..Len(recs) : Hashes(recs)[i] = recs[i].hash
<1>1. Len(recs) \in Nat
  BY LenProperties, Zenon
<1>2. \A i \in 1..Len(recs) : recs[i] \in Record
  BY ElementOfSeq, Zenon
<1> QED
  BY <1>1, <1>2, SMTT(30) DEF Hashes, Record

(***************************************************************************)
(* Type correctness                                                        *)
(***************************************************************************)
LEMMA SigType ==
  ASSUME NEW cp \in Checkpoint
  PROVE  Sig(cp) \in Seq(SignedHead)
BY AppendProperties, Zenon DEF Sig, Checkpoint, SignedHead

LEMMA SidecarType ==
  ASSUME NEW f \in Sidecar, NEW cp \in Checkpoint
  PROVE  /\ CheckpointWritten(f, cp) \in Sidecar
         /\ CheckpointTorn(f, cp) \subseteq Sidecar
         /\ ReadCheckpoints(f) \in Seq(Checkpoint)
<1>1. Append(f.lines, cp) \in Seq(Checkpoint)
  BY AppendProperties, Zenon DEF Sidecar
<1>2. SubSeq(f.lines, 1, Len(f.lines) - 1) \in Seq(Checkpoint)
  <2>1. f.lines \in Seq(Checkpoint) /\ Len(f.lines) \in Nat
    BY LenProperties, Zenon DEF Sidecar
  <2>2. \A i \in 1..(Len(f.lines) - 1) : f.lines[i] \in Checkpoint
    BY <2>1, ElementOfSeq
  <2> QED
    BY <2>1, <2>2, SubSeqProperties
<1>3. CheckpointWritten(f, cp) \in Sidecar
  BY <1>1, <1>2, Zenon DEF CheckpointWritten, Sidecar
<1>4. CheckpointTorn(f, cp) \subseteq Sidecar
  BY <1>1, <1>3, ZenonT(30) DEF CheckpointTorn, Sidecar
<1>5. ReadCheckpoints(f) \in Seq(Checkpoint)
  BY EmptySeq, Zenon DEF ReadCheckpoints, Sidecar
<1> QED
  BY <1>3, <1>4, <1>5, Zenon

LEMMA CommitType ==
  ASSUME NEW l \in LogFields, NEW r \in Record
  PROVE  /\ Commit(l, r) \in LogFields
         /\ Commit(l, r).seq = r.seq
         /\ Commit(l, r).prevHash = r.hash
         /\ Commit(l, r).leaves = Append(l.leaves, r.hash)
         /\ Commit(l, r).sinceCP = l.sinceCP + 1
         /\ Commit(l, r).checkpoints = l.checkpoints
<1> DEFINE window == Append(l.records, r.hash)
           kept == IF Len(window) > 2 * RingCap THEN LastN(window, RingCap) ELSE window
<1>1. window \in Seq(Nat) /\ Append(l.leaves, r.hash) \in Seq(Nat)
  BY AppendProperties, Zenon DEF LogFields, Record
<1> HIDE DEF window
<1>2. kept \in Seq(Nat)
  <2>1. Len(window) \in Nat /\ RingCap \in Nat
    BY <1>1, LenProperties, ConstantsAssumption, Zenon
  <2>2. Len(window) > 2 * RingCap => RingCap \in 0..Len(window)
    BY <2>1
  <2> QED
    BY <1>1, <2>2, Suffix, Zenon
<1> HIDE DEF kept
<1>3. Commit(l, r) = [l EXCEPT !.seq = r.seq, !.prevHash = r.hash,
                               !.leaves = Append(@, r.hash), !.records = kept,
                               !.sinceCP = @ + 1]
  BY Zenon DEF Commit, kept, window
<1>4. r.seq \in Nat /\ r.hash \in Nat
  BY Zenon DEF Record
<1>5. Commit(l, r) = [seq |-> r.seq, prevHash |-> r.hash,
                      leaves |-> Append(l.leaves, r.hash), records |-> kept,
                      sinceCP |-> l.sinceCP + 1, checkpoints |-> l.checkpoints]
  BY <1>3, Zenon DEF LogFields
<1>6. l.sinceCP + 1 \in Nat /\ l.checkpoints \in Seq(Checkpoint)
  BY DEF LogFields
<1> QED
  BY <1>1, <1>2, <1>4, <1>5, <1>6 DEF LogFields

LEMMA CheckpointType ==
  ASSUME NEW l \in LogFields, NEW signed \in BOOLEAN
  PROVE  [treeSize |-> NewCheckpoint(l).treeSize, root |-> NewCheckpoint(l).root,
          merkle |-> NewCheckpoint(l).merkle, prevCP |-> NewCheckpoint(l).prevCP,
          witnessed |-> signed] \in Checkpoint
<1>1. l.checkpoints # <<>> => Sig(Last(l.checkpoints)) \in Seq(SignedHead)
  BY LastElement, SigType, Zenon DEF LogFields
<1>2. NewCheckpoint(l).prevCP \in Seq(SignedHead)
  BY <1>1, EmptySeq, Zenon DEF NewCheckpoint
<1> QED
  BY <1>2, Zenon DEF NewCheckpoint, Checkpoint, LogFields

\* The log with a new list of checkpoints, as checkpointLocked leaves it.
LEMMA Anchored ==
  ASSUME NEW l \in LogFields, NEW cps \in Seq(Checkpoint)
  PROVE  LET m == [l EXCEPT !.checkpoints = cps, !.sinceCP = 0]
         IN /\ m \in LogFields
            /\ m.seq = l.seq /\ m.prevHash = l.prevHash /\ m.leaves = l.leaves
            /\ m.sinceCP = 0 /\ m.checkpoints = cps
<1> SUFFICES ASSUME NEW m, m = [l EXCEPT !.checkpoints = cps, !.sinceCP = 0]
             PROVE  /\ m \in LogFields
                    /\ m.seq = l.seq /\ m.prevHash = l.prevHash
                    /\ m.leaves = l.leaves /\ m.sinceCP = 0 /\ m.checkpoints = cps
  BY Zenon
<1>1. m = [seq |-> l.seq, prevHash |-> l.prevHash, leaves |-> l.leaves,
           records |-> l.records, sinceCP |-> 0, checkpoints |-> cps]
  BY Zenon DEF LogFields
<1>2. /\ l.seq \in Nat /\ l.prevHash \in Nat /\ l.leaves \in Seq(Nat)
      /\ l.records \in Seq(Nat)
  BY Zenon DEF LogFields
<1> QED
  BY <1>1, <1>2 DEF LogFields

LEMMA CounterSignType ==
  ASSUME NEW w \in WitnessFields, NEW cp,
         cp.treeSize \in Nat, cp.root \in Nat, cp.merkle \in Seq(Nat)
  PROVE  CounterSign(w, cp) \in WitnessFields
BY DEF CounterSign, WitnessFields

LEMMA FreshType ==
  /\ EmptyLog \in LogFields
  /\ NewWitness \in WitnessFields
BY EmptySeq, Zenon DEF EmptyLog, LogFields, NewWitness, WitnessFields, NoHash

\* Replay is well typed when no tree head is ahead of the records.
LEMMA BootType ==
  ASSUME NEW recs \in Seq(Record), NEW f \in Sidecar,
         recs # <<>> => \A i \in 1..Len(f.lines) :
                          f.lines[i].treeSize <= Last(recs).seq
  PROVE  /\ ReplayWAL(recs, f) \in LogFields
         /\ Restore(ReadCheckpoints(f)) \in WitnessFields
<1>1. EmptyLog \in LogFields /\ NewWitness \in WitnessFields
  BY FreshType, Zenon
<1>2. ReadCheckpoints(f) \in Seq(Checkpoint)
  BY EmptySeq, Zenon DEF ReadCheckpoints, Sidecar
<1>3. Restore(ReadCheckpoints(f)) \in WitnessFields
  <2>1. CASE ReadCheckpoints(f) = <<>>
    BY <1>1, <2>1, Zenon DEF Restore
  <2>2. CASE ReadCheckpoints(f) # <<>>
    <3>1. Last(ReadCheckpoints(f)) \in Checkpoint
      BY <1>2, <2>2, LastElement, Zenon
    <3>2. CounterSign(NewWitness, Last(ReadCheckpoints(f))) \in WitnessFields
      BY <1>1, <3>1, CounterSignType, Zenon DEF Checkpoint
    <3> QED
      BY <2>2, <3>2, Zenon DEF Restore
  <2> QED
    BY <2>1, <2>2, Zenon
<1>4. ReplayWAL(recs, f) \in LogFields
  <2>1. CASE recs = <<>>
    BY <1>1, <1>2, <2>1, Zenon DEF ReplayWAL, LogFields, EmptyLog
  <2>2. CASE recs # <<>>
    <3>1. Last(recs) \in Record
      BY <2>2, LastElement, Zenon
    <3> DEFINE window == IF Len(recs) > RingCap THEN LastN(Hashes(recs), RingCap)
                                                ELSE Hashes(recs)
    <3>2. window \in Seq(Nat)
      <4>1. Len(recs) \in Nat /\ RingCap \in Nat
        BY LenProperties, ConstantsAssumption, Zenon
      <4>2. Len(recs) > RingCap => RingCap \in 0..Len(Hashes(recs))
        BY <4>1, HashesOfRecords
      <4> QED
        BY <4>2, HashesOfRecords, Suffix, Zenon
    <3>3. ReadCheckpoints(f) # <<>> => Last(ReadCheckpoints(f)) \in Checkpoint
      BY <1>2, LastElement, Zenon
    <3> DEFINE lastCP == IF ReadCheckpoints(f) = <<>> THEN 0
                         ELSE Last(ReadCheckpoints(f)).treeSize
    <3>4. Last(recs).seq \in Nat /\ Last(recs).hash \in Nat
      BY <3>1, Zenon DEF Record
    <3>5. Last(recs).seq - lastCP \in Nat
      <4>1. CASE ReadCheckpoints(f) = <<>>
        BY <3>4, <4>1
      <4>2. CASE ReadCheckpoints(f) # <<>>
        <5>1. ReadCheckpoints(f) = f.lines
          BY <4>2, Zenon DEF ReadCheckpoints
        <5>2. Len(f.lines) \in Nat \ {0}
          BY <1>2, <4>2, <5>1, LastElement, Zenon
        <5>3. lastCP \in Nat /\ lastCP = f.lines[Len(f.lines)].treeSize
          BY <3>3, <4>2, <5>1, Zenon DEF Checkpoint, Last
        <5> QED
          BY <2>2, <3>4, <5>2, <5>3, SMTT(30)
      <4> QED
        BY <4>1, <4>2, Zenon
    <3> HIDE DEF lastCP
    <3>6. ReplayWAL(recs, f) =
            [seq |-> Last(recs).seq, prevHash |-> Last(recs).hash,
             leaves |-> Hashes(recs), records |-> window,
             sinceCP |-> Last(recs).seq - lastCP, checkpoints |-> ReadCheckpoints(f)]
      BY <2>2, Zenon DEF ReplayWAL, lastCP
    <3> QED
      BY <1>2, <3>2, <3>4, <3>5, <3>6, HashesOfRecords DEF LogFields
  <2> QED
    BY <2>1, <2>2, Zenon
<1> QED
  BY <1>3, <1>4, Zenon

(***************************************************************************)
(* Durability, whatever the faults                                         *)
(***************************************************************************)
\* Unsynced lines are in the last segment, and so is a torn one, which only a
\* writer that failed or a process that stopped can leave.
TailInv ==
  /\ synced <= Len(wal)
  /\ \A i \in (synced + 1)..Len(wal) : wal[i].seg = segIndex
  /\ torn # 0 => torn = segIndex /\ (stuck \/ ~up)

\* What Append has done at each of its steps.
StepInv ==
  /\ ~up => pc = "idle" /\ pending = {}
  /\ pc # "idle" => wal # <<>>
  /\ pc = "checkpoint" => /\ log.checkpoints # <<>>
                          /\ synced = Len(wal)
                          /\ log.prevHash = Last(wal).hash

DurableInv == TypeOK /\ TailInv /\ StepInv /\ EffectsDurable

\* The tree sizes of all heads, on file and in the memory of a running log.
Sizes(cps) == {cps[j].treeSize : j \in 1..Len(cps)}

HeadSizes == Sizes(cpFile.lines) \cup (IF up THEN Sizes(log.checkpoints) ELSE {})

\* No crash can take the records behind a tree head: every line that may end up
\* last, and the sequence number of a running log, has reached its size.
CountInv ==
  \A t \in HeadSizes :
    /\ synced >= 1
    /\ \A k \in 1..Len(wal) : k >= synced => wal[k].seq >= t
    /\ up => log.seq >= t

LEMMA DurableInit == Init => DurableInv
<1> SUFFICES ASSUME Init PROVE DurableInv
  BY Zenon
<1>1. EmptyLog \in LogFields /\ NewWitness \in WitnessFields
  BY FreshType, Zenon
<1>2. <<>> \in Seq(Record) /\ <<>> \in Seq(Checkpoint) /\ Len(<<>>) = 0
  BY EmptySeq, Zenon
<1>3. TypeOK
  BY <1>1, <1>2, Zenon DEF Init, TypeOK, Sidecar
<1> QED
  BY <1>2, <1>3 DEF Init, DurableInv, TailInv, StepInv, EffectsDurable

\* A record whose line is durable stays so as lines are added behind it.
LEMMA EffectsExtend ==
  ASSUME DurableInv, wal' \in Seq(Record), synced' \in Nat,
         synced <= synced', synced' <= Len(wal'),
         \A i \in 1..synced : wal'[i] = wal[i],
         acted' \cup pending' \subseteq acted \cup pending
  PROVE  EffectsDurable'
<1> SUFFICES ASSUME NEW h \in acted' \cup pending'
             PROVE  \E i \in 1..synced' : i <= Len(wal') /\ wal'[i].hash = h
  BY Zenon DEF EffectsDurable
<1>1. PICK i \in 1..synced : i <= Len(wal) /\ wal[i].hash = h
  BY Zenon DEF DurableInv, EffectsDurable
<1>2. Len(wal') \in Nat /\ synced \in Nat
  BY LenProperties, Zenon DEF DurableInv, TypeOK
<1>3. i \in 1..synced' /\ i <= Len(wal') /\ wal'[i].hash = h
  BY <1>1, <1>2
<1> QED
  BY <1>3, Zenon

LEMMA AppendWriteDurable ==
  ASSUME DurableInv, AppendWrite
  PROVE  DurableInv'
<1> USE DEF DurableInv
<1>1. /\ wal \in Seq(Record) /\ Len(wal) \in Nat /\ log.seq \in Nat
      /\ log.prevHash \in Nat /\ minted \in Nat /\ segIndex \in Nat /\ synced \in Nat
  BY LenProperties, Zenon DEF TypeOK, LogFields
<1>2. Rotate \in Nat /\ RotateSync \in Nat /\ RotateSync <= Len(wal)
      /\ synced <= RotateSync
  BY <1>1 DEF Rotate, RotateSync, TailInv
<1>3. SealedRecord \in Record /\ SealedRecord.seg = Rotate
  BY <1>1, <1>2, SMTT(30) DEF SealedRecord, Record
<1>4. /\ wal' \in Seq(Record) /\ Len(wal') = Len(wal) + 1 /\ wal' # <<>>
      /\ \A i \in 1..Len(wal) : wal'[i] = wal[i]
      /\ wal'[Len(wal) + 1] = SealedRecord
  BY <1>1, <1>3, AppendProperties DEF AppendWrite
<1>5. TypeOK'
  BY <1>1, <1>2, <1>4 DEF AppendWrite, BeginAppend, TypeOK
<1>6. TailInv'
  <2>1. \A i \in (synced' + 1)..Len(wal') : wal'[i].seg = segIndex'
    BY <1>1, <1>2, <1>3, <1>4
    DEF AppendWrite, BeginAppend, TailInv, Rotate, RotateSync
  <2>2. torn' = 0
    BY Zenon DEF AppendWrite, BeginAppend, TailInv
  <2> QED
    BY <1>1, <1>2, <1>4, <2>1, <2>2 DEF AppendWrite, BeginAppend, TailInv
<1>7. StepInv'
  BY <1>4, Zenon DEF AppendWrite, BeginAppend, StepInv
<1>8. EffectsDurable'
  BY <1>1, <1>2, <1>4, EffectsExtend DEF AppendWrite, BeginAppend
<1> QED
  BY <1>5, <1>6, <1>7, <1>8, Zenon

LEMMA AppendWriteFailsDurable ==
  ASSUME DurableInv, AppendWriteFails
  PROVE  DurableInv'
<1> USE DEF DurableInv
<1>1. /\ wal \in Seq(Record) /\ Len(wal) \in Nat /\ minted \in Nat
      /\ segIndex \in Nat /\ synced \in Nat
  BY LenProperties, Zenon DEF TypeOK
<1>2. Rotate \in Nat /\ RotateSync \in Nat /\ RotateSync <= Len(wal)
      /\ synced <= RotateSync
  BY <1>1 DEF Rotate, RotateSync, TailInv
<1>3. TypeOK'
  BY <1>1, <1>2 DEF AppendWriteFails, BeginAppend, TypeOK
<1>4. TailInv'
  <2>1. \A i \in (synced' + 1)..Len(wal') : wal'[i].seg = segIndex'
    BY <1>1, <1>2 DEF AppendWriteFails, BeginAppend, TailInv, Rotate, RotateSync
  <2>2. torn' # 0 => torn' = segIndex'
    BY Zenon DEF AppendWriteFails, BeginAppend, TailInv
  <2> QED
    BY <1>1, <1>2, <2>1, <2>2, Zenon DEF AppendWriteFails, BeginAppend, TailInv
<1>5. StepInv'
  BY Zenon DEF AppendWriteFails, BeginAppend, StepInv
<1>6. EffectsDurable'
  BY <1>1, <1>2, EffectsExtend, Zenon DEF AppendWriteFails, BeginAppend
<1> QED
  BY <1>3, <1>4, <1>5, <1>6, Zenon

LEMMA AppendCommitDurable ==
  ASSUME DurableInv, AppendCommit
  PROVE  DurableInv'
<1> USE DEF DurableInv
<1> DEFINE l == Commit(log, Last(wal))
           cp == NewCheckpoint(l)
           signed == CounterSigns(witness, cp)
           stored == [treeSize |-> cp.treeSize, root |-> cp.root,
                      merkle |-> cp.merkle, prevCP |-> cp.prevCP,
                      witnessed |-> signed]
<1>1. wal \in Seq(Record) /\ wal # <<>> /\ Len(wal) \in Nat /\ synced \in Nat
  BY LenProperties, Zenon DEF AppendCommit, StepInv, TypeOK
<1>2. Last(wal) \in Record /\ Len(wal) \in Nat \ {0}
  BY <1>1, LastElement, Zenon
<1>3. l \in LogFields /\ l.prevHash = Last(wal).hash
  BY <1>2, CommitType, Zenon DEF TypeOK
<1> HIDE DEF l
<1>4. stored \in Checkpoint
  BY <1>3, CheckpointType, Zenon DEF CounterSigns, Consistent
<1>5. CounterSign(witness, cp) \in WitnessFields
  BY <1>3, CounterSignType, Zenon DEF TypeOK, NewCheckpoint, LogFields
<1> HIDE DEF cp, signed, stored
<1>6. l.prevHash \in Nat
  BY <1>3, Zenon DEF LogFields
<1>7. CASE l.sinceCP >= CheckpointEvery
  <2>1. /\ log' = [l EXCEPT !.checkpoints = Append(@, stored), !.sinceCP = 0]
        /\ witness' = IF signed THEN CounterSign(witness, cp) ELSE witness
        /\ pc' = "checkpoint" /\ pending' = pending
    BY <1>7, Zenon DEF AppendCommit, l, cp, signed, stored
  <2>2. Append(l.checkpoints, stored) \in Seq(Checkpoint)
        /\ Append(l.checkpoints, stored) # <<>>
    BY <1>3, <1>4, AppendProperties DEF LogFields
  <2>3. /\ log' \in LogFields /\ log'.prevHash = l.prevHash
        /\ log'.checkpoints = Append(l.checkpoints, stored)
    <3> DEFINE cps == Append(l.checkpoints, stored)
    <3>1. log' = [l EXCEPT !.checkpoints = cps, !.sinceCP = 0]
      BY <2>1, Zenon
    <3> HIDE DEF cps
    <3>2. log' \in LogFields /\ log'.prevHash = l.prevHash /\ log'.checkpoints = cps
      BY <1>3, <2>2, <3>1, Anchored, Zenon DEF cps
    <3> QED
      BY <3>2, Zenon DEF cps
  <2>4. TypeOK'
    BY <1>1, <1>5, <2>1, <2>3, Zenon DEF AppendCommit, TypeOK
  <2>5. TailInv'
    BY <1>1 DEF AppendCommit, TailInv
  <2>6. StepInv'
    BY <1>1, <1>3, <2>1, <2>2, <2>3, Zenon DEF AppendCommit, StepInv, Last
  <2>7. EffectsDurable'
    BY <1>1, <2>1, EffectsExtend DEF AppendCommit, TailInv
  <2> QED
    BY <2>4, <2>5, <2>6, <2>7, Zenon
<1>8. CASE ~(l.sinceCP >= CheckpointEvery)
  <2>1. /\ log' = l /\ witness' = witness
        /\ pc' = "idle" /\ pending' = pending \cup {l.prevHash}
    BY <1>8, Zenon DEF AppendCommit, l
  <2>2. TypeOK'
    BY <1>1, <1>3, <1>6, <2>1, Zenon DEF AppendCommit, TypeOK
  <2>3. TailInv'
    BY <1>1 DEF AppendCommit, TailInv
  <2>4. StepInv'
    BY <2>1, Zenon DEF AppendCommit, StepInv
  <2>5. EffectsDurable'
    <3> SUFFICES ASSUME NEW h \in acted' \cup pending'
                 PROVE  \E i \in 1..synced' : i <= Len(wal') /\ wal'[i].hash = h
      BY Zenon DEF EffectsDurable
    <3>1. synced' = Len(wal) /\ wal' = wal /\ acted' = acted
      BY Zenon DEF AppendCommit
    <3>2. CASE h = l.prevHash
      BY <1>2, <1>3, <3>1, <3>2 DEF Last
    <3>3. CASE h \in acted \cup pending
      <4>1. PICK i \in 1..synced : i <= Len(wal) /\ wal[i].hash = h
        BY <3>3, Zenon DEF EffectsDurable
      <4> QED
        BY <1>1, <3>1, <4>1
    <3> QED
      BY <2>1, <3>1, <3>2, <3>3, Zenon
  <2> QED
    BY <2>2, <2>3, <2>4, <2>5, Zenon
<1> QED
  BY <1>7, <1>8, Zenon

LEMMA AppendCheckpointDurable ==
  ASSUME DurableInv, AppendCheckpoint
  PROVE  DurableInv'
<1> USE DEF DurableInv
<1>1. wal \in Seq(Record) /\ wal # <<>> /\ synced = Len(wal) /\ synced \in Nat
  BY Zenon DEF AppendCheckpoint, StepInv, TypeOK
<1>2. Last(wal) \in Record /\ Len(wal) \in Nat \ {0}
  BY <1>1, LastElement, Zenon
<1>3. log.checkpoints \in Seq(Checkpoint) /\ log.prevHash \in Nat
  BY Zenon DEF TypeOK, LogFields
<1>4. Last(log.checkpoints) \in Checkpoint
  BY <1>3, LastElement, Zenon DEF AppendCheckpoint, StepInv
<1>5. cpFile' \in Sidecar
  BY <1>4, SidecarType, Zenon DEF AppendCheckpoint, TypeOK
<1>6. TypeOK'
  BY <1>3, <1>5, Zenon DEF AppendCheckpoint, TypeOK
<1>7. TailInv'
  BY Zenon DEF AppendCheckpoint, TailInv
<1>8. StepInv'
  BY Zenon DEF AppendCheckpoint, StepInv
<1>9. EffectsDurable'
  <2> SUFFICES ASSUME NEW h \in acted' \cup pending'
               PROVE  \E i \in 1..synced' : i <= Len(wal') /\ wal'[i].hash = h
    BY Zenon DEF EffectsDurable
  <2>1. /\ synced' = synced /\ wal' = wal /\ acted' = acted
        /\ pending' = pending \cup {log.prevHash}
    BY Zenon DEF AppendCheckpoint
  <2>2. CASE h = log.prevHash
    BY <1>1, <1>2, <2>1, <2>2 DEF Last, StepInv, AppendCheckpoint
  <2>3. CASE h \in acted \cup pending
    BY <2>1, <2>3, Zenon DEF EffectsDurable
  <2> QED
    BY <2>1, <2>2, <2>3, Zenon
<1> QED
  BY <1>6, <1>7, <1>8, <1>9, Zenon

LEMMA CrashDurable ==
  ASSUME DurableInv, Crash
  PROVE  DurableInv'
<1> USE DEF DurableInv
<1>1. /\ wal \in Seq(Record) /\ Len(wal) \in Nat /\ synced \in Nat
      /\ synced <= Len(wal) /\ synced' = synced
  BY LenProperties, Zenon DEF Crash, TypeOK, TailInv
<1>2. PICK k \in synced..Len(wal) :
        /\ wal' = SubSeq(wal, 1, k)
        /\ torn' \in {torn} \cup (IF k < Len(wal) THEN {wal[k + 1].seg} ELSE {})
  BY Zenon DEF Crash
<1>3. k \in 0..Len(wal)
  BY <1>1
<1>4. wal' \in Seq(Record) /\ Len(wal') = k /\ \A i \in 1..k : wal'[i] = wal[i]
  BY <1>1, <1>2, <1>3, Prefix, Zenon
<1>5. torn' # 0 => torn' = segIndex
  BY <1>1, <1>2 DEF TailInv
<1>6. cpFile' \in Sidecar
  <2>1. CASE pc = "checkpoint"
    <3>1. Last(log.checkpoints) \in Checkpoint
      BY <2>1, LastElement, Zenon DEF StepInv, TypeOK, LogFields
    <3> QED
      BY <3>1, SidecarType, Zenon DEF Crash, TypeOK
  <2>2. CASE pc # "checkpoint"
    BY <2>2, Zenon DEF Crash, TypeOK
  <2> QED
    BY <2>1, <2>2, Zenon
<1>7. EmptyLog \in LogFields /\ NewWitness \in WitnessFields
  BY FreshType, Zenon
<1>8. torn' \in Nat
  BY <1>5 DEF TypeOK
<1>9. TypeOK'
  BY <1>4, <1>6, <1>7, <1>8, Zenon DEF Crash, TypeOK
<1>10. TailInv'
  BY <1>1, <1>4, <1>5 DEF Crash, TailInv
<1>11. StepInv'
  BY Zenon DEF Crash, StepInv
<1>12. EffectsDurable'
  BY <1>1, <1>4, EffectsExtend DEF Crash
<1> QED
  BY <1>9, <1>10, <1>11, <1>12, Zenon

LEMMA BootDurable ==
  ASSUME DurableInv, CountInv, Boot
  PROVE  DurableInv'
<1> USE DEF DurableInv
<1>1. log' \in LogFields /\ witness' \in WitnessFields
  <2>1. wal \in Seq(Record) /\ cpFile \in Sidecar /\ Len(wal) \in Nat /\ synced \in Nat
    BY LenProperties, Zenon DEF TypeOK
  <2>2. ASSUME wal # <<>>, NEW i \in 1..Len(cpFile.lines)
        PROVE  cpFile.lines[i].treeSize <= Last(wal).seq
    <3>1. Len(wal) \in Nat \ {0} /\ Last(wal) \in Record
      BY <2>1, <2>2, LastElement, Zenon
    <3>2. cpFile.lines[i].treeSize \in HeadSizes
      BY Zenon DEF HeadSizes, Sizes
    <3>3. Last(wal).seq >= cpFile.lines[i].treeSize
      BY <2>1, <3>1, <3>2 DEF CountInv, TailInv, Last
    <3>4. cpFile.lines[i] \in Checkpoint
      BY <2>1, ElementOfSeq, Zenon DEF Sidecar
    <3> QED
      BY <3>1, <3>3, <3>4, Zenon DEF Checkpoint, Record
  <2> QED
    BY <2>1, <2>2, BootType, Zenon DEF Boot
<1>2. TypeOK'
  BY <1>1, Zenon DEF Boot, TypeOK
<1>3. TailInv'
  BY Zenon DEF Boot, TailInv
<1>4. StepInv'
  BY Zenon DEF Boot, StepInv
<1>5. EffectsDurable'
  BY Zenon DEF Boot, EffectsDurable
<1> QED
  BY <1>2, <1>3, <1>4, <1>5, Zenon

\* The durability invariant is inductive.
LEMMA DurableNext ==
  ASSUME DurableInv, CountInv, [Next]_vars
  PROVE  DurableInv'
<1>1. CASE AppendWrite
  BY <1>1, AppendWriteDurable, Zenon
<1>2. CASE AppendWriteFails
  BY <1>2, AppendWriteFailsDurable, Zenon
<1>3. CASE AppendSyncFails
  BY <1>3, Zenon DEF AppendSyncFails, diskVars, DurableInv, TypeOK, TailInv, StepInv,
              EffectsDurable
<1>4. CASE AppendCommit
  BY <1>4, AppendCommitDurable, Zenon
<1>5. CASE AppendCheckpoint
  BY <1>5, AppendCheckpointDurable, Zenon
<1>6. CASE Act
  <2>1. PICK h \in pending : pending' = pending \ {h} /\ acted' = acted \cup {h}
    BY <1>6, Zenon DEF Act
  <2>2. /\ up /\ UNCHANGED diskVars
        /\ UNCHANGED <<up, pc, stuck, log, witness, minted>>
    BY <1>6, Zenon DEF Act
  <2>3. TypeOK' /\ TailInv' /\ StepInv'
    BY <2>1, <2>2, Zenon DEF diskVars, DurableInv, TypeOK, TailInv, StepInv
  <2>4. EffectsDurable'
    BY <2>1, <2>2, Zenon DEF diskVars, DurableInv, EffectsDurable
  <2> QED
    BY <2>3, <2>4, Zenon DEF DurableInv
<1>7. CASE ReadAll
  BY <1>7, Zenon DEF ReadAll, procVars, DurableInv, TypeOK, TailInv, StepInv, EffectsDurable
<1>8. CASE Crash
  BY <1>8, CrashDurable, Zenon
<1>9. CASE Boot
  BY <1>9, BootDurable, Zenon
<1>10. CASE UNCHANGED vars
  BY <1>10, Zenon DEF vars, DurableInv, TypeOK, TailInv, StepInv, EffectsDurable
<1> QED
  BY <1>1, <1>2, <1>3, <1>4, <1>5, <1>6, <1>7, <1>8, <1>9, <1>10, Zenon DEF Next

\* Steps that add no head and lose no line behind one.
LEMMA CountKept ==
  ASSUME CountInv, synced \in Nat, synced' \in Nat, synced <= synced',
         HeadSizes' \subseteq HeadSizes,
         \A k \in 1..Len(wal') : k >= synced' =>
            \/ k \in 1..Len(wal) /\ wal'[k].seq = wal[k].seq
            \/ \A t \in HeadSizes : wal'[k].seq >= t,
         up' => \A t \in HeadSizes : log'.seq >= t
  PROVE  CountInv'
<1> SUFFICES ASSUME NEW t \in HeadSizes'
             PROVE  /\ synced' >= 1
                    /\ \A k \in 1..Len(wal') : k >= synced' => wal'[k].seq >= t
                    /\ up' => log'.seq >= t
  BY Zenon DEF CountInv
<1>1. t \in HeadSizes
  BY Zenon
<1>2. /\ synced >= 1
      /\ \A k \in 1..Len(wal) : k >= synced => wal[k].seq >= t
  BY <1>1, Zenon DEF CountInv
<1>3. \A k \in 1..Len(wal') : k >= synced' => wal'[k].seq >= t
  BY <1>1, <1>2
<1> QED
  BY <1>1, <1>2, <1>3

LEMMA SizesAppend ==
  ASSUME NEW cps \in Seq(Checkpoint), NEW cp \in Checkpoint
  PROVE  Sizes(Append(cps, cp)) = Sizes(cps) \cup {cp.treeSize}
<1>1. /\ Len(Append(cps, cp)) = Len(cps) + 1 /\ Len(cps) \in Nat
      /\ \A i \in 1..Len(cps) : Append(cps, cp)[i] = cps[i]
      /\ Append(cps, cp)[Len(cps) + 1] = cp
  BY AppendProperties, LenProperties
<1> QED
  BY <1>1 DEF Sizes

\* What the sidecar holds after a write comes from it or from the new line.
LEMMA SizesWritten ==
  ASSUME NEW f \in Sidecar, NEW cp \in Checkpoint,
         NEW g \in {CheckpointWritten(f, cp)} \cup CheckpointTorn(f, cp)
  PROVE  Sizes(g.lines) \subseteq Sizes(f.lines) \cup {cp.treeSize}
<1>1. f.lines \in Seq(Checkpoint) /\ Len(f.lines) \in Nat
  BY LenProperties, Zenon DEF Sidecar
<1>2. Sizes(SubSeq(f.lines, 1, Len(f.lines) - 1)) \subseteq Sizes(f.lines)
  <2>1. \A i \in 1..(Len(f.lines) - 1) : f.lines[i] \in Checkpoint
    BY <1>1, ElementOfSeq
  <2> DEFINE front == SubSeq(f.lines, 1, Len(f.lines) - 1)
  <2>2. Len(front) <= Len(f.lines) /\ Len(front) \in Nat
        /\ \A i \in 1..Len(front) : front[i] = f.lines[i]
    BY <1>1, <2>1, SubSeqProperties
  <2> HIDE DEF front
  <2>3. Sizes(front) \subseteq Sizes(f.lines)
    BY <1>1, <2>2 DEF Sizes
  <2> QED
    BY <2>3, Zenon DEF front
<1>3. g.lines \in {f.lines, Append(f.lines, cp), SubSeq(f.lines, 1, Len(f.lines) - 1)}
  <2>1. CASE g = CheckpointWritten(f, cp)
    BY <2>1, Zenon DEF CheckpointWritten, Sidecar
  <2>2. CASE g \in CheckpointTorn(f, cp)
    BY <2>2, Zenon DEF CheckpointTorn, CheckpointWritten, Sidecar
  <2> QED
    BY <2>1, <2>2, Zenon
<1> QED
  BY <1>1, <1>2, <1>3, SizesAppend, Zenon

LEMMA CountNext ==
  ASSUME DurableInv, DurableInv', CountInv, [Next]_vars
  PROVE  CountInv'
<1>1. /\ wal \in Seq(Record) /\ Len(wal) \in Nat /\ synced \in Nat /\ synced' \in Nat
      /\ synced <= Len(wal) /\ log \in LogFields /\ cpFile \in Sidecar
      /\ log.seq \in Nat
  BY LenProperties, Zenon DEF DurableInv, TypeOK, TailInv, LogFields
<1>2. up => \A t \in HeadSizes : log.seq >= t
  BY Zenon DEF CountInv
<1>3. \A t \in HeadSizes : t \in Nat
  <2>1. ASSUME NEW cps \in Seq(Checkpoint), NEW t \in Sizes(cps)
        PROVE  t \in Nat
    <3>1. PICK j \in 1..Len(cps) : t = cps[j].treeSize
      BY <2>1, Zenon DEF Sizes
    <3>2. cps[j] \in Checkpoint
      BY ElementOfSeq, Zenon
    <3> QED
      BY <3>1, <3>2, Zenon DEF Checkpoint
  <2> QED
    BY <1>1, <2>1, Zenon DEF HeadSizes, LogFields, Sidecar
<1>4. CASE AppendWrite
  <2>1. /\ log.prevHash \in Nat /\ minted \in Nat /\ Rotate \in Nat
    BY <1>1 DEF DurableInv, TypeOK, LogFields, Rotate
  <2>2. SealedRecord \in Record /\ SealedRecord.seq = log.seq + 1
    BY <1>1, <2>1 DEF SealedRecord, Record
  <2>3. /\ Len(wal') = Len(wal) + 1
        /\ \A i \in 1..Len(wal) : wal'[i] = wal[i]
        /\ wal'[Len(wal) + 1] = SealedRecord
    BY <1>1, <1>4, <2>2, AppendProperties DEF AppendWrite
  <2>4. up /\ UNCHANGED <<cpFile, up, log>> /\ synced <= synced'
    BY <1>1, <1>4 DEF AppendWrite, BeginAppend, RotateSync
  <2>5. HeadSizes' = HeadSizes
    BY <2>4, Zenon DEF HeadSizes, Sizes
  <2>6. \A t \in HeadSizes : log.seq + 1 >= t
    BY <1>1, <1>2, <1>3, <2>4
  <2> QED
    BY <1>1, <1>2, <2>2, <2>3, <2>4, <2>5, <2>6, CountKept, SMTT(30)
<1>5. CASE AppendWriteFails
  <2>1. up /\ UNCHANGED <<wal, cpFile, up, log>> /\ synced <= synced'
    BY <1>1, <1>5 DEF AppendWriteFails, BeginAppend, RotateSync
  <2>2. HeadSizes' = HeadSizes
    BY <2>1, Zenon DEF HeadSizes, Sizes
  <2> QED
    BY <1>1, <1>2, <2>1, <2>2, CountKept, Zenon
<1>6. CASE AppendCommit
  <2> DEFINE l == Commit(log, Last(wal))
             cp == NewCheckpoint(l)
             stored == [treeSize |-> cp.treeSize, root |-> cp.root,
                        merkle |-> cp.merkle, prevCP |-> cp.prevCP,
                        witnessed |-> CounterSigns(witness, cp)]
  <2>1. wal # <<>> /\ up
    BY <1>6, Zenon DEF AppendCommit, DurableInv, StepInv
  <2>2. Last(wal) \in Record /\ Len(wal) \in Nat \ {0} /\ Last(wal) = wal[Len(wal)]
    BY <1>1, <2>1, LastElement, Zenon DEF Last
  <2>3. l \in LogFields /\ l.seq = Last(wal).seq /\ l.checkpoints = log.checkpoints
    BY <1>1, <2>2, CommitType, Zenon
  <2>4. Last(wal).seq \in Nat
    BY <2>2, Zenon DEF Record
  <2> HIDE DEF l
  <2>5. stored \in Checkpoint /\ stored.treeSize = Last(wal).seq
    BY <2>3, CheckpointType, Zenon DEF CounterSigns, Consistent, NewCheckpoint
  <2> HIDE DEF stored
  <2>6. /\ log'.seq = Last(wal).seq
        /\ Sizes(log'.checkpoints) \subseteq Sizes(log.checkpoints) \cup {Last(wal).seq}
    <3>1. CASE l.sinceCP >= CheckpointEvery
      <4> DEFINE new == Append(log.checkpoints, stored)
      <4>1. log' = [l EXCEPT !.checkpoints = new, !.sinceCP = 0]
        BY <1>6, <2>3, <3>1, Zenon DEF AppendCommit, l, stored
      <4>2. new \in Seq(Checkpoint)
        BY <1>1, <2>5, AppendProperties, Zenon DEF LogFields
      <4>3. Sizes(new) = Sizes(log.checkpoints) \cup {Last(wal).seq}
        BY <1>1, <2>5, SizesAppend, Zenon DEF LogFields
      <4> HIDE DEF new
      <4>4. log'.seq = l.seq /\ log'.checkpoints = new
        BY <2>3, <4>1, <4>2, Anchored, Zenon
      <4> QED
        BY <2>3, <4>3, <4>4, Zenon
    <3>2. CASE ~(l.sinceCP >= CheckpointEvery)
      <4>1. log' = l
        BY <1>6, <3>2, Zenon DEF AppendCommit, l
      <4> QED
        BY <2>3, <4>1, Zenon
    <3> QED
      BY <3>1, <3>2, Zenon
  <2>7. wal' = wal /\ synced' = Len(wal) /\ cpFile' = cpFile /\ up'
    BY <1>6, Zenon DEF AppendCommit
  <2>8. HeadSizes' \subseteq HeadSizes \cup {Last(wal).seq}
    BY <2>1, <2>6, <2>7, Zenon DEF HeadSizes, Sizes
  <2>9. \A t \in HeadSizes : Last(wal).seq >= t
    BY <1>1, <2>2 DEF CountInv
  <2>10. \A t \in HeadSizes' : Last(wal).seq >= t
    BY <2>4, <2>8, <2>9
  <2> QED
    BY <2>2, <2>6, <2>7, <2>10 DEF CountInv
<1>7. CASE AppendCheckpoint
  <2>1. up /\ UNCHANGED <<wal, synced, up, log>>
    BY <1>7, Zenon DEF AppendCheckpoint
  <2>2. log.checkpoints \in Seq(Checkpoint) /\ log.checkpoints # <<>>
    BY <1>1, <1>7, Zenon DEF AppendCheckpoint, DurableInv, StepInv, LogFields
  <2>3. Last(log.checkpoints) \in Checkpoint
        /\ Last(log.checkpoints).treeSize \in Sizes(log.checkpoints)
    BY <2>2, LastElement DEF Last, Sizes
  <2>4. Sizes(cpFile'.lines) \subseteq
          Sizes(cpFile.lines) \cup {Last(log.checkpoints).treeSize}
    <3>1. CASE cpFile' = CheckpointWritten(cpFile, Last(log.checkpoints))
      BY <1>1, <2>3, <3>1, SizesWritten
    <3>2. CASE cpFile' = cpFile
      BY <3>2, Zenon
    <3> QED
      BY <1>7, <3>1, <3>2, Zenon DEF AppendCheckpoint
  <2>5. HeadSizes' \subseteq HeadSizes
    BY <2>1, <2>3, <2>4, Zenon DEF HeadSizes, Sizes
  <2> QED
    BY <1>1, <1>2, <2>1, <2>5, CountKept
<1>8. CASE Crash
  <2>1. PICK k \in synced..Len(wal) : wal' = SubSeq(wal, 1, k)
    BY <1>8, Zenon DEF Crash
  <2>2. k \in 0..Len(wal)
    BY <1>1
  <2>3. Len(wal') = k /\ \A i \in 1..k : wal'[i] = wal[i]
    BY <1>1, <2>1, <2>2, Prefix, Zenon
  <2>4. up /\ ~up' /\ synced' = synced
    BY <1>8, Zenon DEF Crash
  <2>5. Sizes(cpFile'.lines) \subseteq Sizes(cpFile.lines) \cup Sizes(log.checkpoints)
    <3>1. CASE pc = "checkpoint" /\ cpFile' # cpFile
      <4>1. log.checkpoints \in Seq(Checkpoint) /\ log.checkpoints # <<>>
        BY <1>1, <3>1, Zenon DEF DurableInv, StepInv, LogFields
      <4>2. Last(log.checkpoints) \in Checkpoint
            /\ Last(log.checkpoints).treeSize \in Sizes(log.checkpoints)
        BY <4>1, LastElement DEF Last, Sizes
      <4>3. cpFile' \in {CheckpointWritten(cpFile, Last(log.checkpoints))}
                        \cup CheckpointTorn(cpFile, Last(log.checkpoints))
        BY <1>8, <3>1, Zenon DEF Crash
      <4> QED
        BY <1>1, <4>2, <4>3, SizesWritten, SMTT(30)
    <3>2. CASE cpFile' = cpFile
      BY <3>2, Zenon
    <3> QED
      BY <1>8, <3>1, <3>2, Zenon DEF Crash
  <2>6. HeadSizes' \subseteq HeadSizes
    BY <2>4, <2>5, Zenon DEF HeadSizes, Sizes
  <2> QED
    BY <1>1, <2>2, <2>3, <2>4, <2>6, CountKept
<1>9. CASE Boot
  <2>1. UNCHANGED <<wal, synced, cpFile>> /\ ~up
    BY <1>9, Zenon DEF Boot
  <2>2. log'.checkpoints = ReadCheckpoints(cpFile)
    BY <1>9, Zenon DEF Boot, ReplayWAL, EmptyLog
  <2>3. Sizes(ReadCheckpoints(cpFile)) \subseteq Sizes(cpFile.lines)
    BY EmptySeq DEF ReadCheckpoints, Sizes
  <2>4. HeadSizes' \subseteq HeadSizes
    BY <2>1, <2>2, <2>3, Zenon DEF HeadSizes, Sizes
  <2>5. ASSUME NEW t \in HeadSizes PROVE log'.seq >= t
    <3>1. synced >= 1 /\ \A k \in 1..Len(wal) : k >= synced => wal[k].seq >= t
      BY Zenon DEF CountInv
    <3>2. Len(wal) \in 1..Len(wal) /\ Len(wal) >= synced
      BY <1>1, <3>1
    <3>3. wal # <<>>
      BY <3>2, EmptySeq
    <3>4. log'.seq = wal[Len(wal)].seq
      BY <1>9, <3>3, Zenon DEF Boot, ReplayWAL, Last
    <3> QED
      BY <3>1, <3>2, <3>4, Zenon
  <2> QED
    BY <1>1, <2>1, <2>4, <2>5, CountKept
<1>10. CASE AppendSyncFails \/ Act \/ ReadAll \/ UNCHANGED vars
  <2>1. UNCHANGED <<wal, synced, cpFile, up, log>>
    BY <1>10, Zenon DEF AppendSyncFails, Act, ReadAll, diskVars, procVars, vars
  <2> QED
    BY <2>1 DEF CountInv, HeadSizes, Sizes
<1> QED
  BY <1>4, <1>5, <1>6, <1>7, <1>8, <1>9, <1>10, Zenon DEF Next

LEMMA Durable == Spec => [](DurableInv /\ CountInv)
<1>1. Init => DurableInv /\ CountInv
  <2>1. Init => CountInv
    BY EmptySeq DEF Init, CountInv, HeadSizes, Sizes, EmptyLog
  <2> QED
    BY <2>1, DurableInit, Zenon
<1>2. DurableInv /\ CountInv /\ [Next]_vars => (DurableInv /\ CountInv)'
  BY DurableNext, CountNext, Zenon
<1> QED
  BY <1>1, <1>2, PTL DEF Spec

\* Every behaviour of the log, with any cadence, window, segment size and set of
\* faults, keeps its variables well typed.
THEOREM TypeCorrect == Spec => []TypeOK
<1>1. DurableInv => TypeOK
  BY Zenon DEF DurableInv
<1> QED
  BY <1>1, Durable, PTL

\* EmitAndAct never releases an effect whose record a crash could still lose.
THEOREM AuditBeforeEffect == Spec => []EffectsDurable
<1>1. DurableInv => EffectsDurable
  BY Zenon DEF DurableInv
<1> QED
  BY <1>1, Durable, PTL

\* No crash and no I/O error leaves segments that replayWAL refuses.
THEOREM ReplayNeverPanics == Spec => []ReplaySucceeds
<1>1. DurableInv => ReplaySucceeds
  BY Zenon DEF DurableInv, TailInv, ReplaySucceeds, Readable
<1> QED
  BY <1>1, Durable, PTL

(***************************************************************************)
(* The log implements the append-only ledger                               *)
(***************************************************************************)
Durables == SubSeq(Hashes(wal), 1, synced)

LEMMA PrefixOfHashes ==
  ASSUME NEW recs \in Seq(Record), NEW n \in 0..Len(recs)
  PROVE  /\ SubSeq(Hashes(recs), 1, n) \in Seq(Nat)
         /\ Len(SubSeq(Hashes(recs), 1, n)) = n
         /\ \A i \in 1..n : SubSeq(Hashes(recs), 1, n)[i] = recs[i].hash
<1>1. Len(recs) \in Nat
  BY LenProperties, Zenon
<1>2. Hashes(recs) \in Seq(Nat) /\ Len(Hashes(recs)) = Len(recs)
      /\ \A i \in 1..Len(recs) : Hashes(recs)[i] = recs[i].hash
  BY HashesOfRecords, Zenon
<1> QED
  BY <1>1, <1>2, Prefix

\* Lines added behind the durable ones are a Seal, or nothing the ledger sees.
LEMMA ExtendSeals ==
  ASSUME DurableInv, DurableInv', synced <= synced',
         \A i \in 1..synced : wal'[i] = wal[i], acted' = acted
  PROVE  [Ledger!Next]_(Ledger!vars)
<1>1. synced \in Nat /\ synced' \in Nat
  BY Zenon DEF DurableInv, TypeOK
<1>2. /\ Durables \in Seq(Nat) /\ Len(Durables) = synced
      /\ \A i \in 1..synced : Durables[i] = wal[i].hash
  <2>1. wal \in Seq(Record) /\ Len(wal) \in Nat /\ synced \in 0..Len(wal)
    BY LenProperties DEF DurableInv, TypeOK, TailInv
  <2> QED
    BY <2>1, PrefixOfHashes, Zenon DEF Durables
<1>3. /\ Durables' \in Seq(Nat) /\ Len(Durables') = synced'
      /\ \A i \in 1..synced' : Durables'[i] = wal'[i].hash
  <2>1. wal' \in Seq(Record) /\ Len(wal') \in Nat /\ synced' \in 0..Len(wal')
    BY LenProperties DEF DurableInv, TypeOK, TailInv
  <2> QED
    BY <2>1, PrefixOfHashes, Zenon DEF Durables, Hashes
<1>4. \A i \in 1..synced : Durables'[i] = Durables[i]
  BY <1>1, <1>2, <1>3, SMTT(30)
<1>5. CASE synced' = synced
  <2>1. Durables' = Durables
    BY <1>2, <1>3, <1>4, <1>5, SeqEqual, Zenon
  <2> QED
    BY <2>1, Zenon DEF Ledger!vars, Durables
<1>6. CASE synced' > synced
  <2>1. SubSeq(Durables', 1, synced) \in Seq(Nat)
        /\ Len(SubSeq(Durables', 1, synced)) = synced
        /\ \A i \in 1..synced : SubSeq(Durables', 1, synced)[i] = Durables'[i]
    BY <1>1, <1>3, <1>6, Prefix
  <2>2. SubSeq(Durables', 1, Len(Durables)) = Durables
    BY <1>2, <1>4, <2>1, SeqEqual, Zenon
  <2>3. Ledger!Seal
    BY <1>2, <1>3, <1>6, <2>2, Zenon DEF Ledger!Seal, Durables
  <2> QED
    BY <2>3, Zenon DEF Ledger!Next
<1> QED
  BY <1>1, <1>5, <1>6

LEMMA LedgerStep ==
  ASSUME DurableInv, DurableInv', [Next]_vars
  PROVE  [Ledger!Next]_(Ledger!vars)
<1>1. wal \in Seq(Record) /\ Len(wal) \in Nat /\ synced \in Nat /\ synced <= Len(wal)
  BY LenProperties, Zenon DEF DurableInv, TypeOK, TailInv
<1>2. CASE AppendWrite
  <2>1. synced <= synced'
    BY <1>1, <1>2 DEF AppendWrite, BeginAppend, RotateSync
  <2>2. SealedRecord \in Record
    <3>1. log.seq \in Nat /\ log.prevHash \in Nat /\ minted \in Nat /\ Rotate \in Nat
      BY DEF Rotate, DurableInv, TypeOK, LogFields
    <3> QED
      BY <3>1 DEF SealedRecord, Record
  <2>3. \A i \in 1..synced : wal'[i] = wal[i]
    BY <1>1, <1>2, <2>2, AppendProperties DEF AppendWrite
  <2> QED
    BY <1>2, <2>1, <2>3, ExtendSeals, Zenon DEF AppendWrite
<1>3. CASE AppendWriteFails
  <2>1. synced <= synced'
    BY <1>1, <1>3 DEF AppendWriteFails, BeginAppend, RotateSync
  <2> QED
    BY <1>3, <2>1, ExtendSeals, Zenon DEF AppendWriteFails
<1>4. CASE AppendCommit
  BY <1>1, <1>4, ExtendSeals, Zenon DEF AppendCommit
<1>5. CASE Crash
  <2>1. PICK k \in synced..Len(wal) : wal' = SubSeq(wal, 1, k)
    BY <1>5, Zenon DEF Crash
  <2>2. k \in 0..Len(wal)
    BY <1>1
  <2>3. \A i \in 1..synced : wal'[i] = wal[i]
    BY <1>1, <2>1, <2>2, Prefix
  <2> QED
    BY <1>1, <1>5, <2>3, ExtendSeals DEF Crash
<1>6. CASE Act
  <2>1. PICK h \in pending : acted' = acted \cup {h}
    BY <1>6, Zenon DEF Act
  <2>2. PICK i \in 1..synced : i <= Len(wal) /\ wal[i].hash = h
    BY <2>1, Zenon DEF DurableInv, EffectsDurable
  <2>3. i \in 1..Len(Durables) /\ Durables[i] = h
    BY <1>1, <2>2, PrefixOfHashes DEF Durables
  <2>4. wal' = wal /\ synced' = synced
    BY <1>6, Zenon DEF Act, diskVars
  <2>5. Ledger!Release
    BY <2>1, <2>3, <2>4, Zenon DEF Ledger!Release, Durables, Hashes
  <2> QED
    BY <2>5, Zenon DEF Ledger!Next
<1>7. CASE AppendSyncFails \/ AppendCheckpoint \/ ReadAll \/ Boot \/ UNCHANGED vars
  <2>1. wal' = wal /\ synced' = synced /\ acted' = acted
    BY <1>7, Zenon DEF AppendSyncFails, AppendCheckpoint, ReadAll, Boot, diskVars, vars
  <2> QED
    BY <2>1, Zenon DEF Ledger!vars, Hashes
<1> QED
  BY <1>2, <1>3, <1>4, <1>5, <1>6, <1>7, Zenon DEF Next

\* Whatever fails, the durable records only grow and effects follow records: the
\* log with its files, crashes and restarts implements the append-only ledger.
THEOREM Refinement == Spec => ImplementsLedger
<1>1. Init => Ledger!Init
  <2> SUFFICES ASSUME Init PROVE Ledger!Init
    BY Zenon
  <2>1. wal = <<>> /\ synced = 0 /\ acted = {}
    BY Zenon DEF Init
  <2>2. SubSeq(Hashes(wal), 1, 0) = <<>>
    BY SubSeqEmpty
  <2> QED
    BY <2>1, <2>2, Zenon DEF Ledger!Init
<1>2. DurableInv /\ DurableInv' /\ [Next]_vars => [Ledger!Next]_(Ledger!vars)
  BY LedgerStep, Zenon
<1> QED
  BY <1>1, <1>2, Durable, PTL DEF Spec, ImplementsLedger, Ledger!Spec

(***************************************************************************)
(* The chain verifies, for every cadence, window and segment size, as long *)
(* as no fsync error and no lost checkpoint line occurs.                   *)
(***************************************************************************)

(***************************************************************************)
(* The chain has no gap                                                    *)
(***************************************************************************)
\* Where the chain state of a running log stands in the lines on disk: at the
\* last line, or one before it while Append waits for the fsync.
PositionInv ==
  up => /\ log.seq = IF pc = "sync" THEN Len(wal) - 1 ELSE Len(wal)
        /\ log.prevHash = IF log.seq = 0 THEN NoHash ELSE wal[log.seq].hash

ChainInv == NoSeqGap /\ PositionInv

LEMMA ChainInit == Init => ChainInv
<1> SUFFICES ASSUME Init PROVE ChainInv
  BY Zenon
<1>1. Len(wal) = 0
  BY EmptySeq, Zenon DEF Init
<1> QED
  BY <1>1 DEF Init, ChainInv, NoSeqGap, VerifyRecords, PositionInv, EmptyLog

LEMMA AppendWriteChain ==
  ASSUME DurableInv, ChainInv, AppendWrite
  PROVE  ChainInv'
<1>1. /\ wal \in Seq(Record) /\ Len(wal) \in Nat /\ log.seq \in Nat
      /\ log.prevHash \in Nat /\ minted \in Nat /\ Rotate \in Nat
  BY LenProperties DEF DurableInv, TypeOK, LogFields, Rotate
<1>2. /\ SealedRecord \in Record
      /\ SealedRecord.seq = log.seq + 1 /\ SealedRecord.prev = log.prevHash
  BY <1>1 DEF SealedRecord, Record
<1>3. /\ Len(wal') = Len(wal) + 1
      /\ \A i \in 1..Len(wal) : wal'[i] = wal[i]
      /\ wal'[Len(wal) + 1] = SealedRecord
  BY <1>1, <1>2, AppendProperties DEF AppendWrite
<1>4. /\ log.seq = Len(wal)
      /\ log.prevHash = IF Len(wal) = 0 THEN NoHash ELSE wal[Len(wal)].hash
  BY Zenon DEF ChainInv, PositionInv, AppendWrite, BeginAppend
<1>5. NoSeqGap'
  BY <1>1, <1>2, <1>3, <1>4, SMTT(30) DEF ChainInv, NoSeqGap, VerifyRecords
<1>6. PositionInv'
  BY <1>1, <1>3, <1>4 DEF PositionInv, AppendWrite, BeginAppend
<1> QED
  BY <1>5, <1>6, Zenon DEF ChainInv

LEMMA AppendCommitChain ==
  ASSUME DurableInv, ChainInv, AppendCommit
  PROVE  /\ ChainInv'
         /\ log'.seq = Len(wal)
         /\ log'.leaves = Append(log.leaves, wal[Len(wal)].hash)
<1> DEFINE l == Commit(log, Last(wal))
<1>1. wal \in Seq(Record) /\ wal # <<>> /\ log \in LogFields
  BY Zenon DEF AppendCommit, DurableInv, StepInv, TypeOK
<1>2. Last(wal) \in Record /\ Len(wal) \in Nat \ {0}
  BY <1>1, LastElement, Zenon
<1>3. /\ l \in LogFields /\ l.seq = Last(wal).seq /\ l.prevHash = Last(wal).hash
      /\ l.leaves = Append(log.leaves, Last(wal).hash)
  BY <1>1, <1>2, CommitType, Zenon
<1> HIDE DEF l
<1>4. /\ log'.seq = l.seq /\ log'.prevHash = l.prevHash /\ log'.leaves = l.leaves
  <2>1. CASE l.sinceCP >= CheckpointEvery
    <3>1. \E cp : log' = [l EXCEPT !.checkpoints = cp, !.sinceCP = 0]
      BY <2>1, Zenon DEF AppendCommit, l
    <3> QED
      BY <1>3, <3>1, Zenon DEF LogFields
  <2>2. CASE ~(l.sinceCP >= CheckpointEvery)
    BY <2>2, Zenon DEF AppendCommit, l
  <2> QED
    BY <2>1, <2>2, Zenon
<1>5. Last(wal) = wal[Len(wal)] /\ Last(wal).seq = Len(wal)
  BY <1>2 DEF Last, ChainInv, NoSeqGap, VerifyRecords
<1>6. wal' = wal /\ pc' \in {"checkpoint", "idle"}
  BY Zenon DEF AppendCommit
<1>7. ChainInv'
  BY <1>2, <1>3, <1>4, <1>5, <1>6 DEF ChainInv, NoSeqGap, VerifyRecords, PositionInv
<1> QED
  BY <1>3, <1>4, <1>5, <1>7, Zenon

LEMMA CrashChain ==
  ASSUME DurableInv, ChainInv, Crash
  PROVE  ChainInv'
<1>1. wal \in Seq(Record) /\ Len(wal) \in Nat /\ synced \in Nat
  BY LenProperties, Zenon DEF DurableInv, TypeOK
<1>2. PICK k \in synced..Len(wal) : wal' = SubSeq(wal, 1, k)
  BY Zenon DEF Crash
<1>3. k \in 0..Len(wal)
  BY <1>1
<1>4. Len(wal') = k /\ \A i \in 1..k : wal'[i] = wal[i]
  BY <1>1, <1>2, <1>3, Prefix, Zenon
<1>5. NoSeqGap'
  BY <1>1, <1>3, <1>4, SMTT(30) DEF ChainInv, NoSeqGap, VerifyRecords
<1> QED
  BY <1>5, Zenon DEF ChainInv, PositionInv, Crash

LEMMA BootChain ==
  ASSUME DurableInv, ChainInv, Boot
  PROVE  ChainInv'
<1>1. wal \in Seq(Record) /\ Len(wal) \in Nat /\ wal' = wal /\ pc' = "idle"
  BY LenProperties, Zenon DEF DurableInv, TypeOK, Boot, StepInv
<1>2. NoSeqGap'
  BY <1>1, Zenon DEF ChainInv, NoSeqGap
<1>3. CASE wal = <<>>
  <2>1. log'.seq = 0 /\ log'.prevHash = NoHash /\ Len(wal) = 0
    BY <1>3, EmptySeq, Zenon DEF Boot, ReplayWAL, EmptyLog
  <2> QED
    BY <1>1, <1>2, <2>1, Zenon DEF ChainInv, PositionInv
<1>4. CASE wal # <<>>
  <2>1. Len(wal) \in Nat \ {0}
    BY <1>1, <1>4, LastElement, Zenon
  <2>2. log'.seq = Last(wal).seq /\ log'.prevHash = Last(wal).hash
    BY <1>4, Zenon DEF Boot, ReplayWAL
  <2>3. log'.seq = Len(wal) /\ log'.prevHash = wal[Len(wal)].hash
    BY <2>1, <2>2 DEF Last, ChainInv, NoSeqGap, VerifyRecords
  <2> QED
    BY <1>1, <1>2, <2>1, <2>3, Zenon DEF ChainInv, PositionInv
<1> QED
  BY <1>3, <1>4, Zenon

LEMMA ChainNext ==
  ASSUME "sync" \notin Faults, DurableInv, ChainInv, [Next]_vars
  PROVE  ChainInv'
<1> USE DEF ChainInv, NoSeqGap, PositionInv
<1>1. CASE AppendWrite
  BY <1>1, AppendWriteChain, Zenon
<1>2. CASE AppendWriteFails
  BY <1>2, Zenon DEF AppendWriteFails, BeginAppend
<1>3. CASE AppendSyncFails
  BY <1>3, Zenon DEF AppendSyncFails
<1>4. CASE AppendCommit
  BY <1>4, AppendCommitChain, Zenon
<1>5. CASE AppendCheckpoint
  BY <1>5, Zenon DEF AppendCheckpoint
<1>6. CASE Act
  BY <1>6, Zenon DEF Act, diskVars
<1>7. CASE ReadAll
  BY <1>7, Zenon DEF ReadAll, procVars
<1>8. CASE Crash
  BY <1>8, CrashChain, Zenon
<1>9. CASE Boot
  BY <1>9, BootChain, Zenon
<1>10. CASE UNCHANGED vars
  BY <1>10, Zenon DEF vars
<1> QED
  BY <1>1, <1>2, <1>3, <1>4, <1>5, <1>6, <1>7, <1>8, <1>9, <1>10, Zenon DEF Next

LEMMA Chained ==
  ASSUME "sync" \notin Faults
  PROVE  Spec => []ChainInv
<1>1. Init => ChainInv
  BY ChainInit, Zenon
<1>2. DurableInv /\ ChainInv /\ [Next]_vars => ChainInv'
  BY ChainNext, Zenon
<1> QED
  BY <1>1, <1>2, Durable, PTL DEF Spec

\* While fsync works, no crash, restart or failed write breaks the sequence
\* numbers or the hash linkage of the records on disk.
THEOREM ChainHasNoGap ==
  ASSUME "sync" \notin Faults
  PROVE  Spec => []NoSeqGap
<1>1. ChainInv => NoSeqGap
  BY Zenon DEF ChainInv
<1> QED
  BY <1>1, Chained, PTL

(***************************************************************************)
(* The signed tree heads verify and are witnessed                          *)
(***************************************************************************)
\* Heads that verify against the records, over the first n of them.
GoodHeads(recs, cps, n) ==
  /\ VerifyCheckpoints(recs, cps)
  /\ VerifyWitness(cps)
  /\ \A i \in 1..Len(cps) : cps[i].treeSize <= n

LastSize(cps) == IF cps = <<>> THEN 0 ELSE Last(cps).treeSize

\* The leaves in memory are the hashes of the committed lines.
LeavesInv ==
  up => /\ Len(log.leaves) = log.seq
        /\ \A i \in 1..log.seq : log.leaves[i] = wal[i].hash

\* The heads in memory cover committed, durable records only; the cadence
\* counter counts from the last one; the witness remembers exactly that one.
HeadsInv ==
  up => /\ GoodHeads(wal, log.checkpoints, synced)
        /\ LastSize(log.checkpoints) <= log.seq
        /\ log.sinceCP = log.seq - LastSize(log.checkpoints)
        /\ witness.lastSize = LastSize(log.checkpoints)
        /\ witness.maxSize = LastSize(log.checkpoints)
        /\ log.checkpoints # <<>> => witness.lastMerkle = Last(log.checkpoints).merkle
        /\ \A r \in witness.seenRoot : r[1] <= witness.maxSize

\* A sidecar that parses holds the heads in memory, all but the one in flight.
SidecarInv ==
  ~cpFile.garbled =>
    /\ GoodHeads(wal, cpFile.lines, synced)
    /\ up => log.checkpoints = IF pc = "checkpoint"
                               THEN Append(cpFile.lines, Last(log.checkpoints))
                               ELSE cpFile.lines

AnchorInv == LeavesInv /\ HeadsInv /\ SidecarInv

\* Records behind the ones a head covers do not matter to it.
LEMMA HeadsKept ==
  ASSUME NEW r1 \in Seq(Record), NEW r2 \in Seq(Record),
         NEW cps \in Seq(Checkpoint), NEW n \in Nat,
         n <= Len(r1), n <= Len(r2), \A i \in 1..n : r1[i] = r2[i],
         GoodHeads(r1, cps, n)
  PROVE  GoodHeads(r2, cps, n)
<1> SUFFICES ASSUME NEW i \in 1..Len(cps)
             PROVE  /\ cps[i].treeSize \in 1..Len(r2)
                    /\ cps[i].root = r2[cps[i].treeSize].hash
                    /\ cps[i].merkle = SubSeq(Hashes(r2), 1, cps[i].treeSize)
  BY Zenon DEF GoodHeads, VerifyCheckpoints
<1> DEFINE t == cps[i].treeSize
<1>1. Len(r1) \in Nat /\ Len(r2) \in Nat
  BY LenProperties, Zenon
<1>2. /\ t \in 1..Len(r1) /\ t <= n
      /\ cps[i].root = r1[t].hash
      /\ cps[i].merkle = SubSeq(Hashes(r1), 1, t)
  BY Zenon DEF GoodHeads, VerifyCheckpoints
<1> HIDE DEF t
<1>3. t \in 1..Len(r2) /\ t \in 0..Len(r1) /\ t \in 0..Len(r2) /\ r1[t] = r2[t]
  BY <1>1, <1>2
<1>4. SubSeq(Hashes(r1), 1, t) = SubSeq(Hashes(r2), 1, t)
  <2>1. /\ SubSeq(Hashes(r1), 1, t) \in Seq(Nat)
        /\ Len(SubSeq(Hashes(r1), 1, t)) = t
        /\ \A j \in 1..t : SubSeq(Hashes(r1), 1, t)[j] = r1[j].hash
    BY <1>3, PrefixOfHashes, Zenon
  <2>2. /\ SubSeq(Hashes(r2), 1, t) \in Seq(Nat)
        /\ Len(SubSeq(Hashes(r2), 1, t)) = t
        /\ \A j \in 1..t : SubSeq(Hashes(r2), 1, t)[j] = r2[j].hash
    BY <1>3, PrefixOfHashes, Zenon
  <2>3. \A j \in 1..t : r1[j].hash = r2[j].hash
    BY <1>1, <1>2, SMTT(30)
  <2> QED
    BY <2>1, <2>2, <2>3, SeqEqual, SMTT(30)
<1> QED
  BY <1>2, <1>3, <1>4, Zenon DEF t

\* More durable records do not hurt a head either.
LEMMA HeadsWiden ==
  ASSUME NEW recs, NEW cps \in Seq(Checkpoint), NEW n \in Nat, NEW m \in Nat,
         n <= m, GoodHeads(recs, cps, n)
  PROVE  GoodHeads(recs, cps, m)
<1>1. \A i \in 1..Len(cps) : cps[i] \in Checkpoint
  BY ElementOfSeq, Zenon
<1>2. \A i \in 1..Len(cps) : cps[i].treeSize \in Nat
  BY <1>1, Zenon DEF Checkpoint
<1> QED
  BY <1>2 DEF GoodHeads

\* A position of a grown sequence of heads is the new one or an earlier one.
LEMMA LastOrBefore ==
  ASSUME NEW k \in Nat, NEW i \in 1..(k + 1) PROVE i \in 1..k \/ i = k + 1
OBVIOUS

\* A head signed over all records by a log whose leaves are their hashes extends
\* the chain of heads.
LEMMA HeadsGrow ==
  ASSUME NEW recs \in Seq(Record), NEW cps \in Seq(Checkpoint), NEW cp \in Checkpoint,
         NEW n, n = Len(recs), recs # <<>>, GoodHeads(recs, cps, n),
         cp.treeSize = n, cp.root = recs[n].hash,
         cp.merkle = SubSeq(Hashes(recs), 1, n), cp.witnessed,
         cp.prevCP = IF cps = <<>> THEN <<>> ELSE Sig(Last(cps))
  PROVE  GoodHeads(recs, Append(cps, cp), n)
<1> DEFINE new == Append(cps, cp)
<1>1. /\ new \in Seq(Checkpoint) /\ Len(new) = Len(cps) + 1 /\ Len(cps) \in Nat
      /\ \A i \in 1..Len(cps) : new[i] = cps[i]
      /\ new[Len(cps) + 1] = cp
  BY AppendProperties, LenProperties
<1> HIDE DEF new
<1>2. n \in Nat \ {0}
  BY LastElement, Zenon
<1>3. ASSUME NEW i \in 1..Len(new)
      PROVE  /\ new[i].prevCP = IF i = 1 THEN <<>> ELSE Sig(new[i - 1])
             /\ new[i].treeSize \in 1..Len(recs)
             /\ new[i].root = recs[new[i].treeSize].hash
             /\ new[i].merkle = SubSeq(Hashes(recs), 1, new[i].treeSize)
             /\ new[i].witnessed /\ new[i].treeSize <= n
  <2>1. CASE i \in 1..Len(cps)
    <3>1. new[i] = cps[i]
      BY <1>1, <2>1, Zenon
    <3>2. ASSUME i # 1 PROVE new[i - 1] = cps[i - 1]
      <4>1. i - 1 \in 1..Len(cps)
        BY <1>1, <2>1, <3>2, SMTT(30)
      <4> QED
        BY <1>1, <4>1, Zenon
    <3> QED
      BY <2>1, <3>1, <3>2, SMTT(30) DEF GoodHeads, VerifyCheckpoints, VerifyWitness
  <2>2. CASE i = Len(cps) + 1
    <3>1. new[i] = cp
      BY <1>1, <2>2, Zenon
    <3>2. cp.prevCP = IF i = 1 THEN <<>> ELSE Sig(new[i - 1])
      <4>1. CASE cps = <<>>
        BY <2>2, <4>1, EmptySeq
      <4>2. CASE cps # <<>>
        <5>1. Len(cps) \in Nat \ {0}
          BY <4>2, LastElement, Zenon
        <5>2. i # 1 /\ new[i - 1] = Last(cps)
          BY <1>1, <2>2, <5>1, SMTT(30) DEF Last
        <5> QED
          BY <4>2, <5>2, Zenon
      <4> QED
        BY <4>1, <4>2, Zenon
    <3> QED
      BY <1>2, <3>1, <3>2
  <2> QED
    BY <1>1, <2>1, <2>2, LastOrBefore, Zenon
<1>4. GoodHeads(recs, new, n)
  BY <1>3, Zenon DEF GoodHeads, VerifyCheckpoints, VerifyWitness
<1> QED
  BY <1>4, Zenon DEF new

LEMMA LastSizeBound ==
  ASSUME NEW recs, NEW cps \in Seq(Checkpoint), NEW n \in Nat, GoodHeads(recs, cps, n)
  PROVE  /\ LastSize(cps) \in Nat /\ LastSize(cps) <= n
         /\ cps # <<>> => /\ LastSize(cps) = Last(cps).treeSize
                          /\ LastSize(cps) > 0
                          /\ Last(cps).merkle = SubSeq(Hashes(recs), 1, LastSize(cps))
<1>1. CASE cps = <<>>
  BY <1>1 DEF LastSize
<1>2. CASE cps # <<>>
  <2>1. Last(cps) \in Checkpoint /\ Len(cps) \in Nat \ {0}
    BY <1>2, LastElement, Zenon
  <2>2. Last(cps) = cps[Len(cps)] /\ Len(cps) \in 1..Len(cps)
    BY <2>1 DEF Last
  <2>3. /\ Last(cps).treeSize <= n /\ Last(cps).treeSize \in Nat
        /\ Last(cps).treeSize \in 1..Len(recs)
        /\ Last(cps).merkle = SubSeq(Hashes(recs), 1, Last(cps).treeSize)
    BY <2>1, <2>2, Zenon DEF GoodHeads, VerifyCheckpoints, Checkpoint
  <2> QED
    BY <1>2, <2>3 DEF LastSize
<1> QED
  BY <1>1, <1>2, Zenon

LEMMA AnchorInit == Init => AnchorInv
<1> SUFFICES ASSUME Init PROVE AnchorInv
  BY Zenon
<1>1. Len(<<>>) = 0
  BY EmptySeq, Zenon
<1>2. GoodHeads(wal, <<>>, synced)
  BY <1>1 DEF GoodHeads, VerifyCheckpoints, VerifyWitness
<1> QED
  <2>1. /\ log.seq = 0 /\ log.leaves = <<>> /\ log.sinceCP = 0 /\ log.checkpoints = <<>>
        /\ witness.lastSize = 0 /\ witness.maxSize = 0 /\ witness.seenRoot = {}
        /\ cpFile.lines = <<>> /\ wal = <<>> /\ pc = "idle"
    BY Zenon DEF Init, EmptyLog, NewWitness
  <2>2. LastSize(<<>>) = 0
    BY Zenon DEF LastSize
  <2>3. 1..0 = {} /\ 0 <= 0 /\ 0 = 0 - 0
    OBVIOUS
  <2>4. LeavesInv
    BY <1>1, <2>1, <2>3, Zenon DEF LeavesInv
  <2>5. HeadsInv
    BY <1>2, <2>1, <2>2, <2>3, Zenon DEF HeadsInv
  <2>6. SidecarInv
    BY <1>2, <2>1, <2>2, <2>3, Zenon DEF SidecarInv
  <2> QED BY <2>4, <2>5, <2>6, Zenon DEF AnchorInv

\* Steps that only add lines, or make them durable.
LEMMA AnchorExtend ==
  ASSUME DurableInv, DurableInv', AnchorInv, synced <= synced',
         \A i \in 1..synced : wal'[i] = wal[i],
         \A i \in 1..log.seq : wal'[i] = wal[i],
         UNCHANGED <<cpFile, up, log, witness>>,
         pc = "checkpoint" <=> pc' = "checkpoint"
  PROVE  AnchorInv'
<1>1. /\ wal \in Seq(Record) /\ wal' \in Seq(Record)
      /\ synced \in Nat /\ synced' \in Nat
      /\ synced <= Len(wal) /\ synced' <= Len(wal')
      /\ Len(wal) \in Nat /\ Len(wal') \in Nat
  BY LenProperties, Zenon DEF DurableInv, TypeOK, TailInv
<1>2. ASSUME NEW cps \in Seq(Checkpoint), GoodHeads(wal, cps, synced)
      PROVE  GoodHeads(wal', cps, synced')
  <2>1. synced <= Len(wal') /\ \A i \in 1..synced : wal[i] = wal'[i]
    BY <1>1
  <2>2. GoodHeads(wal', cps, synced)
    BY <1>1, <1>2, <2>1, HeadsKept, Zenon
  <2> QED
    BY <1>1, <2>2, HeadsWiden, Zenon
<1>3. log.checkpoints \in Seq(Checkpoint) /\ cpFile.lines \in Seq(Checkpoint)
  BY Zenon DEF DurableInv, TypeOK, LogFields, Sidecar
<1>4. LeavesInv'
  BY Zenon DEF AnchorInv, LeavesInv
<1>5. HeadsInv'
  BY <1>2, <1>3, Zenon DEF AnchorInv, HeadsInv
<1>6. SidecarInv'
  BY <1>2, <1>3, Zenon DEF AnchorInv, SidecarInv
<1> QED
  BY <1>4, <1>5, <1>6, Zenon DEF AnchorInv

LEMMA AppendWriteAnchor ==
  ASSUME DurableInv, DurableInv', ChainInv, AnchorInv, AppendWrite
  PROVE  AnchorInv'
<1>1. /\ wal \in Seq(Record) /\ Len(wal) \in Nat /\ synced \in Nat
      /\ synced <= Len(wal) /\ log.seq = Len(wal)
  BY LenProperties, Zenon DEF DurableInv, TypeOK, TailInv, ChainInv, PositionInv,
                       AppendWrite, BeginAppend
<1>2. SealedRecord \in Record
  <2>1. log.seq \in Nat /\ log.prevHash \in Nat /\ minted \in Nat /\ Rotate \in Nat
    BY DEF DurableInv, TypeOK, LogFields, Rotate
  <2> QED
    BY <2>1 DEF SealedRecord, Record
<1>3. \A i \in 1..Len(wal) : wal'[i] = wal[i]
  BY <1>1, <1>2, AppendProperties DEF AppendWrite
<1>4. synced <= synced'
  BY <1>1 DEF AppendWrite, BeginAppend, RotateSync
<1>5. UNCHANGED <<cpFile, up, log, witness>> /\ pc # "checkpoint" /\ pc' # "checkpoint"
  BY Zenon DEF AppendWrite, BeginAppend
<1> QED
  BY <1>1, <1>3, <1>4, <1>5, AnchorExtend, SMTT(30)

LEMMA AppendWriteFailsAnchor ==
  ASSUME DurableInv, DurableInv', AnchorInv, AppendWriteFails
  PROVE  AnchorInv'
<1>1. Len(wal) \in Nat /\ synced \in Nat /\ synced <= Len(wal)
  BY LenProperties, Zenon DEF DurableInv, TypeOK, TailInv
<1>2. synced <= synced'
  BY <1>1 DEF AppendWriteFails, BeginAppend, RotateSync
<1>3. UNCHANGED <<wal, cpFile, up, log, witness, pc>>
  BY Zenon DEF AppendWriteFails
<1> QED
  BY <1>2, <1>3, AnchorExtend, Zenon

LEMMA AppendCheckpointAnchor ==
  ASSUME "cpLost" \notin Faults, DurableInv, AnchorInv, AppendCheckpoint
  PROVE  AnchorInv'
<1>1. LeavesInv' /\ HeadsInv'
  BY Zenon DEF AppendCheckpoint, AnchorInv, LeavesInv, HeadsInv
<1>2. cpFile' = CheckpointWritten(cpFile, Last(log.checkpoints))
  BY Zenon DEF AppendCheckpoint
<1>3. CASE cpFile'.garbled
  BY <1>1, <1>3, Zenon DEF AnchorInv, SidecarInv
<1>4. CASE ~cpFile'.garbled
  <2>1. /\ ~cpFile.garbled
        /\ cpFile'.lines = Append(cpFile.lines, Last(log.checkpoints))
    BY <1>2, <1>4, Zenon DEF CheckpointWritten, DurableInv, TypeOK, Sidecar
  <2>2. cpFile'.lines = log.checkpoints
    BY <2>1, Zenon DEF AppendCheckpoint, AnchorInv, SidecarInv
  <2>3. GoodHeads(wal, log.checkpoints, synced)
    BY Zenon DEF AppendCheckpoint, AnchorInv, HeadsInv
  <2> QED
    BY <1>1, <2>2, <2>3, Zenon DEF AppendCheckpoint, AnchorInv, SidecarInv
<1> QED
  BY <1>3, <1>4, Zenon

LEMMA CrashAnchor ==
  ASSUME DurableInv, AnchorInv, Crash
  PROVE  AnchorInv'
<1>1. /\ wal \in Seq(Record) /\ Len(wal) \in Nat /\ synced \in Nat
      /\ synced <= Len(wal) /\ synced' = synced
  BY LenProperties, Zenon DEF DurableInv, TypeOK, TailInv, Crash
<1>2. PICK k \in synced..Len(wal) : wal' = SubSeq(wal, 1, k)
  BY Zenon DEF Crash
<1>3. k \in 0..Len(wal) /\ synced <= k
  BY <1>1
<1>4. wal' \in Seq(Record) /\ Len(wal') = k /\ \A i \in 1..k : wal'[i] = wal[i]
  BY <1>1, <1>2, <1>3, Prefix, Zenon
<1>5. ASSUME NEW cps \in Seq(Checkpoint), GoodHeads(wal, cps, synced)
      PROVE  GoodHeads(wal', cps, synced)
  <2>1. synced <= Len(wal') /\ \A i \in 1..synced : wal[i] = wal'[i]
    BY <1>1, <1>3, <1>4
  <2> QED
    BY <1>1, <1>4, <1>5, <2>1, HeadsKept, Zenon
<1>6. log.checkpoints \in Seq(Checkpoint) /\ cpFile.lines \in Seq(Checkpoint)
  BY Zenon DEF DurableInv, TypeOK, LogFields, Sidecar
<1>7. ASSUME ~cpFile'.garbled
      PROVE  ~cpFile.garbled /\ (\/ cpFile'.lines = cpFile.lines
                                 \/ up /\ cpFile'.lines = log.checkpoints)
  <2>1. CASE cpFile' = cpFile
    BY <1>7, <2>1, Zenon
  <2>2. CASE /\ pc = "checkpoint"
             /\ cpFile' = CheckpointWritten(cpFile, Last(log.checkpoints))
    BY <1>7, <2>2, Zenon DEF CheckpointWritten, DurableInv, TypeOK, Sidecar, AnchorInv,
                      SidecarInv, Crash
  <2>3. CASE /\ pc = "checkpoint"
             /\ cpFile' \in CheckpointTorn(cpFile, Last(log.checkpoints))
    BY <1>7, <2>3, Zenon DEF CheckpointTorn, CheckpointWritten, DurableInv, TypeOK, Sidecar,
                      AnchorInv, SidecarInv, Crash
  <2> QED
    BY <2>1, <2>2, <2>3, Zenon DEF Crash
<1>8. SidecarInv'
  BY <1>1, <1>5, <1>6, <1>7, Zenon DEF Crash, AnchorInv, HeadsInv, SidecarInv
<1> QED
  BY <1>8, Zenon DEF Crash, AnchorInv, LeavesInv, HeadsInv

LEMMA BootAnchor ==
  ASSUME DurableInv, ChainInv, AnchorInv, Boot
  PROVE  AnchorInv'
<1> DEFINE cps == ReadCheckpoints(cpFile)
<1>1. /\ wal \in Seq(Record) /\ Len(wal) \in Nat /\ synced \in Nat
      /\ synced <= Len(wal) /\ cpFile \in Sidecar
      /\ UNCHANGED <<wal, synced, cpFile, pc>> /\ pc = "idle"
  BY LenProperties, Zenon DEF DurableInv, TypeOK, TailInv, StepInv, Boot
<1>2. cps \in Seq(Checkpoint) /\ GoodHeads(wal, cps, synced)
  <2>1. CASE cpFile.garbled
    BY <2>1, EmptySeq DEF ReadCheckpoints, GoodHeads, VerifyCheckpoints, VerifyWitness
  <2>2. CASE ~cpFile.garbled
    BY <1>1, <2>2, Zenon DEF ReadCheckpoints, AnchorInv, SidecarInv, Sidecar
  <2> QED
    BY <2>1, <2>2, Zenon
<1> HIDE DEF cps
<1>3. /\ LastSize(cps) \in Nat /\ LastSize(cps) <= synced
      /\ cps # <<>> => LastSize(cps) = Last(cps).treeSize
  BY <1>1, <1>2, LastSizeBound, Zenon
<1>4. /\ log'.checkpoints = cps /\ log'.seq = Len(wal)
      /\ log'.sinceCP = Len(wal) - LastSize(cps)
      /\ log'.leaves = Hashes(wal)
  <2>1. CASE wal = <<>>
    <3>1. Len(wal) = 0 /\ Hashes(wal) = <<>> /\ LastSize(cps) = 0
      BY <1>1, <1>3, <2>1, EmptySeq DEF Hashes
    <3>2. log' = [EmptyLog EXCEPT !.checkpoints = cps]
      BY <2>1, Zenon DEF Boot, ReplayWAL, cps
    <3> QED
      BY <3>1, <3>2 DEF EmptyLog
  <2>2. CASE wal # <<>>
    <3>1. Len(wal) \in Nat \ {0}
      BY <1>1, <2>2, LastElement, Zenon
    <3>2. Last(wal).seq = Len(wal)
      BY <3>1 DEF Last, ChainInv, NoSeqGap, VerifyRecords
    <3>3. /\ log'.checkpoints = cps /\ log'.seq = Last(wal).seq
          /\ log'.sinceCP = Last(wal).seq - LastSize(cps)
          /\ log'.leaves = Hashes(wal)
      BY <2>2, Zenon DEF Boot, ReplayWAL, cps, LastSize
    <3> QED
      BY <3>2, <3>3, Zenon
  <2> QED
    BY <2>1, <2>2, Zenon
<1>5. witness' = IF cps = <<>> THEN NewWitness ELSE CounterSign(NewWitness, Last(cps))
  BY Zenon DEF Boot, Restore, cps
<1>6. /\ witness'.lastSize = LastSize(cps) /\ witness'.maxSize = LastSize(cps)
      /\ cps # <<>> => witness'.lastMerkle = Last(cps).merkle
      /\ \A r \in witness'.seenRoot : r[1] <= witness'.maxSize
  <2>1. CASE cps = <<>>
    BY <1>5, <2>1, Zenon DEF NewWitness, LastSize
  <2>2. CASE cps # <<>>
    <3>1. /\ witness'.seenRoot = {<<Last(cps).treeSize, Last(cps).root>>}
          /\ witness'.maxSize = Last(cps).treeSize
          /\ witness'.lastSize = Last(cps).treeSize
          /\ witness'.lastMerkle = Last(cps).merkle
      BY <1>3, <1>5, <2>2 DEF NewWitness, CounterSign
    <3> QED
      BY <1>3, <2>2, <3>1, SMTT(30)
  <2> QED
    BY <2>1, <2>2, Zenon
<1>7. LeavesInv'
  BY <1>1, <1>4, HashesOfRecords, ZenonT(30) DEF LeavesInv
<1>8. HeadsInv'
  <2>1. LastSize(cps) <= Len(wal)
    BY <1>1, <1>3
  <2> QED BY <1>1, <1>2, <1>4, <1>6, <2>1, Zenon DEF HeadsInv
<1>9. SidecarInv'
  BY <1>1, <1>4, Zenon DEF AnchorInv, SidecarInv, cps, ReadCheckpoints
<1> QED
  BY <1>7, <1>8, <1>9, Zenon DEF AnchorInv

LEMMA AppendCommitAnchor ==
  ASSUME DurableInv, ChainInv, AnchorInv, AppendCommit
  PROVE  /\ AnchorInv'
         /\ Len(wal) - LastSize(log'.checkpoints) < CheckpointEvery
<1> DEFINE l == Commit(log, Last(wal))
           cp == NewCheckpoint(l)
           signed == CounterSigns(witness, cp)
           stored == [treeSize |-> cp.treeSize, root |-> cp.root,
                      merkle |-> cp.merkle, prevCP |-> cp.prevCP,
                      witnessed |-> signed]
           n == Len(wal)
           cps == log.checkpoints
<1>1. /\ wal \in Seq(Record) /\ wal # <<>> /\ log \in LogFields /\ up /\ pc = "sync"
      /\ synced \in Nat /\ synced <= Len(wal) /\ witness \in WitnessFields
      /\ cpFile \in Sidecar
  BY Zenon DEF AppendCommit, DurableInv, StepInv, TypeOK, TailInv
<1>2. Last(wal) \in Record /\ n \in Nat \ {0} /\ Last(wal) = wal[n]
  BY <1>1, LastElement, Zenon DEF Last
<1>3. log.seq = n - 1 /\ Last(wal).seq = n
  BY <1>1, <1>2, SMTT(30) DEF ChainInv, PositionInv, NoSeqGap, VerifyRecords
<1>4. /\ l \in LogFields /\ l.seq = n /\ l.prevHash = wal[n].hash
      /\ l.leaves = Append(log.leaves, wal[n].hash)
      /\ l.sinceCP = log.sinceCP + 1 /\ l.checkpoints = cps
  BY <1>1, <1>2, <1>3, CommitType, SMTT(30)
<1>5. /\ cps \in Seq(Checkpoint) /\ GoodHeads(wal, cps, synced)
      /\ LastSize(cps) <= n - 1 /\ log.sinceCP = n - 1 - LastSize(cps)
      /\ witness.lastSize = LastSize(cps) /\ witness.maxSize = LastSize(cps)
      /\ cps # <<>> => witness.lastMerkle = Last(cps).merkle
      /\ \A r \in witness.seenRoot : r[1] <= witness.maxSize
  BY <1>1, <1>3, Zenon DEF AnchorInv, HeadsInv, LogFields
<1>6. LastSize(cps) \in Nat
      /\ (cps # <<>> => /\ LastSize(cps) > 0
                        /\ Last(cps).merkle = SubSeq(Hashes(wal), 1, LastSize(cps)))
  BY <1>1, <1>5, LastSizeBound, Zenon
<1>7. GoodHeads(wal, cps, n)
  BY <1>1, <1>2, <1>5, HeadsWiden, Zenon
<1>8. wal' = wal /\ synced' = n /\ cpFile' = cpFile /\ up' = up
  BY Zenon DEF AppendCommit
<1>9. /\ l.leaves = SubSeq(Hashes(wal), 1, n)
      /\ Len(l.leaves) = n /\ \A i \in 1..n : l.leaves[i] = wal[i].hash
  <2>1. log.leaves \in Seq(Nat) /\ wal[n].hash \in Nat
    BY <1>1, <1>2, Zenon DEF LogFields, Record
  <2>2. Len(log.leaves) = n - 1 /\ \A i \in 1..(n - 1) : log.leaves[i] = wal[i].hash
    BY <1>1, <1>3, ZenonT(30) DEF AnchorInv, LeavesInv
  <2>3. /\ l.leaves \in Seq(Nat) /\ Len(l.leaves) = n
        /\ \A i \in 1..n : l.leaves[i] = wal[i].hash
    <3>1. ASSUME NEW s \in Seq(Nat), NEW x \in Nat
          PROVE  /\ Append(s, x) \in Seq(Nat) /\ Len(Append(s, x)) = Len(s) + 1
                 /\ \A i \in 1..Len(s) : Append(s, x)[i] = s[i]
                 /\ Append(s, x)[Len(s) + 1] = x
      BY ONLY <3>1
    <3>2. n - 1 + 1 = n /\ \A i \in 1..n : i = n \/ i \in 1..(n - 1)
      BY ONLY <1>2
    <3>3. /\ l.leaves \in Seq(Nat) /\ Len(l.leaves) = Len(log.leaves) + 1
          /\ \A i \in 1..Len(log.leaves) : l.leaves[i] = log.leaves[i]
          /\ l.leaves[Len(log.leaves) + 1] = wal[n].hash
      <4> DEFINE new == Append(log.leaves, wal[n].hash)
      <4>1. /\ new \in Seq(Nat) /\ Len(new) = Len(log.leaves) + 1
            /\ \A i \in 1..Len(log.leaves) : new[i] = log.leaves[i]
            /\ new[Len(log.leaves) + 1] = wal[n].hash
        BY <2>1, <3>1, Zenon
      <4>2. l.leaves = new
        BY <1>4, Zenon
      <4> HIDE DEF new, l
      <4> QED BY <4>1, <4>2, Zenon
    <3> QED BY <2>2, <3>2, <3>3, Zenon
  <2>4. /\ SubSeq(Hashes(wal), 1, n) \in Seq(Nat)
        /\ Len(SubSeq(Hashes(wal), 1, n)) = n
        /\ \A i \in 1..n : SubSeq(Hashes(wal), 1, n)[i] = wal[i].hash
    BY <1>1, <1>2, PrefixOfHashes
  <2> QED
    BY <2>3, <2>4, SeqEqual
<1> HIDE DEF l
<1>10. /\ cp.treeSize = n /\ cp.root = wal[n].hash
       /\ cp.merkle = SubSeq(Hashes(wal), 1, n)
       /\ cp.prevCP = IF cps = <<>> THEN <<>> ELSE Sig(Last(cps))
  BY <1>4, <1>9, Zenon DEF NewCheckpoint
<1>11. stored \in Checkpoint
  BY <1>4, CheckpointType, Zenon DEF CounterSigns, Consistent
<1> HIDE DEF cp
<1>12. signed
  <2>1. ~\E r \in witness.seenRoot : r[1] = cp.treeSize
    <3>1. cp.treeSize = n /\ n \in Nat /\ LastSize(cps) \in Nat /\ LastSize(cps) <= n - 1
      BY <1>2, <1>5, <1>6, <1>10, Zenon
    <3>2. ASSUME NEW r \in witness.seenRoot PROVE r[1] # cp.treeSize
      <4>1. r[1] \in Nat
        BY <1>1, Zenon DEF WitnessFields
      <4>2. r[1] <= LastSize(cps)
        BY <1>5, Zenon
      <4> QED
        BY <3>1, <4>1, <4>2
    <3> QED
      BY <3>2, Zenon
  <2>2. cp.treeSize > witness.maxSize
    BY <1>2, <1>5, <1>6, <1>10, SMTT(30)
  <2>3. witness.lastSize > 0 =>
          Consistent(witness.lastSize, witness.lastMerkle, cp.treeSize, cp.merkle)
    <3> SUFFICES ASSUME witness.lastSize > 0
                 PROVE  Consistent(witness.lastSize, witness.lastMerkle,
                                   cp.treeSize, cp.merkle)
      BY Zenon
    <3> DEFINE m == LastSize(cps)
    <3>1. cps # <<>>
      <4>1. ~(0 > 0)
        OBVIOUS
      <4>2. cps = <<>> => LastSize(cps) = 0
        BY Zenon DEF LastSize
      <4> QED BY <1>5, <4>1, <4>2, Zenon
    <3>2. m \in Nat /\ m <= n
      BY <1>2, <1>5, <1>6
    <3>3. witness.lastMerkle = SubSeq(Hashes(wal), 1, m) /\ witness.lastSize = m
      BY <1>5, <1>6, <3>1, Zenon
    <3> HIDE DEF m
    <3>4. /\ SubSeq(Hashes(wal), 1, m) \in Seq(Nat)
          /\ Len(SubSeq(Hashes(wal), 1, m)) = m
          /\ \A i \in 1..m : SubSeq(Hashes(wal), 1, m)[i] = wal[i].hash
      BY <1>1, <1>2, <3>2, PrefixOfHashes, SMTT(30)
    <3>5. /\ cp.merkle \in Seq(Nat) /\ Len(cp.merkle) = n
          /\ \A i \in 1..n : cp.merkle[i] = wal[i].hash
      BY <1>1, <1>2, <1>10, PrefixOfHashes, SMTT(30)
    <3>6. /\ SubSeq(cp.merkle, 1, m) \in Seq(Nat)
          /\ Len(SubSeq(cp.merkle, 1, m)) = m
          /\ \A i \in 1..m : SubSeq(cp.merkle, 1, m)[i] = cp.merkle[i]
      BY <1>2, <3>2, <3>5, Prefix, SMTT(30)
    <3>7. \A i \in 1..m : SubSeq(cp.merkle, 1, m)[i] = SubSeq(Hashes(wal), 1, m)[i]
      BY <1>2, <3>2, <3>4, <3>5, <3>6, SMTT(30)
    <3>8. SubSeq(cp.merkle, 1, m) = SubSeq(Hashes(wal), 1, m)
      BY <3>4, <3>6, <3>7, SeqEqual, Zenon
    <3> QED
      BY <1>10, <3>3, <3>5, <3>8, Zenon DEF Consistent
  <2> QED
    BY <2>1, <2>2, <2>3, Zenon DEF CounterSigns
<1>13. CASE l.sinceCP >= CheckpointEvery
  <2> HIDE DEF signed, stored
  <2>1. /\ log' = [l EXCEPT !.checkpoints = Append(@, stored), !.sinceCP = 0]
        /\ witness' = CounterSign(witness, cp) /\ pc' = "checkpoint"
    BY <1>12, <1>13, Zenon DEF AppendCommit, l, cp, signed, stored
  <2> DEFINE new == Append(cps, stored)
  <2>2. /\ new \in Seq(Checkpoint) /\ new # <<>> /\ Last(new) = stored
    BY <1>5, <1>11, AppendProperties DEF Last
  <2>3. log' = [l EXCEPT !.checkpoints = new, !.sinceCP = 0]
    BY <1>4, <2>1, Zenon
  <2>4. GoodHeads(wal, new, n)
    <3>1. /\ stored.treeSize = n /\ stored.root = wal[n].hash
          /\ stored.merkle = SubSeq(Hashes(wal), 1, n) /\ stored.witnessed
          /\ stored.prevCP = IF cps = <<>> THEN <<>> ELSE Sig(Last(cps))
      BY <1>10, <1>12, ZenonT(30) DEF stored
    <3> QED
      BY <1>1, <1>5, <1>7, <1>11, <3>1, HeadsGrow, Zenon
  <2>5. LastSize(new) = n /\ stored.merkle = cp.merkle
    <3>1. stored.treeSize = n /\ stored.merkle = cp.merkle
      BY <1>10, Zenon DEF stored
    <3> QED BY <2>2, <3>1, Zenon DEF LastSize
  <2> HIDE DEF new
  <2>6. /\ log'.seq = n /\ log'.leaves = l.leaves
        /\ log'.sinceCP = 0 /\ log'.checkpoints = new
    BY <1>4, <2>2, <2>3, Anchored, Zenon
  <2>7. /\ witness'.lastSize = n /\ witness'.maxSize = n
        /\ witness'.lastMerkle = cp.merkle
        /\ \A r \in witness'.seenRoot : r[1] <= n
    <3>1. \A r \in witness.seenRoot : r[1] \in Nat /\ r[1] <= n
      BY <1>1, <1>2, <1>5, <1>6, SMTT(30) DEF WitnessFields
    <3> QED
      BY <1>2, <1>5, <1>6, <1>10, <2>1, <3>1, SMTT(30) DEF CounterSign
  <2>8. LeavesInv'
    BY <1>8, <1>9, <2>6, ZenonT(30) DEF LeavesInv
  <2>9. HeadsInv'
    BY <1>2, <1>8, <2>2, <2>4, <2>5, <2>6, <2>7, SMTT(30) DEF HeadsInv
  <2>10. SidecarInv'
    <3>1. ~cpFile.garbled => cps = cpFile.lines /\ GoodHeads(wal, cps, n)
      BY <1>1, <1>7, Zenon DEF AnchorInv, SidecarInv
    <3> QED
      BY <1>8, <2>1, <2>2, <2>6, <3>1, Zenon DEF SidecarInv, new
  <2>11. Len(wal) - LastSize(log'.checkpoints) < CheckpointEvery
    BY <1>2, <2>5, <2>6, ConstantsAssumption, SMTT(30)
  <2> QED
    BY <2>8, <2>9, <2>10, <2>11, Zenon DEF AnchorInv
<1>14. CASE ~(l.sinceCP >= CheckpointEvery)
  <2>1. log' = l /\ witness' = witness /\ pc' = "idle"
    BY <1>14, Zenon DEF AppendCommit, l
  <2>2. LeavesInv'
    BY <1>4, <1>8, <1>9, <2>1, ZenonT(30) DEF LeavesInv
  <2>3. HeadsInv'
    <3>1. \A s \in Nat : s <= n - 1 => s <= n /\ n - 1 - s + 1 = n - s
      BY ONLY <1>2
    <3>2. LastSize(cps) <= n /\ l.sinceCP = n - LastSize(cps)
      BY <1>4, <1>5, <1>6, <3>1, Zenon
    <3> QED BY <1>4, <1>5, <1>7, <1>8, <2>1, <3>2, Zenon DEF HeadsInv
  <2>4. SidecarInv'
    BY <1>1, <1>4, <1>7, <1>8, <2>1, Zenon DEF AnchorInv, SidecarInv
  <2>5. Len(wal) - LastSize(log'.checkpoints) < CheckpointEvery
    <3>1. \A s \in Nat : ~(n - 1 - s + 1 >= CheckpointEvery) => n - s < CheckpointEvery
      BY ONLY <1>2, ConstantsAssumption
    <3>2. ~(n - 1 - LastSize(cps) + 1 >= CheckpointEvery)
      BY <1>4, <1>5, <1>14, Zenon
    <3> QED BY <1>4, <1>6, <2>1, <3>1, <3>2, Zenon
  <2> QED
    BY <2>2, <2>3, <2>4, <2>5, Zenon DEF AnchorInv
<1> QED
  BY <1>13, <1>14, Zenon

LEMMA AnchorNext ==
  ASSUME Faults \cap {"sync", "cpLost"} = {},
         DurableInv, DurableInv', ChainInv, AnchorInv, [Next]_vars
  PROVE  AnchorInv'
<1> USE DEF AnchorInv, LeavesInv, HeadsInv, SidecarInv
<1>1. CASE AppendWrite
  BY <1>1, AppendWriteAnchor, Zenon
<1>2. CASE AppendWriteFails
  BY <1>2, AppendWriteFailsAnchor, Zenon
<1>3. CASE AppendSyncFails
  BY <1>3, Zenon DEF AppendSyncFails
<1>4. CASE AppendCommit
  BY <1>4, AppendCommitAnchor, Zenon
<1>5. CASE AppendCheckpoint
  BY <1>5, AppendCheckpointAnchor, Zenon
<1>6. CASE Act
  BY <1>6, Zenon DEF Act, diskVars
<1>7. CASE ReadAll
  BY <1>7, Zenon DEF ReadAll, procVars
<1>8. CASE Crash
  BY <1>8, CrashAnchor, Zenon
<1>9. CASE Boot
  BY <1>9, BootAnchor, Zenon
<1>10. CASE UNCHANGED vars
  BY <1>10, Zenon DEF vars
<1> QED
  BY <1>1, <1>2, <1>3, <1>4, <1>5, <1>6, <1>7, <1>8, <1>9, <1>10, Zenon DEF Next

LEMMA AnchorAlways ==
  ASSUME Faults \cap {"sync", "cpLost"} = {}
  PROVE  Spec => []AnchorInv
<1>1. Init => AnchorInv
  BY AnchorInit, Zenon
<1>2. DurableInv /\ DurableInv' /\ ChainInv /\ AnchorInv /\ [Next]_vars => AnchorInv'
  BY AnchorNext, Zenon
<1>3. Spec => []ChainInv
  BY Chained, Zenon
<1> QED
  BY <1>1, <1>2, <1>3, Durable, PTL DEF Spec

\* A log that nobody altered passes SelfVerify whenever it is asked, however
\* often it crashed, even with a torn sidecar: no false tamper alarm.
THEOREM NoFalseAlarm ==
  ASSUME Faults \cap {"sync", "cpLost"} = {}
  PROVE  Spec => []SelfVerifies
<1>1. ChainInv /\ AnchorInv => SelfVerifies
  BY Zenon DEF ChainInv, NoSeqGap, AnchorInv, HeadsInv, GoodHeads, SelfVerifies, SelfVerify
<1>2. Spec => []ChainInv
  BY Chained, Zenon
<1> QED
  BY <1>1, <1>2, AnchorAlways, PTL

\* A committed record is at most CheckpointEvery - 1 records away from a signed
\* tree head, across restarts too.
THEOREM CadenceHolds ==
  ASSUME Faults \cap {"sync", "cpLost"} = {}
  PROVE  Spec => AnchoredWithinCadence
<1>1. DurableInv /\ ChainInv /\ AnchorInv =>
        (AppendCommit => Len(wal) - LastSize(log'.checkpoints) < CheckpointEvery)
  BY AppendCommitAnchor, Zenon
<1>2. DurableInv /\ ChainInv /\ AnchorInv =>
        [AppendCommit =>
           LET cps == log'.checkpoints
           IN Len(wal) - (IF cps = <<>> THEN 0 ELSE Last(cps).treeSize)
                < CheckpointEvery]_vars
  BY <1>1, Zenon DEF LastSize
<1>3. Spec => []ChainInv
  BY Chained, Zenon
<1> QED
  BY <1>2, <1>3, AnchorAlways, Durable, PTL DEF AnchoredWithinCadence

-----------------------------------------------------------------------------
(***************************************************************************)
(* The window of recent records                                            *)
(***************************************************************************)
\* One list is the end of another.
EndOf(a, b) ==
  /\ Len(a) <= Len(b)
  /\ \A i \in 1..Len(a) : a[i] = b[Len(b) - Len(a) + i]

LEMMA EndIsLastN ==
  ASSUME NEW a \in Seq(Nat), NEW b \in Seq(Nat), EndOf(a, b)
  PROVE  a = LastN(b, Len(a))
<1>1. Len(a) \in Nat /\ Len(b) \in Nat /\ Len(a) \in 0..Len(b)
  BY LenProperties DEF EndOf
<1>2. /\ LastN(b, Len(a)) \in Seq(Nat) /\ Len(LastN(b, Len(a))) = Len(a)
      /\ \A i \in 1..Len(a) : LastN(b, Len(a))[i] = b[Len(b) - Len(a) + i]
  BY <1>1, Suffix, Zenon
<1>3. \A i \in 1..Len(a) : a[i] = LastN(b, Len(a))[i]
  BY <1>2, Zenon DEF EndOf
<1> QED BY <1>2, <1>3, SeqEqual, Zenon

\* The ring of a running log is the end of its leaves, and short of its capacity
\* only while it holds them all.
WindowOf(l) ==
  /\ Len(l.records) <= 2 * RingCap
  /\ Len(l.records) >= RingCap \/ Len(l.records) = Len(l.leaves)
  /\ EndOf(l.records, l.leaves)

LEMMA CommitWindow ==
  ASSUME NEW l \in LogFields, NEW r \in Record, WindowOf(l)
  PROVE  WindowOf(Commit(l, r))
<1> DEFINE window == Append(l.records, r.hash)
           leaves == Append(l.leaves, r.hash)
           m == Len(l.records)
           n == Len(l.leaves)
<1>0. RingCap \in Nat \ {0} /\ r.hash \in Nat /\ l.records \in Seq(Nat) /\ l.leaves \in Seq(Nat) /\ m \in Nat /\ n \in Nat
  BY ConstantsAssumption, LenProperties, Zenon DEF LogFields, Record
<1>1. /\ window \in Seq(Nat) /\ Len(window) = m + 1 /\ window[m + 1] = r.hash /\ \A i \in 1..m : window[i] = l.records[i]
      /\ leaves \in Seq(Nat) /\ Len(leaves) = n + 1 /\ leaves[n + 1] = r.hash /\ \A i \in 1..n : leaves[i] = l.leaves[i]
  BY <1>0, AppendProperties
<1>2. Commit(l, r).leaves = leaves
      /\ Commit(l, r).records = IF Len(window) > 2 * RingCap THEN LastN(window, RingCap) ELSE window
  BY Zenon DEF Commit, LogFields
<1> HIDE DEF window, leaves
<1>3. m <= n /\ (m >= RingCap \/ m = n) /\ \A i \in 1..m : l.records[i] = l.leaves[n - m + i]
  BY Zenon DEF WindowOf, EndOf
<1> HIDE DEF m, n
<1>4. EndOf(window, leaves)
  <2>1. ASSUME NEW i \in 1..m PROVE window[i] = leaves[Len(leaves) - Len(window) + i]
    <3>1. n - m + i \in 1..n /\ (n + 1) - (m + 1) + i = n - m + i
      BY <1>0, <1>3
    <3> QED BY <1>1, <1>3, <3>1, ZenonT(30)
  <2>2. window[m + 1] = leaves[Len(leaves) - Len(window) + (m + 1)]
    BY <1>0, <1>1
  <2>3. \A i \in 1..m + 1 : i \in 1..m \/ i = m + 1
    BY <1>0
  <2>4. m + 1 <= n + 1
    BY <1>0, <1>3, SMTT(30)
  <2> QED BY <1>1, <2>1, <2>2, <2>3, <2>4, Zenon DEF EndOf
<1>5. CASE Len(window) > 2 * RingCap
  <2> DEFINE kept == LastN(window, RingCap)
  <2>1. RingCap \in 0..Len(window)
    BY <1>0, <1>1, <1>5
  <2>2. kept \in Seq(Nat) /\ Len(kept) = RingCap /\ \A i \in 1..RingCap : kept[i] = window[Len(window) - RingCap + i]
    BY <1>1, <2>1, Suffix, ZenonT(30)
  <2> HIDE DEF kept
  <2>3. RingCap <= n + 1
    BY <1>0, <1>1, <1>3, <1>5, SMTT(30)
  <2>4. ASSUME NEW i \in 1..RingCap PROVE kept[i] = leaves[Len(leaves) - RingCap + i]
    <3> DEFINE j == m + 1 - RingCap + i
    <3>0. i \in 1..RingCap /\ RingCap <= m + 1 /\ m \in Nat /\ n \in Nat /\ RingCap \in Nat
      BY <1>0, <1>1, <2>1, <2>4, SMTT(30)
    <3>1. j \in 1..m + 1 /\ (n + 1) - (m + 1) + j = (n + 1) - RingCap + i
      BY ONLY <3>0
    <3>a. Len(window) - RingCap + i = j
      BY <1>1, <3>0
    <3>2. kept[i] = window[j]
      BY <2>2, <3>a, Zenon
    <3> HIDE DEF j
    <3>3. window[j] = leaves[(n + 1) - (m + 1) + j]
      BY <1>1, <1>4, <3>1, Zenon DEF EndOf
    <3> QED BY <1>1, <3>1, <3>2, <3>3, Zenon
  <2>5. EndOf(kept, leaves)
    BY <1>1, <2>2, <2>3, <2>4, Zenon DEF EndOf
  <2>6. Commit(l, r).records = kept
    BY <1>2, <1>5, Zenon DEF kept
  <2> QED BY <1>0, <1>2, <2>2, <2>5, <2>6, SMTT(30) DEF WindowOf
<1>6. CASE ~(Len(window) > 2 * RingCap)
  <2>1. Len(window) <= 2 * RingCap /\ (Len(window) >= RingCap \/ Len(window) = Len(leaves))
    BY <1>0, <1>1, <1>3, <1>6
  <2> QED BY <1>2, <1>4, <1>6, <2>1, Zenon DEF WindowOf
<1> QED BY <1>5, <1>6, Zenon

LEMMA ReplayWindow ==
  ASSUME NEW recs \in Seq(Record), NEW f
  PROVE  WindowOf(ReplayWAL(recs, f))
<1>0. RingCap \in Nat \ {0} /\ Len(recs) \in Nat
  BY ConstantsAssumption, LenProperties, Zenon
<1>1. CASE recs = <<>>
  <2>1. ReplayWAL(recs, f).records = <<>> /\ ReplayWAL(recs, f).leaves = <<>>
    BY <1>1, Zenon DEF ReplayWAL, EmptyLog
  <2>2. Len(<<>>) = 0
    BY EmptySeq, Zenon
  <2> QED BY <1>0, <2>1, <2>2 DEF WindowOf, EndOf
<1>2. CASE recs # <<>>
  <2> DEFINE h == Hashes(recs)
             n == Len(recs)
  <2>1. h \in Seq(Nat) /\ Len(h) = n
    BY HashesOfRecords, Zenon
  <2>2. ReplayWAL(recs, f).leaves = h /\ ReplayWAL(recs, f).records = IF n > RingCap THEN LastN(h, RingCap) ELSE h
    BY <1>2, Zenon DEF ReplayWAL
  <2> HIDE DEF h
  <2>3. CASE n > RingCap
    <3>1. RingCap \in 0..Len(h)
      BY <1>0, <2>1, <2>3
    <3>2. Len(LastN(h, RingCap)) = RingCap /\ \A i \in 1..RingCap : LastN(h, RingCap)[i] = h[Len(h) - RingCap + i]
      BY <2>1, <3>1, Suffix, Zenon
    <3>3. EndOf(LastN(h, RingCap), h)
      BY <1>0, <2>1, <2>3, <3>2, SMTT(30) DEF EndOf
    <3> QED BY <1>0, <2>2, <2>3, <3>2, <3>3, SMTT(30) DEF WindowOf
  <2>4. CASE ~(n > RingCap)
    <3>1. \A i \in 1..n : Len(h) - Len(h) + i = i
      BY <1>0, <2>1
    <3>2. EndOf(h, h)
      BY <1>0, <2>1, <3>1 DEF EndOf
    <3> QED BY <1>0, <2>1, <2>2, <2>4, <3>2, SMTT(30) DEF WindowOf
  <2> QED BY <2>3, <2>4, Zenon
<1> QED BY <1>1, <1>2, Zenon

WindowInv == up => WindowOf(log)

LEMMA WindowNext ==
  ASSUME DurableInv, WindowInv, [Next]_vars
  PROVE  WindowInv'
<1>1. CASE AppendCommit
  <2>1. up /\ up' = up /\ wal # <<>> /\ wal \in Seq(Record) /\ log \in LogFields
    BY <1>1, Zenon DEF AppendCommit, DurableInv, TypeOK, StepInv
  <2>2. Last(wal) \in Record
    BY <2>1, LastElement, Zenon
  <2> DEFINE l == Commit(log, Last(wal))
  <2>3. WindowOf(l) /\ l \in LogFields
    BY <2>1, <2>2, CommitWindow, CommitType, Zenon DEF WindowInv
  <2>4. log'.records = l.records /\ log'.leaves = l.leaves
    <3>1. l \in LogFields
      BY <2>3, Zenon
    <3> HIDE DEF l
    <3>2. \A x, c : [l EXCEPT !.checkpoints = Append(@, c), !.sinceCP = x].records = l.records
                    /\ [l EXCEPT !.checkpoints = Append(@, c), !.sinceCP = x].leaves = l.leaves
      BY <3>1, Zenon DEF LogFields
    <3> QED BY <1>1, <3>2, ZenonT(30) DEF AppendCommit, l
  <2> HIDE DEF l
  <2> QED BY <2>3, <2>4, ZenonT(30) DEF WindowInv, WindowOf
<1>2. CASE Boot
  <2>1. wal \in Seq(Record) /\ log' = ReplayWAL(wal, cpFile)
    BY <1>2, Zenon DEF Boot, DurableInv, TypeOK
  <2> QED BY <2>1, ReplayWindow, Zenon DEF WindowInv
<1>3. CASE Crash
  BY <1>3, Zenon DEF Crash, WindowInv
<1>4. CASE AppendWrite \/ AppendWriteFails \/ AppendSyncFails \/ AppendCheckpoint \/ Act \/ ReadAll \/ UNCHANGED vars
  <2>1. UNCHANGED <<up, log>>
    BY <1>4, Zenon DEF AppendWrite, AppendWriteFails, AppendSyncFails, AppendCheckpoint, Act, ReadAll, vars, procVars
  <2> QED BY <2>1, Zenon DEF WindowInv, WindowOf, EndOf
<1> QED BY <1>1, <1>2, <1>3, <1>4, Zenon DEF Next

\* Recent reads the end of the chain, for every capacity of the ring, through every
\* trim, crash and replay.
THEOREM RecentIsTailAlways == Spec => []RecentIsTail
<1>1. Init => WindowInv
  <2>1. Len(<<>>) = 0 /\ RingCap \in Nat
    BY EmptySeq, ConstantsAssumption, Zenon
  <2> QED BY <2>1 DEF Init, WindowInv, WindowOf, EndOf, EmptyLog
<1>2. DurableInv /\ WindowInv /\ [Next]_vars => WindowInv'
  BY WindowNext, Zenon
<1>3. DurableInv /\ WindowInv => RecentIsTail
  <2> SUFFICES ASSUME DurableInv, WindowInv, up PROVE WindowOf(log) /\ log.records = LastN(log.leaves, Len(log.records))
    BY Zenon DEF RecentIsTail, WindowOf
  <2>1. log.records \in Seq(Nat) /\ log.leaves \in Seq(Nat)
    BY Zenon DEF DurableInv, TypeOK, LogFields
  <2> QED BY <2>1, EndIsLastN, Zenon DEF WindowInv, WindowOf
<1> QED BY <1>1, <1>2, <1>3, Durable, PTL DEF Spec

=============================================================================
