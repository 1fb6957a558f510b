------------------------------ MODULE AuditLog ------------------------------
(* The tamper-evident audit log of the Gate (internal/audit): the hash chain,  *)
(* its write-ahead log of record segments, the sidecar of signed tree heads    *)
(* (checkpoints), the in-process witness and what a crash leaves for replay.   *)
(*                                                                             *)
(* Cryptography is ideal. A record hash is a fresh number per sealed body (the *)
(* body carries a UUIDv7, so no two are equal). A Merkle root is the sequence  *)
(* of its leaves. An Ed25519 signature is what it signs: the chain of heads.   *)
EXTENDS Integers, Sequences, FiniteSets

CONSTANTS
  CheckpointEvery,  \* Config.CheckpointEvery: records per signed tree head
  RingCap,          \* Config.RingCap: the in-memory window of records
  RotateLines,      \* rotateBytes, counted in record lines
  MaxRecords,       \* bound: bodies sealed over the whole behaviour
  Faults            \* the faults that may happen besides a crash

ASSUME ConstantsAssumption ==
  /\ CheckpointEvery \in Nat \ {0}
  /\ RingCap \in Nat \ {0}
  /\ RotateLines \in Nat \ {0}
  /\ MaxRecords \in Nat
  /\ Faults \subseteq {"write", "sync", "cpLost", "cpTorn"}

VARIABLES
  \* on disk
  wal,       \* the record lines of all segments, in file order
  synced,    \* how many of them fsync has made durable
  segIndex,  \* the last segment
  torn,      \* the segment that ends in a partial line, 0 if none does
  cpFile,    \* the checkpoint sidecar
  \* in the process
  up,        \* the process runs
  pc,        \* where Append is, under l.mu
  stuck,     \* the sticky error of the segment's bufio.Writer
  log,       \* the fields of Log
  witness,   \* the fields of Witness
  pending,   \* sealed records whose action has not run yet
  \* outside
  minted,    \* bodies hashed so far
  acted      \* records whose action has run

diskVars == <<wal, synced, segIndex, torn, cpFile>>
procVars == <<up, pc, stuck, log, witness, pending>>
vars == <<wal, synced, segIndex, torn, cpFile, up, pc, stuck, log, witness,
          pending, minted, acted>>

NoHash == 0

Last(s) == s[Len(s)]

Hashes(recs) == [i \in 1..Len(recs) |-> recs[i].hash]

(***************************************************************************)
(* Checkpoints, their chain and the witness                                *)
(***************************************************************************)
\* A signature stands for the signed head and, through PrevCP, for every head
\* before it.
Sig(cp) ==
  Append(cp.prevCP,
         [treeSize |-> cp.treeSize, root |-> cp.root, merkle |-> cp.merkle])

NewCheckpoint(l) ==
  [treeSize |-> l.seq, root |-> l.prevHash, merkle |-> l.leaves,
   prevCP   |-> IF l.checkpoints = <<>> THEN <<>> ELSE Sig(Last(l.checkpoints))]

\* verifyConsistency on the proof the log builds from its own leaves: the new
\* tree has the size the head claims and extends the old one.
Consistent(oldSize, oldMerkle, newSize, newMerkle) ==
  /\ Len(newMerkle) = newSize
  /\ SubSeq(newMerkle, 1, oldSize) = oldMerkle

CounterSigns(w, cp) ==
  /\ IF \E r \in w.seenRoot : r[1] = cp.treeSize
     THEN <<cp.treeSize, cp.root>> \in w.seenRoot
     ELSE cp.treeSize > w.maxSize
  /\ (w.lastSize > 0 /\ w.lastSize < cp.treeSize) =>
       Consistent(w.lastSize, w.lastMerkle, cp.treeSize, cp.merkle)

CounterSign(w, cp) ==
  [seenRoot   |-> w.seenRoot \cup {<<cp.treeSize, cp.root>>},
   maxSize    |-> IF cp.treeSize > w.maxSize THEN cp.treeSize ELSE w.maxSize,
   lastSize   |-> cp.treeSize,
   lastMerkle |-> cp.merkle]

NewWitness == [seenRoot |-> {}, maxSize |-> 0, lastSize |-> 0, lastMerkle |-> <<>>]

\* The boot sequence re-seeds a new witness from the last replayed checkpoint.
Restore(cps) ==
  IF cps = <<>> THEN NewWitness ELSE CounterSign(NewWitness, Last(cps))

(***************************************************************************)
(* The checkpoint sidecar: the lines that parse, whether some line does    *)
(* not, and how the file ends ("whole": a complete line without newline).  *)
(***************************************************************************)
\* Faulty: lines that do not parse are skipped.
ReadCheckpointsSkipping(f) == f.lines

ReadCheckpoints(f) == IF f.garbled THEN <<>> ELSE f.lines

\* A line written behind an unterminated one runs into it, and neither parses.
CheckpointWritten(f, cp) ==
  IF f.tail = "clean" THEN [f EXCEPT !.lines = Append(@, cp)]
  ELSE [lines   |-> IF f.tail = "whole" THEN SubSeq(f.lines, 1, Len(f.lines) - 1)
                                        ELSE f.lines,
        garbled |-> TRUE,
        tail    |-> "clean"]

\* What a write cut short may leave of the line: all but the newline, or less.
CheckpointTorn(f, cp) ==
  IF f.tail = "clean"
  THEN {[f EXCEPT !.lines = Append(@, cp), !.tail = "whole"],
        [f EXCEPT !.garbled = TRUE, !.tail = "partial"]}
  ELSE {[CheckpointWritten(f, cp) EXCEPT !.tail = "partial"]}

(***************************************************************************)
(* The fields of Log                                                       *)
(***************************************************************************)
EmptyLog ==
  [seq |-> 0, prevHash |-> NoHash, leaves |-> <<>>, records |-> <<>>,
   sinceCP |-> 0, checkpoints |-> <<>>]

LastN(s, n) == SubSeq(s, Len(s) - n + 1, Len(s))

\* Faulty: the trim keeps the oldest records.
CommitKeepsOldest(l, r) ==
  LET window == Append(l.records, r.hash)
  IN [l EXCEPT !.seq = r.seq, !.prevHash = r.hash, !.leaves = Append(@, r.hash),
               !.records = IF Len(window) > 2 * RingCap THEN SubSeq(window, 1, RingCap)
                                                        ELSE window,
               !.sinceCP = @ + 1]

\* Append's commit of a persisted record, the ring trim included.
Commit(l, r) ==
  LET window == Append(l.records, r.hash)
  IN [l EXCEPT !.seq = r.seq,
               !.prevHash = r.hash,
               !.leaves = Append(@, r.hash),
               !.records = IF Len(window) > 2 * RingCap THEN LastN(window, RingCap)
                                                        ELSE window,
               !.sinceCP = @ + 1]

\* Faulty: the cadence counter restarts at zero.
ReplayForgetsCadence(recs, f) ==
  IF recs = <<>> THEN [EmptyLog EXCEPT !.checkpoints = ReadCheckpoints(f)]
  ELSE [seq |-> Last(recs).seq, prevHash |-> Last(recs).hash,
        leaves  |-> Hashes(recs),
        records |-> IF Len(recs) > RingCap THEN LastN(Hashes(recs), RingCap)
                                           ELSE Hashes(recs),
        sinceCP |-> 0,
        checkpoints |-> ReadCheckpoints(f)]

\* Faulty: the chain resumes at the last tree head.
ReplayFromHead(recs, f) ==
  LET cps == ReadCheckpoints(f)
      n == IF cps = <<>> THEN 0 ELSE Last(cps).treeSize
  IN IF recs = <<>> \/ n = 0 THEN [EmptyLog EXCEPT !.checkpoints = cps]
     ELSE [seq |-> n, prevHash |-> recs[n].hash, leaves |-> Hashes(recs),
           records |-> Hashes(recs), sinceCP |-> 0, checkpoints |-> cps]

\* replayWAL over the record lines and the sidecar.
ReplayWAL(recs, f) ==
  LET cps == ReadCheckpoints(f)
      lastCP == IF cps = <<>> THEN 0 ELSE Last(cps).treeSize
  IN IF recs = <<>> THEN [EmptyLog EXCEPT !.checkpoints = cps]
     ELSE [seq |-> Last(recs).seq, prevHash |-> Last(recs).hash,
           leaves  |-> Hashes(recs),
           records |-> IF Len(recs) > RingCap THEN LastN(Hashes(recs), RingCap)
                                              ELSE Hashes(recs),
           sinceCP |-> Last(recs).seq - lastCP,
           checkpoints |-> cps]

Init ==
  /\ wal = <<>> /\ synced = 0 /\ segIndex = 1 /\ torn = 0
  /\ cpFile = [lines |-> <<>>, garbled |-> FALSE, tail |-> "clean"]
  /\ up = TRUE /\ pc = "idle" /\ stuck = FALSE
  /\ log = EmptyLog /\ witness = NewWitness /\ pending = {}
  /\ minted = 0 /\ acted = {}

(***************************************************************************)
(* Append, under l.mu. A step ends where a crash or an I/O error can part  *)
(* the work: the flushed line, the fsync, the checkpoint line.             *)
(***************************************************************************)
Written == Cardinality({i \in DOMAIN wal : wal[i].seg = segIndex})

\* rotateLocked when the segment is full; it syncs the old segment. An error
\* opening the next one changes nothing and is retried by the next Append.
Rotate == IF Written >= RotateLines THEN segIndex + 1 ELSE segIndex

RotateSync == IF Written >= RotateLines THEN Len(wal) ELSE synced

SealedRecord ==
  [seq |-> log.seq + 1, prev |-> log.prevHash, hash |-> minted + 1, seg |-> Rotate]

\* Faulty: a failed writer goes on writing.
BeginAppendUnstuck ==
  /\ up /\ pc = "idle"
  /\ minted < MaxRecords
  /\ minted' = minted + 1
  /\ segIndex' = Rotate
  /\ synced' = RotateSync

BeginAppend ==
  /\ up /\ pc = "idle" /\ ~stuck
  /\ minted < MaxRecords
  /\ minted' = minted + 1
  /\ segIndex' = Rotate
  /\ synced' = RotateSync

\* The record is sealed and its line flushed to the segment.
AppendWrite ==
  /\ BeginAppend
  /\ wal' = Append(wal, SealedRecord)
  /\ pc' = "sync"
  /\ UNCHANGED <<torn, cpFile, up, stuck, log, witness, pending, acted>>

\* The flush fails, having written nothing or a part of the line. The error of a
\* bufio.Writer is sticky, and Append panics with the chain state untouched.
AppendWriteFails ==
  /\ "write" \in Faults
  /\ BeginAppend
  /\ torn' \in {torn, Rotate}
  /\ stuck' = TRUE
  /\ UNCHANGED <<wal, cpFile, up, pc, log, witness, pending, acted>>

\* Faulty: the error of the fsync is dropped and the effect released.
AppendSyncIgnored ==
  /\ "sync" \in Faults
  /\ up /\ pc = "sync"
  /\ pc' = "idle"
  /\ pending' = pending \cup {Last(wal).hash}
  /\ UNCHANGED <<diskVars, up, stuck, log, witness, minted, acted>>

\* The fsync fails behind a successful flush: Append panics, the line stays.
AppendSyncFails ==
  /\ "sync" \in Faults
  /\ up /\ pc = "sync"
  /\ pc' = "idle"
  /\ UNCHANGED <<diskVars, up, stuck, log, witness, pending, minted, acted>>

\* Faulty: the record is committed and returned without an fsync.
AppendCommitUnsynced ==
  /\ up /\ pc = "sync"
  /\ log' = Commit(log, Last(wal))
  /\ pc' = "idle"
  /\ pending' = pending \cup {log'.prevHash}
  /\ UNCHANGED <<diskVars, up, stuck, witness, minted, acted>>

\* The fsync succeeds: the chain state is committed and, when the cadence is
\* due, checkpointLocked signs the tree head and asks the witness.
AppendCommit ==
  /\ up /\ pc = "sync"
  /\ synced' = Len(wal)
  /\ LET l == Commit(log, Last(wal))
         cp == NewCheckpoint(l)
         signed == CounterSigns(witness, cp)
     IN IF l.sinceCP >= CheckpointEvery
        THEN /\ log' = [l EXCEPT !.checkpoints = Append(@,
                           [treeSize |-> cp.treeSize, root |-> cp.root,
                            merkle |-> cp.merkle, prevCP |-> cp.prevCP,
                            witnessed |-> signed]),
                                 !.sinceCP = 0]
             /\ witness' = IF signed THEN CounterSign(witness, cp) ELSE witness
             /\ pc' = "checkpoint"
             /\ UNCHANGED pending
        ELSE /\ log' = l
             /\ pc' = "idle"
             /\ pending' = pending \cup {l.prevHash}
             /\ UNCHANGED witness
  /\ UNCHANGED <<wal, segIndex, torn, cpFile, up, stuck, minted, acted>>

\* AppendCheckpoint writes the sidecar line; its error is dropped. Append
\* returns to EmitAndAct.
AppendCheckpoint ==
  /\ up /\ pc = "checkpoint"
  /\ cpFile' \in {CheckpointWritten(cpFile, Last(log.checkpoints))}
                \cup (IF "cpLost" \in Faults THEN {cpFile} ELSE {})
  /\ pc' = "idle"
  /\ pending' = pending \cup {log.prevHash}
  /\ UNCHANGED <<wal, synced, segIndex, torn, up, stuck, log, witness, minted, acted>>

\* EmitAndAct runs the action of a record that Append has returned.
Act ==
  \E h \in pending :
    /\ up
    /\ pending' = pending \ {h}
    /\ acted' = acted \cup {h}
    /\ UNCHANGED <<diskVars, up, pc, stuck, log, witness, minted>>

(***************************************************************************)
(* Readers, crash and boot                                                 *)
(***************************************************************************)
\* ReadAll refuses a torn line anywhere but in the last segment.
Readable == torn \in {0, segIndex}

\* Records and SelfVerify read the segments and truncate a torn tail.
ReadAll ==
  /\ up /\ pc = "idle"
  /\ torn # 0 /\ Readable
  /\ torn' = 0
  /\ UNCHANGED <<wal, synced, segIndex, cpFile, procVars, minted, acted>>

\* The process or the machine stops. Lines that were never synced may be lost,
\* the first of them partly; a checkpoint line in flight may be there or not.
Crash ==
  /\ up
  /\ up' = FALSE
  /\ \E k \in synced..Len(wal) :
       /\ wal' = SubSeq(wal, 1, k)
       /\ torn' \in {torn} \cup (IF k < Len(wal) THEN {wal[k + 1].seg} ELSE {})
  /\ cpFile' \in {cpFile} \cup
       (IF pc = "checkpoint"
        THEN {CheckpointWritten(cpFile, Last(log.checkpoints))} \cup
             (IF "cpTorn" \in Faults
              THEN CheckpointTorn(cpFile, Last(log.checkpoints)) ELSE {})
        ELSE {})
  /\ pc' = "idle" /\ stuck' = FALSE
  /\ log' = EmptyLog /\ witness' = NewWitness /\ pending' = {}
  /\ UNCHANGED <<synced, segIndex, minted, acted>>

\* NewWALSink, NewLog and the witness's Restore. An unreadable log panics.
Boot ==
  /\ ~up /\ Readable
  /\ up' = TRUE
  /\ torn' = 0
  /\ log' = ReplayWAL(wal, cpFile)
  /\ witness' = Restore(ReadCheckpoints(cpFile))
  /\ UNCHANGED <<wal, synced, segIndex, cpFile, pc, stuck, pending, minted, acted>>

Next ==
  \/ AppendWrite \/ AppendWriteFails \/ AppendSyncFails
  \/ AppendCommit \/ AppendCheckpoint \/ Act
  \/ ReadAll \/ Crash \/ Boot

Spec == Init /\ [][Next]_vars

(***************************************************************************)
(* The verifier                                                            *)
(***************************************************************************)
\* Verify's replay of the records: no sequence gap, no linkage break.
VerifyRecords(recs) ==
  \A i \in 1..Len(recs) :
    /\ recs[i].seq = i
    /\ recs[i].prev = IF i = 1 THEN NoHash ELSE recs[i - 1].hash

\* Verify's replay of the checkpoints against verified records: the chain of
\* signatures, the root and the Merkle root at each tree size.
VerifyCheckpoints(recs, cps) ==
  \A i \in 1..Len(cps) :
    /\ cps[i].prevCP = IF i = 1 THEN <<>> ELSE Sig(cps[i - 1])
    /\ cps[i].treeSize \in 1..Len(recs)
    /\ cps[i].root = recs[cps[i].treeSize].hash
    /\ cps[i].merkle = SubSeq(Hashes(recs), 1, cps[i].treeSize)

VerifyWitness(cps) == \A i \in 1..Len(cps) : cps[i].witnessed

\* SelfVerify on a readable log; an empty chain never passes.
SelfVerify(recs, cps) ==
  /\ recs # <<>>
  /\ VerifyRecords(recs)
  /\ VerifyCheckpoints(recs, cps)
  /\ VerifyWitness(cps)

(***************************************************************************)
(* Properties                                                              *)
(***************************************************************************)
SignedHead == [treeSize : Nat, root : Nat, merkle : Seq(Nat)]

Checkpoint == [treeSize : Nat, root : Nat, merkle : Seq(Nat),
               prevCP : Seq(SignedHead), witnessed : BOOLEAN]

Record == [seq : Nat, prev : Nat, hash : Nat, seg : Nat]

Sidecar == [lines : Seq(Checkpoint), garbled : BOOLEAN,
            tail : {"clean", "partial", "whole"}]

LogFields == [seq : Nat, prevHash : Nat, leaves : Seq(Nat), records : Seq(Nat),
              sinceCP : Nat, checkpoints : Seq(Checkpoint)]

WitnessFields == [seenRoot : SUBSET (Nat \X Nat), maxSize : Nat, lastSize : Nat,
                  lastMerkle : Seq(Nat)]

\* Every variable keeps the shape of the Go fields and the files it stands for;
\* in particular the unsigned count of records since the last head, which replay
\* computes by a subtraction, never underflows.
TypeOK ==
  /\ wal \in Seq(Record) /\ synced \in Nat /\ segIndex \in Nat /\ torn \in Nat
  /\ cpFile \in Sidecar
  /\ up \in BOOLEAN /\ pc \in {"idle", "sync", "checkpoint"} /\ stuck \in BOOLEAN
  /\ log \in LogFields /\ witness \in WitnessFields
  /\ pending \subseteq Nat /\ minted \in Nat /\ acted \subseteq Nat

\* The record lines on disk always replay as one gapless, linked chain, whatever
\* write error or crash an Append met ("a WAL failure leaves seq/prev_hash
\* untouched (no gap)", chain.go:204).
NoSeqGap == VerifyRecords(wal)

\* A log that nobody altered never raises the alarm: whenever l.mu is free and a
\* record exists, SelfVerify passes, witness signatures included, after any
\* sequence of crashes, torn files and restarts.
SelfVerifies == (up /\ pc = "idle" /\ wal # <<>>) => SelfVerify(wal, log.checkpoints)

\* A torn line is only ever in the last segment, so the fail-closed replay never
\* turns a crash into a boot panic loop (readRecords).
ReplaySucceeds == Readable

\* An action runs, or is about to, only for a record fsync has made durable: no
\* crash afterwards loses the record of an effect (EmitAndAct).
EffectsDurable ==
  \A h \in acted \cup pending : \E i \in 1..synced : i <= Len(wal) /\ wal[i].hash = h

\* The window Recent reads is the tail of the chain, and holds RingCap records
\* as soon as the chain does, across the trims of Append and the replay.
RecentIsTail ==
  up => /\ Len(log.records) <= 2 * RingCap
        /\ Len(log.records) >= RingCap \/ Len(log.records) = Len(log.leaves)
        /\ log.records = LastN(log.leaves, Len(log.records))

\* However often the process restarted in between, a committed record leaves
\* fewer than CheckpointEvery records behind the last signed tree head.
AnchoredWithinCadence ==
  [][AppendCommit =>
       LET cps == log'.checkpoints
       IN Len(wal) - (IF cps = <<>> THEN 0 ELSE Last(cps).treeSize) < CheckpointEvery]_vars

\* The log implements the append-only ledger with effects behind it.
Ledger == INSTANCE AuditLedger
            WITH ledger <- SubSeq(Hashes(wal), 1, synced), released <- acted

ImplementsLedger == Ledger!Spec

\* "AppendCheckpoint persists a Signed Tree Head to the sidecar so the checkpoint
\* chain survives a restart" (sink_wal.go:94): the running log holds every
\* checkpoint that is completely written in the sidecar.
CheckpointsSurvive ==
  up => \A i \in 1..Len(cpFile.lines) :
          \E j \in 1..Len(log.checkpoints) : log.checkpoints[j] = cpFile.lines[i]
==============================================================================
