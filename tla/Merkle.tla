-------------------------------- MODULE Merkle --------------------------------
(***************************************************************************)
(* The Merkle tree over the audit log's record hashes                      *)
(* (internal/audit/merkle.go), the proofs the log hands out (proofs.go)    *)
(* and the admin endpoint that anchors a proof to the latest signed head   *)
(* while the log goes on growing (adminProof in internal/gate/admin.go).   *)
(*                                                                         *)
(* A hash is the term it is computed from, so two hashes are equal when    *)
(* their inputs are.  The memo of subtree roots is a cache of a pure       *)
(* function and is left out.  A record's hash covers its number.           *)
(***************************************************************************)
EXTENDS Integers, Sequences, SequencesExt, FiniteSetsExt

CONSTANTS MkRecords,     \* what a record may say
          MkMaxSize,     \* bound: records in the log
          MkProvedSize,  \* bound: size of the logs for which every proof is tried
          MkProofLen     \* bound: length of those proofs

ASSUME MerkleAssumption ==
  MkRecords # {} /\ MkMaxSize \in Nat /\ MkProvedSize \in Nat /\ MkProofLen \in Nat

VARIABLES mkLeaves,  \* Log.leaves
          mkHead,    \* the latest signed head: [size, root], size 0 before the first
          mkAsked,   \* adminProof between Checkpoints and InclusionProofAt
          mkAnswer   \* its last answer

mkVars == <<mkLeaves, mkHead, mkAsked, mkAnswer>>

(***************************************************************************)
(* Roots                                                                   *)
(***************************************************************************)
recordHash(seq, d) == <<seq, d>>
emptyHash == <<>>
leafHash(d) == <<0, d>>
nodeHash(l, r) == <<1, l, r>>

largestPow2Below(n) == Max({k \in {2^i : i \in 0..n} : k < n})

RECURSIVE mroot(_, _, _)
mroot(leaves, off, n) ==
  IF n = 0 THEN emptyHash
  ELSE IF n = 1 THEN leafHash(leaves[off + 1])
  ELSE LET k == largestPow2Below(n)
       IN  nodeHash(mroot(leaves, off, k), mroot(leaves, off + k, n - k))

merkleRoot(leaves) == mroot(leaves, 0, Len(leaves))

(***************************************************************************)
(* Proofs                                                                  *)
(***************************************************************************)
RECURSIVE iproof(_, _, _, _)
iproof(leaves, m, off, n) ==
  LET k == largestPow2Below(n)
  IN  IF n <= 1 THEN <<>>
      ELSE IF m < k THEN Append(iproof(leaves, m, off, k), mroot(leaves, off + k, n - k))
      ELSE Append(iproof(leaves, m - k, off + k, n - k), mroot(leaves, off, k))

inclusionProof(leaves, m) ==
  IF m < 0 \/ m >= Len(leaves) THEN <<>> ELSE iproof(leaves, m, 0, Len(leaves))

RECURSIVE subProof(_, _, _, _, _)
subProof(leaves, m, off, n, complete) ==
  LET k == largestPow2Below(n)
  IN  IF m = n THEN IF complete THEN <<>> ELSE <<mroot(leaves, off, n)>>
      ELSE IF m <= k THEN Append(subProof(leaves, m, off, k, complete), mroot(leaves, off + k, n - k))
      ELSE Append(subProof(leaves, m - k, off + k, n - k, FALSE), mroot(leaves, off, k))

consistencyProof(leaves, m) ==
  IF m <= 0 \/ m >= Len(leaves) THEN <<>> ELSE subProof(leaves, m, 0, Len(leaves), TRUE)

(***************************************************************************)
(* Verification: fn and sn are the positions of the node and of the last   *)
(* node of its level, on the way to the root.                              *)
(***************************************************************************)
\* Both positions shifted to the right while fn, which has bit b at its end.
RECURSIVE shifted(_, _, _)
shifted(fn, sn, b) ==
  IF fn % 2 = b /\ (b = 0 => fn # 0) THEN shifted(fn \div 2, sn \div 2, b) ELSE [fn |-> fn, sn |-> sn]

\* The positions of the next level, after a right sibling (left = FALSE) or a left one.
climbed(s, left) ==
  LET t == IF left THEN shifted(s.fn, s.sn, 0) ELSE [fn |-> s.fn, sn |-> s.sn]
  IN  [fn |-> t.fn \div 2, sn |-> t.sn \div 2]

joinsLeft(s) == s.fn = s.sn \/ s.fn % 2 = 1

verifyInclusion(leaf, m, size, proof, root) ==
  LET Step(s, p) == climbed(s, joinsLeft(s)) @@
                      [node |-> IF joinsLeft(s) THEN nodeHash(p, s.node) ELSE nodeHash(s.node, p)]
      end == FoldLeft(Step, [fn |-> m, sn |-> size - 1, node |-> leafHash(leaf)], proof)
  IN  m >= 0 /\ m < size /\ end.sn = 0 /\ end.node = root

isPow2(n) == n \in {2^i : i \in 0..n}

\* The walk of verifyConsistency: the old root fr and the new root sr, as far as the
\* proof determines them; over is set when the proof goes on past the root.
consistencyWalk(m, n, pr) ==
  LET Step(s, c) == climbed(s, joinsLeft(s)) @@
                      [fr |-> IF joinsLeft(s) THEN nodeHash(c, s.fr) ELSE s.fr,
                       sr |-> IF joinsLeft(s) THEN nodeHash(c, s.sr) ELSE nodeHash(s.sr, c),
                       over |-> s.over \/ s.sn = 0]
  IN  FoldLeft(Step, shifted(m - 1, n - 1, 1) @@ [fr |-> Head(pr), sr |-> Head(pr), over |-> FALSE], Tail(pr))

\* Faulty: the old root is not compared.
verifyGrowthOnly(m, n, proof, oldRoot, newRoot) ==
  LET pr == IF isPow2(m) THEN <<oldRoot>> \o proof ELSE proof
      end == consistencyWalk(m, n, pr)
  IN  IF m = n THEN oldRoot = newRoot
      ELSE pr # <<>> /\ ~end.over /\ end.sn = 0 /\ end.sr = newRoot

verifyConsistency(m, n, proof, oldRoot, newRoot) ==
  LET pr == IF isPow2(m) THEN <<oldRoot>> \o proof ELSE proof
      end == consistencyWalk(m, n, pr)
  IN  /\ m > 0 /\ m <= n
      /\ IF m = n THEN proof = <<>> /\ oldRoot = newRoot
         ELSE pr # <<>> /\ ~end.over /\ end.sn = 0 /\ end.fr = oldRoot /\ end.sr = newRoot

(***************************************************************************)
(* The log, its heads, and a reader of proofs                              *)
(***************************************************************************)
MerkleInit ==
  mkLeaves = <<>> /\ mkHead = [size |-> 0, root |-> emptyHash] /\ mkAsked = {} /\ mkAnswer = {}

\* Append, as far as the tree is concerned (module AuditLog has the rest).
LeafAppended ==
  /\ Len(mkLeaves) < MkMaxSize
  /\ \E d \in MkRecords : mkLeaves' = Append(mkLeaves, recordHash(Len(mkLeaves) + 1, d))
  /\ mkAnswer' = {}
  /\ UNCHANGED <<mkHead, mkAsked>>

HeadSigned ==
  /\ mkHead.size < Len(mkLeaves)
  /\ mkHead' = [size |-> Len(mkLeaves), root |-> merkleRoot(mkLeaves)]
  /\ mkAnswer' = {}
  /\ UNCHANGED <<mkLeaves, mkAsked>>

\* Faulty: the proof is of the log as it is by now.
InclusionProofNow(seq, size) ==
  {[leaf |-> mkLeaves[s], index |-> s - 1, size |-> size, proof |-> inclusionProof(mkLeaves, s - 1)] :
     s \in {seq} \cap 1..size}

\* InclusionProofAt: {} when the record is not covered.
InclusionProofAt(seq, size) ==
  {[leaf |-> mkLeaves[s], index |-> s - 1, size |-> size, proof |-> inclusionProof(SubSeq(mkLeaves, 1, size), s - 1)] :
     s \in {x \in {seq} \cap 1..size : size <= Len(mkLeaves)}}

\* adminProof reads the heads, then asks the log for the proof.
ProofAsked ==
  /\ mkAsked = {} /\ mkHead.size > 0
  /\ \E seq \in 1..Len(mkLeaves) : mkAsked' = {[seq |-> seq, sth |-> mkHead]}
  /\ mkAnswer' = {}
  /\ UNCHANGED <<mkLeaves, mkHead>>

adminProof ==
  \E q \in mkAsked :
    /\ mkAsked' = {}
    /\ mkAnswer' = {[q |-> q, res |-> res] : res \in InclusionProofAt(q.seq, q.sth.size)}
    /\ UNCHANGED <<mkLeaves, mkHead>>

MerkleNext == LeafAppended \/ HeadSigned \/ ProofAsked \/ adminProof

MerkleSpec == MerkleInit /\ [][MerkleNext]_mkVars

(***************************************************************************)
(* Properties                                                              *)
(***************************************************************************)
\* "prove the record is in exactly the log the STH commits to" (admin.go:304): a proof
\* that is answered verifies against the root of the head it comes with, although
\* the log may have grown and signed newer heads since that head was read; it
\* verifies for the record with that number and for no other record or position.
InclusionDecides ==
  \A a \in mkAnswer : \A d \in MkRecords, seq \in 1..a.res.size, i \in 0..(a.res.size - 1) :
    verifyInclusion(recordHash(seq, d), i, a.res.size, a.res.proof, a.q.sth.root)
      <=> recordHash(seq, d) = mkLeaves[a.q.seq] /\ i = a.q.seq - 1

\* The hashes a writer has: those of every subtree of a log.
RECURSIVE subtrees(_, _, _)
subtrees(leaves, off, n) ==
  LET k == largestPow2Below(n)
  IN  {mroot(leaves, off, n)} \cup IF n <= 1 THEN {} ELSE subtrees(leaves, off, k) \cup subtrees(leaves, off + k, n - k)

Logs(n) == {[seq \in 1..n |-> recordHash(seq, says[seq])] : says \in [1..n -> MkRecords]}

\* "a writer that rewrites history before the last witnessed size cannot produce a
\* valid consistency proof" (witness.go:79), and one that only appends always can:
\* of all the logs of the current size, those that extend the log of an earlier
\* size have a proof that verifies against that log's root, the one
\* consistencyProof computes; for the others neither that one verifies nor any
\* sequence of hashes of the two trees, too short or too long ones included.
ConsistencyDecides ==
  LET n == Len(mkLeaves)
  IN  mkAsked = {} /\ mkAnswer = {} /\ mkHead.size = n =>
        \A m \in 1..n, other \in Logs(n) :
          LET seen    == SubSeq(mkLeaves, 1, m)
              old     == merkleRoot(seen)
              new     == merkleRoot(other)
              honest  == consistencyProof(other, m)
              hashes  == subtrees(other, 0, n) \cup subtrees(seen, 0, m)
          IN  IF SubSeq(other, 1, m) = seen THEN verifyConsistency(m, n, honest, old, new)
              ELSE \A proof \in {honest} \cup IF n <= MkProvedSize THEN SeqOf(hashes, MkProofLen) ELSE {} :
                     ~verifyConsistency(m, n, proof, old, new)
===============================================================================
