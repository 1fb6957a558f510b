---------------------------- MODULE RequestProofs ----------------------------
(* What the Gate reads in a request's path and in the page that answers it, for *)
(* every path, route table, page, look-ahead and size of reads: spelling does   *)
(* not choose the policy, and the cut of the body does not move the snippet.    *)
EXTENDS GatePipeline, Injector, SequenceTheorems, WellFoundedInduction, TLAPS

(***************************************************************************)
(* Lists                                                                   *)
(***************************************************************************)
\* A set of naturals has a least element.
LEMMA LeastOf ==
  ASSUME NEW T, T \subseteq Nat, T # {}
  PROVE  \E m \in T : \A k \in T : m <= k
<1> DEFINE R == {ss \in Nat \X Nat : ss[1] < ss[2]}
<1>1. IsWellFoundedOn(R, Nat)
  BY NatLessThanWellFounded, Zenon DEF OpToRel
<1>2. \A x, y \in Nat : ~(<<y, x>> \in R) => x <= y
  <2> TAKE x, y \in Nat
  <2>1. y < x => <<y, x>> \in R
    OBVIOUS
  <2> HIDE DEF R
  <2> QED BY <2>1
<1> HIDE DEF R
<1>3. PICK x \in T : \A y \in T : ~(<<y, x>> \in R)
  BY <1>1, WFMin, Zenon
<1> QED BY <1>2, <1>3, Zenon

\* Induction over sequences, from the front.
LEMMA SequencesGrow ==
  ASSUME NEW S, NEW P, <<>> \in P, \A s \in Seq(S), x \in S : s \in P => Append(s, x) \in P
  PROVE  Seq(S) \subseteq P
<1> DEFINE T == {n \in Nat : \E s \in Seq(S) : Len(s) = n /\ s \notin P}
<1>1. ASSUME T # {} PROVE FALSE
  <2>1. PICK n \in T : \A k \in T : n <= k
    BY <1>1, LeastOf, Zenon
  <2>2. PICK s \in Seq(S) : Len(s) = n /\ s \notin P
    BY Zenon
  <2>3. CASE n = 0
    <3>1. s = <<>>
      BY <2>2, <2>3
    <3> QED BY <2>2, <3>1, Zenon
  <2>4. CASE n # 0
    <3> DEFINE t == SubSeq(s, 1, n - 1)
    <3>1. n \in Nat /\ n - 1 \in Nat /\ ~(n <= n - 1) /\ n \in 1..Len(s)
      BY <2>2, <2>4
    <3>2. t \in Seq(S) /\ Len(t) = n - 1 /\ s[n] \in S
      BY <2>2, <3>1
    <3>3. s = Append(t, s[n])
      BY <2>2, <3>1
    <3> HIDE DEF t
    <3>4. t \in P
      BY <2>1, <3>1, <3>2, Zenon
    <3> QED BY <2>2, <3>2, <3>3, <3>4, Zenon
  <2> QED BY <2>3, <2>4, Zenon
<1>2. ASSUME NEW s \in Seq(S) PROVE s \in P
  <2>1. Len(s) \in Nat
    OBVIOUS
  <2> QED BY <1>1, <2>1, Zenon
<1> QED BY <1>2, Zenon

(***************************************************************************)
(* The normal form of a path: NormalizeMatchPath of GatePipeline           *)
(***************************************************************************)
\* What one segment does to the path cleaned so far; one pass of the loop, and the
\* loop up to an index.
CleanStep(path, x) ==
  IF x \in {"", "."} THEN path ELSE IF x = ".." THEN SubSeq(path, 1, Len(path) - 1) ELSE Append(path, x)
CleanPass(p, i, g) == IF i = 0 THEN <<>> ELSE CleanStep(g[i - 1], p[i])
CleanLoop(p, n, g) == g = [i \in 0..n |-> CleanPass(p, i, g)]

LEMMA CleanUnique ==
  ASSUME NEW p, NEW n \in Nat, NEW f, NEW g, CleanLoop(p, n, f), CleanLoop(p, n, g)
  PROVE  \A i \in 0..n : f[i] = g[i]
<1> DEFINE T == {i \in 0..n : f[i] # g[i]}
<1>1. \A i \in 0..n : f[i] = CleanPass(p, i, f) /\ g[i] = CleanPass(p, i, g)
  BY Zenon DEF CleanLoop
<1>2. ASSUME T # {} PROVE FALSE
  <2>1. T \subseteq Nat
    OBVIOUS
  <2>2. PICK k \in T : \A j \in T : k <= j
    BY <1>2, <2>1, LeastOf, Zenon
  <2>3. k \in 0..n /\ f[k] # g[k]
    BY Zenon
  <2>4. CASE k = 0
    BY <1>1, <2>3, <2>4, Zenon DEF CleanPass
  <2>5. CASE k # 0
    <3>1. k - 1 \in 0..n /\ ~(k <= k - 1)
      BY <2>3, <2>5
    <3>2. f[k - 1] = g[k - 1]
      BY <2>2, <3>1, Zenon
    <3> QED BY <1>1, <2>3, <2>5, <3>2, Zenon DEF CleanPass
  <2> QED BY <2>4, <2>5, Zenon
<1> QED BY <1>2, Zenon

LEMMA CleanExists ==
  ASSUME NEW p, NEW n \in Nat
  PROVE  \E g : CleanLoop(p, n, g)
<1> DEFINE T == {m \in Nat : ~\E g : CleanLoop(p, m, g)}
<1>1. ASSUME T # {} PROVE FALSE
  <2>1. PICK m \in T : \A j \in T : m <= j
    BY <1>1, LeastOf, Zenon
  <2>2. m \in Nat /\ ~\E g : CleanLoop(p, m, g)
    BY Zenon
  <2>3. CASE m = 0
    <3> DEFINE g == [i \in 0..0 |-> <<>>]
    <3>1. \A i \in 0..0 : i = 0
      OBVIOUS
    <3>2. \A i \in 0..0 : CleanPass(p, i, g) = <<>>
      BY <3>1, Zenon DEF CleanPass
    <3>3. g = [i \in 0..0 |-> g[i]] /\ \A i \in 0..0 : g[i] = CleanPass(p, i, g)
      BY <3>2, Zenon
    <3> HIDE DEF g
    <3>4. CleanLoop(p, 0, g)
      BY <3>3 DEF CleanLoop
    <3> QED BY <2>2, <2>3, <3>4, Zenon
  <2>4. CASE m # 0
    <3>1. m - 1 \in Nat /\ ~(m <= m - 1)
      BY <2>2, <2>4
    <3>2. PICK g : CleanLoop(p, m - 1, g)
      BY <2>1, <3>1, Zenon
    <3> DEFINE h == [i \in 0..m |-> IF i = m THEN CleanPass(p, m, g) ELSE g[i]]
    <3>3. \A i \in 0..m : (i # m => i \in 0..(m - 1)) /\ (i # 0 => i - 1 \in 0..m /\ i - 1 # m)
      BY <2>2
    <3>4. \A i \in 0..m : i # 0 => h[i - 1] = g[i - 1]
      BY <3>3, Zenon
    <3>5. \A i \in 0..m : h[i] = CleanPass(p, i, g)
      BY <3>2, <3>3, Zenon DEF CleanLoop
    <3>6. h = [i \in 0..m |-> h[i]]
      BY Zenon
    <3> HIDE DEF h
    <3>7. \A i \in 0..m : CleanPass(p, i, h) = CleanPass(p, i, g)
      BY <3>4, Zenon DEF CleanPass
    <3>8. CleanLoop(p, m, h)
      BY <3>5, <3>6, <3>7 DEF CleanLoop
    <3> QED BY <2>2, <3>8, Zenon
  <2> QED BY <2>3, <2>4, Zenon
<1> QED BY <1>1, Zenon

LEMMA CleanIs ==
  ASSUME NEW p, Len(p) \in Nat, NEW g, CleanLoop(p, Len(p), g)
  PROVE  NormalizeMatchPath(p) = g[Len(p)]
<1> DEFINE f == CHOOSE f : CleanLoop(p, Len(p), f)
<1>1. CleanLoop(p, Len(p), f)
  BY Zenon
<1>2. NormalizeMatchPath(p) = f[Len(p)]
  BY Zenon DEF NormalizeMatchPath, CleanLoop, CleanPass, CleanStep
<1>3. Len(p) \in 0..Len(p)
  OBVIOUS
<1> HIDE DEF f
<1>4. \A i \in 0..Len(p) : f[i] = g[i]
  BY <1>1, CleanUnique
<1> QED BY <1>2, <1>3, <1>4, Zenon

\* The root, and one segment more.
LEMMA CleanEmpty == NormalizeMatchPath(<<>>) = <<>>
<1>1. PICK g : CleanLoop(<<>>, 0, g)
  BY CleanExists
<1>2. Len(<<>>) = 0
  OBVIOUS
<1>3. NormalizeMatchPath(<<>>) = g[0]
  BY <1>1, <1>2, CleanIs
<1>4. 0 \in 0..0
  OBVIOUS
<1> QED BY <1>1, <1>3, <1>4, Zenon DEF CleanLoop, CleanPass

LEMMA CleanAppend ==
  ASSUME NEW S, NEW p \in Seq(S), NEW x \in S
  PROVE  NormalizeMatchPath(Append(p, x)) = CleanStep(NormalizeMatchPath(p), x)
<1> DEFINE n == Len(p)
           t == Append(p, x)
<1>1. n \in Nat /\ n + 1 \in Nat /\ Len(t) = n + 1 /\ t[n + 1] = x /\ \A i \in 0..n : i # 0 => t[i] = p[i]
  OBVIOUS
<1>2. /\ n + 1 \in 0..(n + 1) /\ n + 1 # 0 /\ (n + 1) - 1 = n /\ n \in 0..n
      /\ \A i \in 0..n : i \in 0..(n + 1)
  BY <1>1
<1> HIDE DEF n, t
<1>3. PICK g : CleanLoop(t, n + 1, g)
  BY <1>1, CleanExists, Zenon
<1>4. NormalizeMatchPath(t) = g[n + 1]
  BY <1>1, <1>3, CleanIs
<1>5. g[n + 1] = CleanStep(g[n], x)
  <2>1. g[n + 1] = CleanPass(t, n + 1, g)
    BY <1>2, <1>3, Zenon DEF CleanLoop
  <2> QED BY <1>1, <1>2, <2>1 DEF CleanPass
<1> DEFINE f == [i \in 0..n |-> g[i]]
<1>6. CleanLoop(p, n, f)
  <2>1. \A i \in 0..n : f[i] = CleanPass(t, i, g)
    BY <1>2, <1>3, Zenon DEF CleanLoop
  <2>2. \A i \in 0..n : i # 0 => i - 1 \in 0..n
    BY <1>1
  <2>3. \A i \in 0..n : i # 0 => f[i - 1] = g[i - 1]
    BY <2>2, Zenon
  <2>4. f = [i \in 0..n |-> f[i]]
    BY Zenon
  <2> HIDE DEF f
  <2>5. \A i \in 0..n : CleanPass(p, i, f) = CleanPass(t, i, g)
    BY <1>1, <2>3, Zenon DEF CleanPass
  <2> QED BY <2>1, <2>4, <2>5 DEF CleanLoop
<1>7. NormalizeMatchPath(p) = f[n]
  BY <1>1, <1>6, CleanIs DEF n
<1>8. f[n] = g[n]
  BY <1>2, Zenon
<1> QED BY <1>4, <1>5, <1>7, <1>8, Zenon DEF t

LEMMA CleanType ==
  ASSUME NEW S, NEW p \in Seq(S)
  PROVE  NormalizeMatchPath(p) \in Seq(S)
<1> DEFINE P == {s \in Seq(S) : NormalizeMatchPath(s) \in Seq(S)}
<1>1. <<>> \in P
  BY CleanEmpty, EmptySeq, Zenon
<1>2. ASSUME NEW s \in Seq(S), NEW x \in S, s \in P PROVE Append(s, x) \in P
  <2>1. NormalizeMatchPath(s) \in Seq(S) /\ Append(s, x) \in Seq(S)
    BY <1>2
  <2>2. ASSUME NEW a \in Seq(S) PROVE CleanStep(a, x) \in Seq(S)
    <3>1. SubSeq(a, 1, Len(a) - 1) \in Seq(S)
      <4>1. 1 \in Int /\ Len(a) - 1 \in Int /\ \A i \in 1..(Len(a) - 1) : a[i] \in S
        OBVIOUS
      <4> QED BY <4>1, SubSeqProperties, Zenon
    <3>2. Append(a, x) \in Seq(S)
      BY AppendProperties, Zenon
    <3> QED BY <3>1, <3>2, Zenon DEF CleanStep
  <2> QED BY <2>1, <2>2, CleanAppend, Zenon
<1> HIDE DEF P
<1>3. Seq(S) \subseteq P
  BY <1>1, <1>2, SequencesGrow
<1> QED BY <1>3 DEF P

\* A list with one entry more, and with two.
LEMMA OneMore ==
  ASSUME NEW S, NEW a \in Seq(S), NEW x \in S
  PROVE  /\ a \o <<x>> = Append(a, x) /\ Append(a, x) \in Seq(S)
         /\ SubSeq(Append(a, x), 1, Len(Append(a, x)) - 1) = a
<1> DEFINE b == Append(a, x)
<1>1. b \in Seq(S) /\ Len(a) \in Nat /\ Len(b) = Len(a) + 1 /\ \A i \in 1..Len(a) : b[i] = a[i]
  BY AppendProperties
<1>2. a \o <<x>> = b
  BY AppendIsConcat, Zenon
<1>3. SubSeq(b, 1, Len(b) - 1) = a
  <2> HIDE DEF b
  <2>1. \A i \in 1..Len(a) : b[i] \in S
    BY <1>1
  <2> DEFINE c == SubSeq(b, 1, Len(a))
  <2>2. c \in Seq(S) /\ Len(c) = Len(a) /\ \A i \in 1..Len(a) : c[i] = b[i]
    BY <1>1, <2>1
  <2> HIDE DEF c
  <2>3. Len(a) = Len(c) /\ \A i \in 1..Len(a) : a[i] = c[i]
    BY <1>1, <2>2
  <2>4. a = c
    BY <2>2, <2>3, SeqEqual
  <2>5. Len(b) - 1 = Len(a)
    BY <1>1
  <2> QED BY <2>4, <2>5, Zenon DEF c
<1> QED BY <1>1, <1>2, <1>3, Zenon DEF b

Followed(a, x, y) == a \o <<x, y>>

LEMMA TwoMore ==
  ASSUME NEW S, NEW a \in Seq(S), NEW x \in S, NEW y \in S
  PROVE  Followed(a, x, y) = Append(Append(a, x), y)
<1> DEFINE b == Append(a, x)
           c == Append(b, y)
           d == a \o <<x, y>>
<1>1. b \in Seq(S) /\ Len(a) \in Nat /\ Len(b) = Len(a) + 1 /\ b[Len(a) + 1] = x /\ \A i \in 1..Len(a) : b[i] = a[i]
  BY AppendProperties
<1> HIDE DEF b
<1>2. /\ c \in Seq(S) /\ Len(c) = Len(b) + 1 /\ c[Len(b) + 1] = y /\ \A i \in 1..Len(b) : c[i] = b[i]
  BY <1>1, AppendProperties
<1>3. <<x, y>> \in Seq(S) /\ Len(<<x, y>>) = 2 /\ <<x, y>>[1] = x /\ <<x, y>>[2] = y
  OBVIOUS
<1>4. d \in Seq(S) /\ Len(d) = Len(a) + 2 /\ \A i \in 1..(Len(a) + 2) : d[i] = IF i <= Len(a) THEN a[i] ELSE <<x, y>>[i - Len(a)]
  BY <1>3, ConcatProperties
<1> HIDE DEF c, d
<1>5. Len(d) = Len(c) /\ \A i \in 1..Len(d) : d[i] = c[i]
  <2>1. \A i \in 1..Len(d) : i \in 1..Len(a) \/ i = Len(a) + 1 \/ i = Len(a) + 2
    BY <1>1, <1>4
  <2>2. \A i \in 1..Len(a) : d[i] = a[i] /\ c[i] = a[i]
    BY <1>1, <1>2, <1>4
  <2>3. d[Len(a) + 1] = x /\ c[Len(a) + 1] = x
    BY <1>1, <1>2, <1>3, <1>4
  <2>4. d[Len(a) + 2] = y /\ c[Len(a) + 2] = y
    BY <1>1, <1>2, <1>3, <1>4
  <2>5. Len(d) = Len(c)
    BY <1>1, <1>2, <1>4
  <2> QED BY <2>1, <2>2, <2>3, <2>4, <2>5, Zenon
<1>6. d = c
  BY <1>2, <1>4, <1>5, SeqEqual
<1> QED BY <1>6, Zenon DEF b, c, d, Followed

\* A list is what precedes an index and what follows it.
LEMMA CutAt ==
  ASSUME NEW S, NEW p \in Seq(S), NEW i \in 0..Len(p)
  PROVE  /\ SubSeq(p, 1, i) \in Seq(S) /\ SubSeq(p, i + 1, Len(p)) \in Seq(S)
         /\ SubSeq(p, 1, i) \o SubSeq(p, i + 1, Len(p)) = p
<1>1. 1 \in 1..(Len(p) + 1) /\ i \in (1 - 1)..Len(p) /\ Len(p) \in i..Len(p)
  OBVIOUS
<1>2. SubSeq(p, 1, i) \in Seq(S) /\ SubSeq(p, i + 1, Len(p)) \in Seq(S)
  OBVIOUS
<1>3. SubSeq(p, 1, i) \o SubSeq(p, i + 1, Len(p)) = SubSeq(p, 1, Len(p))
  BY <1>1, ConcatAdjacentSubSeq, Zenon
<1> QED BY <1>2, <1>3, SubSeqFull, Zenon

\* A segment and ".." at the end of a path leave its normal form.
LEMMA DownAndUp ==
  ASSUME NEW S, NEW p \in Seq(S), "x" \in S, ".." \in S
  PROVE  p \o <<"x", "..">> \in Seq(S) /\ NormalizeMatchPath(p \o <<"x", "..">>) = NormalizeMatchPath(p)
<1> DEFINE t == Append(p, "x")
<1>1. t \in Seq(S)
  BY OneMore, Zenon
<1>2. p \o <<"x", "..">> = Append(t, "..")
  <2>1. \A x, y \in S : Followed(p, x, y) = Append(Append(p, x), y)
    BY TwoMore, SMT
  <2>2. Followed(p, "x", "..") = Append(t, "..")
    BY <2>1, Zenon
  <2> QED BY <2>2, Zenon DEF Followed
<1>3. NormalizeMatchPath(t) = CleanStep(NormalizeMatchPath(p), "x")
  BY CleanAppend, Zenon
<1> HIDE DEF t
<1>4. Append(t, "..") \in Seq(S) /\ NormalizeMatchPath(Append(t, "..")) = CleanStep(NormalizeMatchPath(t), "..")
  BY <1>1, CleanAppend, OneMore, Zenon
<1>5. ASSUME NEW a \in Seq(S) PROVE CleanStep(CleanStep(a, "x"), "..") = a
  <2>1. CleanStep(a, "x") = Append(a, "x")
    BY DEF CleanStep
  <2>2. CleanStep(Append(a, "x"), "..") = SubSeq(Append(a, "x"), 1, Len(Append(a, "x")) - 1)
    BY DEF CleanStep
  <2>3. SubSeq(Append(a, "x"), 1, Len(Append(a, "x")) - 1) = a
    BY OneMore, Zenon
  <2> QED BY <2>1, <2>2, <2>3, Zenon
<1> QED BY <1>2, <1>3, <1>4, <1>5, CleanType, Zenon

\* A detour at the end of a path leaves its normal form.
LEMMA DetourAtEnd ==
  ASSUME NEW S, {"", ".", "..", "x"} \subseteq S, NEW p \in Seq(S), NEW detour \in {<<".">>, <<"">>, <<"x", "..">>}
  PROVE  p \o detour \in Seq(S) /\ NormalizeMatchPath(p \o detour) = NormalizeMatchPath(p)
<1>1. "." \in S /\ "" \in S /\ "x" \in S /\ ".." \in S
  BY Zenon
<1>2. ASSUME NEW x \in {"", "."}, detour = <<x>>
      PROVE  p \o detour \in Seq(S) /\ NormalizeMatchPath(p \o detour) = NormalizeMatchPath(p)
  <2>1. x \in S
    BY Zenon
  <2>2. p \o detour = Append(p, x) /\ Append(p, x) \in Seq(S)
    BY <1>2, <2>1, OneMore, Zenon
  <2>3. CleanStep(NormalizeMatchPath(p), x) = NormalizeMatchPath(p)
    BY Zenon DEF CleanStep
  <2> QED BY <2>1, <2>2, <2>3, CleanAppend, Zenon
<1>3. CASE detour = <<"x", "..">>
  BY <1>1, <1>3, DownAndUp, Zenon
<1> QED BY <1>2, <1>3, Zenon

\* What follows only sees the normal form of what precedes it.
LEMMA CleanTail ==
  ASSUME NEW S, NEW a \in Seq(S), NEW b \in Seq(S), NormalizeMatchPath(a) = NormalizeMatchPath(b), NEW q \in Seq(S)
  PROVE  NormalizeMatchPath(a \o q) = NormalizeMatchPath(b \o q)
<1> DEFINE P == {s \in Seq(S) : NormalizeMatchPath(a \o s) = NormalizeMatchPath(b \o s)}
<1>1. <<>> \in P
  BY a \o <<>> = a, b \o <<>> = b
<1>2. ASSUME NEW s \in Seq(S), NEW x \in S, s \in P PROVE Append(s, x) \in P
  <2>1. /\ a \o s \in Seq(S) /\ b \o s \in Seq(S) /\ Append(s, x) \in Seq(S)
        /\ a \o Append(s, x) = Append(a \o s, x) /\ b \o Append(s, x) = Append(b \o s, x)
    BY SMTT(30)
  <2> QED BY <1>2, <2>1, CleanAppend, Zenon
<1> HIDE DEF P
<1>3. Seq(S) \subseteq P
  BY <1>1, <1>2, SequencesGrow
<1> QED BY <1>3, Zenon DEF P

\* A detour anywhere in a path leaves its normal form (normalizeMatchPath of
\* config.go): for every path, not only for the ones of a run.
THEOREM DetourChangesNothing ==
  ASSUME NEW S, {"", ".", "..", "x"} \subseteq S, NEW p \in Seq(S), NEW i \in 0..Len(p), NEW detour \in {<<".">>, <<"">>, <<"x", "..">>}
  PROVE  NormalizeMatchPath(SubSeq(p, 1, i) \o detour \o SubSeq(p, i + 1, Len(p))) = NormalizeMatchPath(p)
<1> DEFINE a == SubSeq(p, 1, i)
           q == SubSeq(p, i + 1, Len(p))
<1>1. a \in Seq(S) /\ q \in Seq(S)
  BY CutAt, Zenon
<1>2. p = a \o q
  BY CutAt, Zenon
<1> HIDE DEF a, q
<1>3. a \o detour \in Seq(S) /\ NormalizeMatchPath(a \o detour) = NormalizeMatchPath(a)
  BY <1>1, DetourAtEnd, Zenon
<1>4. NormalizeMatchPath((a \o detour) \o q) = NormalizeMatchPath(a \o q)
  BY <1>1, <1>3, CleanTail, Zenon
<1> QED BY <1>2, <1>4, Zenon DEF a, q

\* Spelling never chooses the policy of a request, whatever the routes and the paths:
\* the path of a request stays as it came, and its policy depends on it only through
\* its normal form.
THEOREM SpellingIrrelevantAlways == PipelineSpec => []SpellingIrrelevant
<1> DEFINE PathInv == gpPath \in RawPaths
<1>1. PipelineInit => PathInv
  BY Zenon DEF PipelineInit
<1>2. PathInv /\ [PipelineNext]_gpVars => PathInv'
  <2>1. [PipelineNext]_gpVars => UNCHANGED gpPath
    BY ZenonT(60)
       DEF PipelineNext, gpVars, gpRest, SetKillSwitch, RouteControlPlane, CapBody, BanGate, SmuggleGate,
           SpoofHeaderGate, Route, AgentAuthGate, PatGate, WebauthnGate, VerdictTokenGate, UpgradeGate,
           SweepGate, Decide, Act, HandleUpstreamError, ModifyResponse
  <2> QED BY <2>1, SMTT(30)
<1>3. PathInv => SpellingIrrelevant
  <2> SUFFICES ASSUME PathInv, NEW i \in 0..Len(gpPath), NEW detour \in {<<".">>, <<"">>, <<"x", "..">>}
               PROVE  ResolveConfig(SubSeq(gpPath, 1, i) \o detour \o SubSeq(gpPath, i + 1, Len(gpPath)), gpMonitor)
                        = ResolveConfig(gpPath, gpMonitor)
    BY Zenon DEF SpellingIrrelevant
  <2> DEFINE S == Segments \cup {"", ".", "..", "x"}
  <2>1. gpPath \in Seq(S) /\ {"", ".", "..", "x"} \subseteq S
    <3>1. gpPath \in Seq(Segments) /\ Segments \subseteq S /\ {"", ".", "..", "x"} \subseteq S
      BY PipelineAssumption, Zenon
    <3> HIDE DEF S
    <3> QED BY <3>1, SeqMonotonic, Zenon
  <2> HIDE DEF S
  <2> DEFINE spelt == SubSeq(gpPath, 1, i) \o detour \o SubSeq(gpPath, i + 1, Len(gpPath))
  <2>2. NormalizeMatchPath(spelt) = NormalizeMatchPath(gpPath)
    BY <2>1, DetourChangesNothing, Zenon
  <2> HIDE DEF spelt
  <2>3. ResolveConfig(spelt, gpMonitor) = ResolveConfig(gpPath, gpMonitor)
    BY <2>2, Zenon DEF ResolveConfig
  <2> QED BY <2>3, Zenon DEF spelt
<1> QED BY <1>1, <1>2, <1>3, PTL DEF PipelineSpec

(***************************************************************************)
(* The first occurrence of a pattern: IndexOf of Injector                  *)
(***************************************************************************)
\* pat stands in b after i entries.
StandsAt(b, pat, i) == SubSeq(b, i + 1, i + Len(pat)) = pat

\* IndexOf returns the first place where the pattern stands, or -1.
LEMMA FirstIndex ==
  ASSUME NEW S, NEW b \in Seq(S), NEW pat, Len(pat) \in Nat
  PROVE  \/ /\ IndexOf(b, pat) = -1
            /\ \A i \in 0..(Len(b) - Len(pat)) : ~StandsAt(b, pat, i)
         \/ /\ IndexOf(b, pat) \in 0..(Len(b) - Len(pat)) /\ StandsAt(b, pat, IndexOf(b, pat))
            /\ \A i \in 0..(Len(b) - Len(pat)) : StandsAt(b, pat, i) => IndexOf(b, pat) <= i
<1> DEFINE at == {i \in 0..(Len(b) - Len(pat)) : SubSeq(b, i + 1, i + Len(pat)) = pat}
<1>1. IndexOf(b, pat) = IF at = {} THEN -1 ELSE CHOOSE i \in at : \A j \in at : i <= j
  BY Zenon DEF IndexOf
<1>2. CASE at = {}
  BY <1>1, <1>2, Zenon DEF StandsAt
<1>3. CASE at # {}
  <2>1. at \subseteq Nat
    OBVIOUS
  <2>2. \E i \in at : \A j \in at : i <= j
    BY <1>3, <2>1, LeastOf, Zenon
  <2>3. IndexOf(b, pat) \in at /\ \A j \in at : IndexOf(b, pat) <= j
    BY <1>1, <1>3, <2>2, Zenon
  <2> QED BY <2>3, Zenon DEF StandsAt
<1> QED BY <1>2, <1>3, Zenon

\* A part of a list.
LEMMA PartOf ==
  ASSUME NEW S, NEW b \in Seq(S), NEW i \in Nat, NEW n \in Nat, i + n <= Len(b)
  PROVE  /\ SubSeq(b, i + 1, i + n) \in Seq(S) /\ Len(SubSeq(b, i + 1, i + n)) = n
         /\ \A k \in 1..n : SubSeq(b, i + 1, i + n)[k] = b[i + k]
  OBVIOUS

\* What stands within the beginning of a list stands in the list, and conversely.
LEMMA StandsInPrefix ==
  ASSUME NEW S, NEW b \in Seq(S), NEW rest \in Seq(S), NEW pat, Len(pat) \in Nat, NEW i \in 0..(Len(b) - Len(pat))
  PROVE  StandsAt(b \o rest, pat, i) <=> StandsAt(b, pat, i)
<1> DEFINE d == b \o rest
           n == Len(pat)
           u == SubSeq(b, i + 1, i + n)
           v == SubSeq(d, i + 1, i + n)
<1>1. d \in Seq(S) /\ Len(d) = Len(b) + Len(rest) /\ \A j \in 1..Len(b) : d[j] = b[j]
  OBVIOUS
<1> HIDE DEF d
<1>2. i \in Nat /\ n \in Nat /\ i + n <= Len(b) /\ i + n <= Len(d) /\ \A k \in 1..n : i + k \in 1..Len(b)
  BY <1>1
<1> HIDE DEF n
<1>3. u \in Seq(S) /\ Len(u) = n /\ \A k \in 1..n : u[k] = b[i + k]
  BY <1>2, PartOf, SMTT(30)
<1>4. v \in Seq(S) /\ Len(v) = n /\ \A k \in 1..n : v[k] = d[i + k]
  BY <1>1, <1>2, PartOf, SMTT(30)
<1> HIDE DEF u, v
<1>5. Len(u) = Len(v) /\ \A k \in 1..Len(u) : u[k] = v[k]
  BY <1>1, <1>2, <1>3, <1>4, Zenon
<1>6. u = v
  BY <1>3, <1>4, <1>5, SeqEqual
<1> QED BY <1>6, Zenon DEF StandsAt, d, n, u, v

\* A pattern found in the beginning of a list is the first one of the list, and a
\* first one that lies within the beginning is found there.
LEMMA IndexInPrefix ==
  ASSUME NEW S, NEW b \in Seq(S), NEW rest \in Seq(S), NEW pat, Len(pat) \in Nat
  PROVE  /\ IndexOf(b, pat) >= 0 => IndexOf(b \o rest, pat) = IndexOf(b, pat)
         /\ IndexOf(b \o rest, pat) >= 0 /\ IndexOf(b \o rest, pat) + Len(pat) <= Len(b) =>
              IndexOf(b, pat) = IndexOf(b \o rest, pat)
         /\ IndexOf(b, pat) \in Int /\ IndexOf(b \o rest, pat) \in Int
<1> DEFINE d == b \o rest
           n == Len(pat)
           x == IndexOf(b, pat)
           y == IndexOf(d, pat)
<1>1. d \in Seq(S) /\ Len(b) \in Nat /\ Len(d) \in Nat /\ Len(b) <= Len(d)
  OBVIOUS
<1>2. \A i \in 0..(Len(b) - n) : StandsAt(d, pat, i) <=> StandsAt(b, pat, i)
  BY StandsInPrefix, Zenon
<1>3. \/ x = -1 /\ \A i \in 0..(Len(b) - n) : ~StandsAt(b, pat, i)
      \/ /\ x \in 0..(Len(b) - n) /\ StandsAt(b, pat, x)
         /\ \A i \in 0..(Len(b) - n) : StandsAt(b, pat, i) => x <= i
  BY FirstIndex, Zenon
<1> HIDE DEF d
<1>4. \/ y = -1 /\ \A i \in 0..(Len(d) - n) : ~StandsAt(d, pat, i)
      \/ /\ y \in 0..(Len(d) - n) /\ StandsAt(d, pat, y)
         /\ \A i \in 0..(Len(d) - n) : StandsAt(d, pat, i) => y <= i
  BY <1>1, FirstIndex, Zenon
<1> HIDE DEF x, y
<1>5. n \in Nat
  OBVIOUS
<1> HIDE DEF n
<1>6. \A i \in 0..(Len(b) - n) : i \in 0..(Len(d) - n)
  BY <1>1, <1>5
<1>7. x \in Int /\ y \in Int
  BY <1>1, <1>3, <1>4, <1>5, SMTT(30)
<1>8. ASSUME x >= 0 PROVE y = x
  <2>1. x \in 0..(Len(b) - n) /\ StandsAt(b, pat, x)
    BY <1>3, <1>8
  <2>2. x \in 0..(Len(d) - n) /\ StandsAt(d, pat, x)
    BY <1>2, <1>6, <2>1, Zenon
  <2>3. y \in 0..(Len(d) - n) /\ StandsAt(d, pat, y) /\ y <= x
    BY <1>4, <2>2, Zenon
  <2>4. y \in 0..(Len(b) - n)
    BY <1>1, <1>5, <2>1, <2>3, SMTT(30)
  <2>5. x <= y
    BY <1>2, <1>3, <2>1, <2>3, <2>4, <1>8, SMTT(30)
  <2> QED BY <1>7, <2>3, <2>5
<1>9. ASSUME y >= 0, y + n <= Len(b) PROVE x = y
  <2>1. y \in 0..(Len(d) - n) /\ StandsAt(d, pat, y)
    BY <1>4, <1>9
  <2>2. y \in 0..(Len(b) - n)
    BY <1>1, <1>5, <1>7, <1>9, SMTT(30)
  <2>3. StandsAt(b, pat, y)
    BY <1>2, <2>1, <2>2, Zenon
  <2>4. x \in 0..(Len(b) - n)
    BY <1>3, <2>2, <2>3, Zenon
  <2>5. x >= 0
    BY <2>4, <1>1, <1>5, SMTT(30)
  <2> QED BY <1>8, <2>5
<1> QED BY <1>7, <1>8, <1>9, Zenon DEF d, n, x, y

\* The range of an index; an index of a tag is where its first fragment is, so that
\* two tags are never at one place.
LEMMA IndexRange ==
  ASSUME NEW S, NEW b \in Seq(S), NEW pat, Len(pat) \in Nat
  PROVE  /\ IndexOf(b, pat) \in Int /\ -1 <= IndexOf(b, pat)
         /\ IndexOf(b, pat) >= 0 => IndexOf(b, pat) + Len(pat) <= Len(b)
<1>1. IndexOf(b, pat) = -1 \/ IndexOf(b, pat) \in 0..(Len(b) - Len(pat))
  BY FirstIndex, Zenon
<1>2. Len(b) \in Nat
  OBVIOUS
<1> QED BY <1>1, <1>2

LEMMA IndexFragment ==
  ASSUME NEW S, NEW b \in Seq(S), NEW pat, Len(pat) \in Nat \ {0}, IndexOf(b, pat) >= 0
  PROVE  b[IndexOf(b, pat) + 1] = pat[1]
<1> DEFINE i == IndexOf(b, pat)
           n == Len(pat)
<1>1. n \in Nat /\ 1 \in 1..n /\ Len(b) \in Nat
  OBVIOUS
<1>2. i = -1 \/ (i \in 0..(Len(b) - n) /\ StandsAt(b, pat, i))
  BY <1>1, FirstIndex, Zenon
<1>3. i >= 0
  OBVIOUS
<1> HIDE DEF i
<1>4. StandsAt(b, pat, i) /\ i \in 0..(Len(b) - n)
  BY <1>2, <1>3
<1> HIDE DEF n
<1>5. i \in Nat /\ i + n <= Len(b)
  BY <1>1, <1>4
<1>6. SubSeq(b, i + 1, i + n)[1] = b[i + 1]
  BY <1>1, <1>5, PartOf, SMTT(30)
<1>7. SubSeq(b, i + 1, i + n) = pat
  BY <1>4, Zenon DEF StandsAt, n
<1> QED BY <1>6, <1>7, Zenon DEF i

LEMMA TagsApart ==
  ASSUME NEW S, NEW b \in Seq(S), NEW p, NEW q, Len(p) \in Nat \ {0}, Len(q) \in Nat \ {0}, p[1] # q[1],
         IndexOf(b, p) >= 0
  PROVE  IndexOf(b, p) # IndexOf(b, q)
<1>1. b[IndexOf(b, p) + 1] = p[1]
  BY IndexFragment, Zenon
<1>2. IndexOf(b, q) >= 0 => b[IndexOf(b, q) + 1] = q[1]
  BY IndexFragment, Zenon
<1> QED BY <1>1, <1>2, Zenon

LEMMA Tags ==
  /\ Len(headTag) = 2 /\ Len(headEnd) = 2 /\ Len(bodyTag) = 1 /\ Len(tagEnd) = 1 /\ Len(injectMarker) = 2
  /\ headTag[1] # headEnd[1] /\ headTag[1] # bodyTag[1] /\ headEnd[1] # bodyTag[1]
  BY DEF headTag, headEnd, bodyTag, tagEnd, injectMarker

\* What follows an index of the beginning of a list.
LEMMA RestOfPrefix ==
  ASSUME NEW S, NEW b \in Seq(S), NEW rest \in Seq(S), NEW h \in 0..Len(b)
  PROVE  SubSeq(b \o rest, h + 1, Len(b \o rest)) = SubSeq(b, h + 1, Len(b)) \o rest
<1> DEFINE d == b \o rest
           u == SubSeq(b, h + 1, Len(b))
           v == SubSeq(d, h + 1, Len(d))
           w == u \o rest
<1>1. /\ d \in Seq(S) /\ Len(d) = Len(b) + Len(rest) /\ Len(b) \in Nat /\ Len(rest) \in Nat
      /\ \A k \in 1..Len(d) : d[k] = IF k <= Len(b) THEN b[k] ELSE rest[k - Len(b)]
  BY ConcatProperties
<1>2. u \in Seq(S) /\ Len(u) = Len(b) - h /\ \A k \in 1..(Len(b) - h) : u[k] = b[h + k]
  OBVIOUS
<1> HIDE DEF u
<1>3. /\ w \in Seq(S) /\ Len(w) = Len(u) + Len(rest)
      /\ \A k \in 1..(Len(u) + Len(rest)) : w[k] = IF k <= Len(u) THEN u[k] ELSE rest[k - Len(u)]
  BY <1>2, ConcatProperties, Zenon
<1> HIDE DEF d, w
<1>4. v \in Seq(S) /\ Len(v) = Len(d) - h /\ \A k \in 1..(Len(d) - h) : v[k] = d[h + k]
  BY <1>1, SMTT(30)
<1> HIDE DEF v
<1>5. Len(v) = Len(w)
  BY <1>1, <1>2, <1>3, <1>4
<1>6. ASSUME NEW k \in 1..Len(v) PROVE v[k] = w[k]
  <2>1. v[k] = d[h + k] /\ h + k \in 1..Len(d)
    BY <1>1, <1>4
  <2>2. CASE k <= Len(b) - h
    <3>1. v[k] = b[h + k]
      BY <1>1, <2>1, <2>2, SMTT(30)
    <3>2. w[k] = b[h + k]
      <4>1. k \in 1..(Len(b) - h) /\ k \in 1..(Len(u) + Len(rest)) /\ k <= Len(u)
        BY <1>1, <1>2, <1>4, <2>2, SMTT(30)
      <4> QED BY <1>2, <1>3, <4>1, Zenon
    <3> QED BY <3>1, <3>2, Zenon
  <2>3. CASE ~(k <= Len(b) - h)
    <3>1. v[k] = rest[h + k - Len(b)]
      <4>1. ~(h + k <= Len(b))
        BY <1>1, <1>4, <2>3
      <4>2. d[h + k] = rest[(h + k) - Len(b)]
        BY <1>1, <2>1, <4>1
      <4> QED BY <2>1, <4>2, SMTT(30)
    <3>2. w[k] = rest[k - Len(u)]
      <4>1. k \in 1..(Len(u) + Len(rest)) /\ ~(k <= Len(u))
        BY <1>1, <1>2, <1>4, <2>3, SMTT(30)
      <4> QED BY <1>3, <4>1, Zenon
    <3>3. k - Len(u) = h + k - Len(b)
      BY <1>1, <1>2, <1>4, SMTT(30)
    <3> QED BY <3>1, <3>2, <3>3, Zenon
  <2> QED BY <2>2, <2>3, Zenon
<1>7. v = w
  BY <1>3, <1>4, <1>5, <1>6, SeqEqual, Zenon
<1> QED BY <1>7, Zenon DEF u, v, w, d

\* The point found in the beginning of a page is the point of the page.
LEMMA PointInPrefix ==
  ASSUME NEW S, NEW b \in Seq(S), NEW rest \in Seq(S), InDocumentOrder(b \o rest), findInsertionPoint(b) >= 0
  PROVE  findInsertionPoint(b \o rest) = findInsertionPoint(b)
<1> DEFINE d == b \o rest
           hb == IndexOf(b, headTag)
           cb == IndexOf(b, headEnd)
           bb == IndexOf(b, bodyTag)
           hd == IndexOf(d, headTag)
           cd == IndexOf(d, headEnd)
           bd == IndexOf(d, bodyTag)
           gb == IndexOf(SubSeq(b, hb + 1, Len(b)), tagEnd)
           gd == IndexOf(SubSeq(d, hd + 1, Len(d)), tagEnd)
<1>1. d \in Seq(S) /\ Len(b) \in Nat /\ 2 \in Nat /\ 1 \in Nat /\ 2 \in Nat \ {0} /\ 1 \in Nat \ {0}
  OBVIOUS
<1>2. /\ findInsertionPoint(b) = IF hb >= 0 THEN IF gb >= 0 THEN hb + gb + 1 ELSE -1 ELSE IF cb >= 0 THEN cb ELSE bb
      /\ findInsertionPoint(d) = IF hd >= 0 THEN IF gd >= 0 THEN hd + gd + 1 ELSE -1 ELSE IF cd >= 0 THEN cd ELSE bd
  BY Zenon DEF findInsertionPoint
<1>3. /\ cd \notin 0..(hd - 1) /\ bd \notin 0..(hd - 1)
      /\ hd < 0 => bd \notin 0..(cd - 1)
  BY Zenon DEF InDocumentOrder
<1>4. hb >= 0 /\ gb >= 0 => gd = gb
  <2>1. ASSUME hb >= 0, gb >= 0 PROVE gd = gb
    <3>1. hd = hb
      BY <1>1, <2>1, Tags, IndexInPrefix, SMTT(30)
    <3>2. hb \in 0..Len(b) /\ hb + 1 \in Int
      BY <1>1, <2>1, Tags, IndexRange, SMTT(40)
    <3> DEFINE u == SubSeq(b, hb + 1, Len(b))
    <3>3. SubSeq(d, hb + 1, Len(d)) = u \o rest
      BY <3>2, RestOfPrefix, Zenon
    <3>4. u \in Seq(S)
      BY <3>2, CutAt
    <3>5. IndexOf(u, tagEnd) >= 0
      BY <2>1, Zenon
    <3> HIDE DEF u
    <3>6. IndexOf(u \o rest, tagEnd) = IndexOf(u, tagEnd)
      BY <1>1, <3>4, <3>5, Tags, IndexInPrefix, SMTT(30)
    <3> QED BY <3>1, <3>3, <3>6, Zenon DEF u
  <2> QED BY <2>1, Zenon
<1>5. /\ hb >= 0 => hd = hb
      /\ hd >= 0 /\ hd + 2 <= Len(b) => hb = hd
      /\ hb \in Int /\ hd \in Int
  BY <1>1, Tags, IndexInPrefix, Zenon
<1>6. (cb >= 0 => cd = cb) /\ (cd >= 0 /\ cd + 2 <= Len(b) => cb = cd) /\ cb \in Int /\ cd \in Int
  BY <1>1, Tags, IndexInPrefix, Zenon
<1>7. (bb >= 0 => bd = bb) /\ bb \in Int /\ bd \in Int
  BY <1>1, Tags, IndexInPrefix
<1>8. (cb >= 0 => cb + 2 <= Len(b)) /\ (bb >= 0 => bb + 1 <= Len(b))
  BY <1>1, Tags, IndexRange, Zenon
<1>9. (hd >= 0 => hd # bd) /\ (cd >= 0 => cd # bd)
  BY <1>1, Tags, TagsApart, Zenon
<1>10. findInsertionPoint(b) >= 0
  OBVIOUS
<1> HIDE DEF d, hb, cb, bb, hd, cd, bd, gb, gd
<1>11. CASE hb >= 0
  <2>1. hd = hb /\ hd >= 0 /\ gb >= 0
    BY <1>2, <1>5, <1>10, <1>11, SMTT(30)
  <2> QED BY <1>2, <1>4, <1>11, <2>1, ZenonT(30) DEF d
<1>12. CASE ~(hb >= 0)
  <2>1. CASE cb >= 0
    <3>1. ~(hd >= 0) /\ cd = cb
      BY <1>1, <1>3, <1>5, <1>6, <1>8, <1>12, <2>1, SMTT(30)
    <3> QED BY <1>2, <1>12, <2>1, <3>1, ZenonT(30) DEF d
  <2>2. CASE ~(cb >= 0)
    <3>1. bb >= 0
      BY <1>2, <1>10, <1>12, <2>2, Zenon
    <3>2. ~(hd >= 0) /\ bd = bb
      BY <1>1, <1>3, <1>5, <1>7, <1>8, <1>9, <1>12, <3>1, SMTT(30)
    <3>3. ~(cd >= 0)
      BY <1>1, <1>3, <1>5, <1>6, <1>7, <1>8, <1>9, <2>2, <3>1, <3>2, SMTT(30)
    <3> QED BY <1>2, <1>12, <2>2, <3>2, <3>3, Zenon DEF d
  <2> QED BY <2>1, <2>2, Zenon
<1> QED BY <1>11, <1>12, Zenon

\* The point of a page, with the marker's length behind it, within the beginning of
\* the page is found there.
LEMMA PointWithinReach ==
  ASSUME NEW S, NEW b \in Seq(S), NEW rest \in Seq(S), findInsertionPoint(b \o rest) >= 0,
         findInsertionPoint(b \o rest) + 2 <= Len(b)
  PROVE  findInsertionPoint(b) >= 0
<1> DEFINE d == b \o rest
           hb == IndexOf(b, headTag)
           cb == IndexOf(b, headEnd)
           bb == IndexOf(b, bodyTag)
           hd == IndexOf(d, headTag)
           cd == IndexOf(d, headEnd)
           bd == IndexOf(d, bodyTag)
           gb == IndexOf(SubSeq(b, hb + 1, Len(b)), tagEnd)
           gd == IndexOf(SubSeq(d, hd + 1, Len(d)), tagEnd)
<1>1. d \in Seq(S) /\ Len(b) \in Nat /\ 2 \in Nat /\ 1 \in Nat
  OBVIOUS
<1>2. /\ findInsertionPoint(b) = IF hb >= 0 THEN IF gb >= 0 THEN hb + gb + 1 ELSE -1 ELSE IF cb >= 0 THEN cb ELSE bb
      /\ findInsertionPoint(d) = IF hd >= 0 THEN IF gd >= 0 THEN hd + gd + 1 ELSE -1 ELSE IF cd >= 0 THEN cd ELSE bd
  BY Zenon DEF findInsertionPoint
<1>3. /\ hb >= 0 => hd = hb
      /\ hd >= 0 /\ hd + 2 <= Len(b) => hb = hd
      /\ hb \in Int /\ hd \in Int
  BY <1>1, Tags, IndexInPrefix, Zenon
<1>4. (cb >= 0 => cd = cb) /\ (cd >= 0 /\ cd + 2 <= Len(b) => cb = cd) /\ cb \in Int /\ cd \in Int
  BY <1>1, Tags, IndexInPrefix, Zenon
<1>5. (bd >= 0 /\ bd + 1 <= Len(b) => bb = bd) /\ bb \in Int /\ bd \in Int
  BY <1>1, Tags, IndexInPrefix, Zenon
<1>6. (hb >= 0 => gb \in Int) /\ (hd >= 0 => gd \in Int)
  <2>1. ASSUME NEW c \in Seq(S) PROVE IndexOf(c, tagEnd) \in Int
    BY <1>1, Tags, IndexRange, SMTT(30)
  <2>2. (hb >= 0 => SubSeq(b, hb + 1, Len(b)) \in Seq(S)) /\ (hd >= 0 => SubSeq(d, hd + 1, Len(d)) \in Seq(S))
    <3> HIDE DEF d
    <3>1. (hb >= 0 => hb + 2 <= Len(b)) /\ hb \in Int
      BY <1>1, Tags, IndexRange, Zenon
    <3>2. (hd >= 0 => hd + Len(headTag) <= Len(d)) /\ hd \in Int
      BY <1>1, Tags, IndexRange, Zenon
    <3> HIDE DEF hb, hd
    <3>3. (hb >= 0 => hb \in 0..Len(b)) /\ (hd >= 0 => hd \in 0..Len(d))
      BY <1>1, <3>1, <3>2, Tags, SMTT(30)
    <3> QED BY <1>1, <3>3, CutAt, Zenon
  <2> QED BY <2>1, <2>2, Zenon
<1>7. ASSUME hd >= 0, gd >= 0, hd + gd + 3 <= Len(b) PROVE gb = gd
  <2>1. hd = hb /\ hb \in 0..Len(b) /\ hb + 1 \in Int
    <3> HIDE DEF d, hb, hd, gd
    <3> QED BY <1>1, <1>3, <1>6, <1>7, SMTT(30)
  <2> DEFINE u == SubSeq(b, hb + 1, Len(b))
  <2>2. SubSeq(d, hb + 1, Len(d)) = u \o rest
    BY <2>1, RestOfPrefix, Zenon
  <2>3. u \in Seq(S) /\ Len(u) = Len(b) - hb
    BY <2>1, SMTT(30)
  <2>4. gd = IndexOf(u \o rest, tagEnd)
    BY <2>1, <2>2, Zenon
  <2> HIDE DEF d, hb, hd, gd, u
  <2>5. gd + 1 <= Len(u)
    BY <1>1, <1>6, <1>7, <2>1, <2>3, SMTT(30)
  <2>6. IndexOf(u, tagEnd) = gd
    BY <1>1, <1>7, <2>3, <2>4, <2>5, Tags, IndexInPrefix, ZenonT(30)
  <2> QED BY <2>6, Zenon DEF u
<1>8. findInsertionPoint(d) >= 0 /\ findInsertionPoint(d) + 2 <= Len(b)
  OBVIOUS
<1> HIDE DEF d, hb, cb, bb, hd, cd, bd, gb, gd
<1>9. CASE hd >= 0
  <2>1. gd >= 0 /\ hd + gd + 3 <= Len(b)
    BY <1>1, <1>2, <1>3, <1>6, <1>8, <1>9, SMTT(30)
  <2>2. hb = hd /\ gb = gd
    BY <1>1, <1>3, <1>6, <1>7, <1>9, <2>1, SMTT(30)
  <2> QED BY <1>2, <1>3, <1>6, <1>9, <2>1, <2>2, SMTT(30)
<1>10. CASE ~(hd >= 0)
  <2>1. ~(hb >= 0)
    BY <1>3, <1>10
  <2>2. CASE cd >= 0
    <3>1. cb >= 0
      BY <1>1, <1>2, <1>4, <1>8, <1>10, <2>2, SMTT(30)
    <3> QED BY <1>2, <2>1, <3>1, ZenonT(30)
  <2>3. CASE ~(cd >= 0)
    <3>1. ~(cb >= 0) /\ bb >= 0
      BY <1>1, <1>2, <1>4, <1>5, <1>8, <1>10, <2>3, SMTT(30)
    <3> QED BY <1>2, <2>1, <3>1, Zenon
  <2> QED BY <2>2, <2>3, Zenon
<1> QED BY <1>9, <1>10, Zenon

LEMMA PointRange ==
  ASSUME NEW S, NEW b \in Seq(S)
  PROVE  findInsertionPoint(b) \in Int /\ (findInsertionPoint(b) >= 0 => findInsertionPoint(b) \in 0..Len(b))
<1> DEFINE hb == IndexOf(b, headTag)
           cb == IndexOf(b, headEnd)
           bb == IndexOf(b, bodyTag)
           u == SubSeq(b, hb + 1, Len(b))
           gb == IndexOf(u, tagEnd)
<1>1. Len(b) \in Nat /\ 2 \in Nat /\ 1 \in Nat
  OBVIOUS
<1>2. findInsertionPoint(b) = IF hb >= 0 THEN IF gb >= 0 THEN hb + gb + 1 ELSE -1 ELSE IF cb >= 0 THEN cb ELSE bb
  BY Zenon DEF findInsertionPoint
<1>3. /\ hb \in Int /\ cb \in Int /\ bb \in Int /\ -1 <= hb
      /\ (hb >= 0 => hb + 2 <= Len(b)) /\ (cb >= 0 => cb + 2 <= Len(b)) /\ (bb >= 0 => bb + 1 <= Len(b))
  BY <1>1, Tags, IndexRange, Zenon
<1> HIDE DEF hb, cb, bb
<1>4. hb >= 0 => u \in Seq(S) /\ Len(u) = Len(b) - hb
  BY <1>1, <1>3
<1> HIDE DEF u
<1>5. hb >= 0 => gb \in Int /\ (gb >= 0 => gb + 1 <= Len(u))
  BY <1>1, <1>4, Tags, IndexRange, Zenon
<1> HIDE DEF gb
<1> QED BY <1>1, <1>2, <1>3, <1>4, <1>5, SMTT(30)

(***************************************************************************)
(* Injector                                                                *)
(***************************************************************************)
\* Bytes that move from the front of one list to the end of another.
Moves(S, a, b, n) ==
  /\ a \o SubSeq(b, 1, n) \in Seq(S) /\ SubSeq(b, n + 1, Len(b)) \in Seq(S)
  /\ (a \o SubSeq(b, 1, n)) \o SubSeq(b, n + 1, Len(b)) = a \o b

LEMMA Moved ==
  ASSUME NEW S, NEW a \in Seq(S), NEW b \in Seq(S), NEW n \in 0..Len(b)
  PROVE  Moves(S, a, b, n)
<1> DEFINE u == SubSeq(b, 1, n)
           v == SubSeq(b, n + 1, Len(b))
<1>1. u \in Seq(S) /\ v \in Seq(S)
  BY CutAt, Zenon
<1>2. u \o v = b
  BY CutAt, Zenon
<1> HIDE DEF u, v
<1>3. a \o u \in Seq(S)
  BY <1>1, ConcatProperties, Zenon
<1>4. (a \o u) \o v = a \o (u \o v)
  BY <1>1, SMTT(30)
<1> QED BY <1>1, <1>2, <1>3, <1>4, Zenon DEF Moves, u, v

\* What follows a snippet may be appended before or after it is put in.
LEMMA SnippetInPrefix ==
  ASSUME NEW S, injSnippet \in Seq(S), NEW b \in Seq(S), NEW rest \in Seq(S), NEW i \in 0..Len(b)
  PROVE  WithSnippet(b, i) \in Seq(S) /\ WithSnippet(b, i) \o rest = WithSnippet(b \o rest, i)
<1> DEFINE d == b \o rest
           u == SubSeq(b, 1, i)
           v == SubSeq(b, i + 1, Len(b))
           us == u \o injSnippet
<1>1. u \in Seq(S) /\ v \in Seq(S)
  BY CutAt, Zenon
<1>2. SubSeq(d, 1, i) = u
  OBVIOUS
<1>3. SubSeq(d, i + 1, Len(d)) = v \o rest
  BY RestOfPrefix, Zenon
<1> HIDE DEF d, u, v
<1>4. us \in Seq(S)
  BY <1>1, ConcatProperties, Zenon
<1>5. WithSnippet(b, i) = us \o v /\ WithSnippet(d, i) = us \o (v \o rest)
  BY <1>2, <1>3, Zenon DEF WithSnippet, u, v
<1> HIDE DEF us
<1>6. us \o v \in Seq(S)
  BY <1>1, <1>4, ConcatProperties, Zenon
<1>7. (us \o v) \o rest = us \o (v \o rest)
  <2>1. v \in Seq(S)
    BY <1>1
  <2> QED BY ONLY <1>4, <2>1, rest \in Seq(S), SMTT(30)
<1> QED BY <1>5, <1>6, <1>7, Zenon DEF d

InjFragments == Fragments \cup {"<!--hmn-injected--", ">", "script"}

LEMMA SnippetType == injSnippet \in Seq(InjFragments) /\ InjPages \subseteq Seq(InjFragments)
<1>1. Fragments \subseteq InjFragments
  BY Zenon DEF InjFragments
<1>2. "<!--hmn-injected--" \in InjFragments /\ ">" \in InjFragments /\ "script" \in InjFragments
  BY Zenon DEF InjFragments
<1>3. injectMarker \in Seq(InjFragments) /\ <<"script">> \in Seq(InjFragments)
  BY <1>2 DEF injectMarker
<1> QED BY <1>1, <1>3, InjectorAssumption, SeqMonotonic, ConcatProperties, Zenon DEF injSnippet

\* The fate of a page once it is decided, whatever has been served of it.
Settled(doc, text, res, fail) ==
  /\ res.injected => findInsertionPoint(doc) >= 0 /\ text = WithSnippet(doc, findInsertionPoint(doc))
  /\ ~res.injected =>
       /\ text = doc
       /\ ~fail /\ ~InjectedBefore(doc) =>
            findInsertionPoint(doc) < 0 \/ findInsertionPoint(doc) + Len(injectMarker) > maxLookahead

InjInv ==
  /\ injDoc \in InjPages
  /\ injSrc \in Seq(InjFragments) /\ injPre \in Seq(InjFragments)
  /\ injBuf \in Seq(InjFragments) /\ injOut \in Seq(InjFragments)
  /\ injDone \in BOOLEAN /\ injFail \in BOOLEAN /\ injRes.injected \in BOOLEAN
  /\ ~injDone => /\ injOut = <<>> /\ injBuf = <<>> /\ ~injRes.injected /\ ~injFail /\ injEnd = ""
                 /\ injPre \o injSrc = injDoc
  /\ injDone => injPre = <<>> /\ Settled(injDoc, (injOut \o injBuf) \o injSrc, injRes, injFail)
  /\ injEnd = "eof" => injDone /\ ~injFail
  /\ Len(injPre) < maxLookahead + InjChunk

LEMMA InjInitially == newInjectingReader => InjInv
<1> SUFFICES ASSUME newInjectingReader PROVE InjInv
  OBVIOUS
<1>1. injDoc \in InjPages /\ injDoc \in Seq(InjFragments) /\ <<>> \in Seq(InjFragments)
  BY SnippetType, EmptySeq, Zenon DEF newInjectingReader
<1>2. <<>> \o injDoc = injDoc
  BY <1>1, ConcatEmptySeq, Zenon
<1>3. Len(injPre) < maxLookahead + InjChunk
  <2>1. maxLookahead \in Nat \ {0} /\ InjChunk \in Nat \ {0}
    BY InjectorAssumption, Zenon
  <2>2. Len(injPre) = 0
    BY Zenon DEF newInjectingReader
  <2> QED BY <2>1, <2>2, SMTT(30)
<1>4. injRes.injected = FALSE /\ injEnd # "eof"
  BY Zenon DEF newInjectingReader
<1> QED BY <1>1, <1>2, <1>3, <1>4, ZenonT(30) DEF newInjectingReader, InjInv

\* A decision over the first bytes of a page settles the page.
LEMMA InsertedSettles ==
  ASSUME NEW doc \in InjPages, NEW pre \in Seq(InjFragments), NEW src \in Seq(InjFragments), pre \o src = doc,
         findInsertionPoint(pre) >= 0, NEW fail, NEW res, res.injected = TRUE
  PROVE  /\ WithSnippet(pre, findInsertionPoint(pre)) \in Seq(InjFragments)
         /\ Settled(doc, (<<>> \o WithSnippet(pre, findInsertionPoint(pre))) \o src, res, fail)
<1> DEFINE idx == findInsertionPoint(pre)
<1>1. InDocumentOrder(pre \o src)
  BY PagesAssumption, Zenon
<1>2. findInsertionPoint(doc) = idx
  BY <1>1, PointInPrefix, Zenon
<1>3. idx \in 0..Len(pre)
  BY PointRange, Zenon
<1>4. idx >= 0
  OBVIOUS
<1> HIDE DEF idx
<1>5. WithSnippet(pre, idx) \in Seq(InjFragments) /\ WithSnippet(pre, idx) \o src = WithSnippet(doc, idx)
  BY <1>3, SnippetType, SnippetInPrefix, ZenonT(30)
<1>6. <<>> \o WithSnippet(pre, idx) = WithSnippet(pre, idx)
  BY <1>5, ConcatEmptySeq, Zenon
<1> QED BY <1>2, <1>4, <1>5, <1>6, ZenonT(30) DEF Settled, idx

LEMMA PassedSettles ==
  ASSUME NEW doc \in InjPages, NEW pre \in Seq(InjFragments), NEW src \in Seq(InjFragments), pre \o src = doc,
         NEW fail, NEW res, res.injected = FALSE,
         ~fail /\ ~InjectedBefore(doc) =>
            findInsertionPoint(doc) < 0 \/ findInsertionPoint(doc) + Len(injectMarker) > maxLookahead
  PROVE  Settled(doc, (<<>> \o pre) \o src, res, fail)
<1>1. <<>> \o pre = pre
  BY ConcatEmptySeq, Zenon
<1> QED BY <1>1, Zenon DEF Settled

LEMMA LookSays ==
  ASSUME NEW pre
  PROVE  /\ Look(pre) = "inject" => findInsertionPoint(pre) >= 0
         /\ Look(pre) = "already_present" => IndexOf(pre, injectMarker) >= 0
         /\ Look(pre) = "point_not_found" =>
              /\ ~(findInsertionPoint(pre) >= 0 /\ Len(pre) >= findInsertionPoint(pre) + Len(injectMarker))
              /\ Len(pre) >= maxLookahead
         /\ Look(pre) = "read" => ~(Len(pre) >= maxLookahead)
<1> DEFINE m == IndexOf(pre, injectMarker) >= 0
           f == findInsertionPoint(pre) >= 0 /\ Len(pre) >= findInsertionPoint(pre) + Len(injectMarker)
           l == Len(pre) >= maxLookahead
<1>1. Look(pre) = IF m THEN "already_present" ELSE IF f THEN "inject" ELSE IF l THEN "point_not_found" ELSE "read"
  BY Zenon DEF Look
<1>2. f => findInsertionPoint(pre) >= 0
  BY Zenon
<1> HIDE DEF m, f, l
<1>3. /\ Look(pre) = "inject" => f
      /\ Look(pre) = "already_present" => m
      /\ Look(pre) = "point_not_found" => ~f /\ l
      /\ Look(pre) = "read" => ~l
  BY <1>1
<1> QED BY <1>2, <1>3, Zenon DEF m, f, l

\* A page let go as it is had its marker in the look-ahead or no point within it.
LEMMA LetGo ==
  ASSUME NEW doc \in InjPages, NEW pre \in Seq(InjFragments), NEW src \in Seq(InjFragments), pre \o src = doc,
         Look(pre) \in {"already_present", "point_not_found"}, ~InjectedBefore(doc)
  PROVE  findInsertionPoint(doc) < 0 \/ findInsertionPoint(doc) + Len(injectMarker) > maxLookahead
<1>1. Len(injectMarker) = 2 /\ Len(injectMarker) \in Nat
  BY Tags
<1>2. CASE Look(pre) = "already_present"
  <2>1. IndexOf(pre, injectMarker) >= 0
    BY <1>2, LookSays, Zenon
  <2>2. IndexOf(pre \o src, injectMarker) = IndexOf(pre, injectMarker)
    BY <1>1, <2>1, IndexInPrefix, Zenon
  <2> QED BY <2>1, <2>2, Zenon DEF InjectedBefore
<1>3. CASE Look(pre) = "point_not_found"
  <2> DEFINE q == findInsertionPoint(doc)
             k == findInsertionPoint(pre)
  <2>1. ~(k >= 0 /\ Len(pre) >= k + Len(injectMarker)) /\ Len(pre) >= maxLookahead
    BY <1>3, LookSays, Zenon
  <2>2. InDocumentOrder(pre \o src)
    BY PagesAssumption, Zenon
  <2>3. k >= 0 => q = k
    BY <2>2, PointInPrefix, Zenon
  <2>4. q >= 0 /\ q + 2 <= Len(pre) => k >= 0
    BY PointWithinReach, Zenon
  <2>5. doc \in Seq(InjFragments)
    BY SnippetType, Zenon
  <2>6. q \in Int /\ k \in Int
    BY <2>5, PointRange, Zenon
  <2>7. Len(pre) \in Nat /\ maxLookahead \in Nat
    BY InjectorAssumption
  <2> HIDE DEF q, k
  <2>8. q < 0 \/ q + Len(injectMarker) > maxLookahead
    BY <1>1, <2>1, <2>3, <2>4, <2>6, <2>7, SMTT(30)
  <2> QED BY <2>8, Zenon DEF q
<1> QED BY <1>2, <1>3, Zenon

LEMMA DecisionKeeps ==
  ASSUME InjInv, ~injDone, NEW src \in Seq(InjFragments), injSrc' = src, injPre' = <<>>, injDone' = TRUE,
         UNCHANGED <<injDoc, injOut, injEnd>>, injBuf' \in Seq(InjFragments), injFail' \in BOOLEAN,
         injRes'.injected \in BOOLEAN, Settled(injDoc, (<<>> \o injBuf') \o src, injRes', injFail')
  PROVE  InjInv'
<1>1. injDoc' = injDoc /\ injOut' = <<>> /\ injEnd' = "" /\ injDoc \in InjPages /\ <<>> \in Seq(InjFragments)
  BY EmptySeq, Zenon DEF InjInv
<1>2. Len(injPre') < maxLookahead + InjChunk
  <2>1. maxLookahead \in Nat \ {0} /\ InjChunk \in Nat \ {0}
    BY InjectorAssumption, Zenon
  <2>2. Len(injPre') = 0
    OBVIOUS
  <2> QED BY <2>1, <2>2
<1>3. injEnd' # "eof"
  BY <1>1, Zenon
<1> QED BY <1>1, <1>2, <1>3, Zenon DEF InjInv

LEMMA LooksKeeps == InjInv /\ Looks => InjInv'
<1> SUFFICES ASSUME InjInv, Looks PROVE InjInv'
  OBVIOUS
<1>1. /\ ~injDone /\ injDoc \in InjPages /\ injPre \in Seq(InjFragments) /\ injSrc \in Seq(InjFragments)
      /\ injPre \o injSrc = injDoc /\ ~injFail
  BY Zenon DEF InjInv, Looks
<1>2. UNCHANGED <<injDoc, injOut, injEnd>> /\ injSrc' = injSrc /\ injFail' = injFail /\ injFail' \in BOOLEAN
  BY Zenon DEF InjInv, Looks
<1>3. CASE Look(injPre) = "inject" /\ Decided(injPre, findInsertionPoint(injPre))
  <2>1. /\ injBuf' = WithSnippet(injPre, findInsertionPoint(injPre)) /\ injPre' = <<>> /\ injDone' = TRUE
        /\ injRes' = [injected |-> TRUE, reason |-> ""]
    BY <1>3, Zenon DEF Decided
  <2>2. injRes'.injected = TRUE
    BY <2>1, Zenon
  <2>3. findInsertionPoint(injPre) >= 0
    BY <1>3, LookSays, Zenon
  <2>4. injBuf' \in Seq(InjFragments) /\ Settled(injDoc, (<<>> \o injBuf') \o injSrc, injRes', injFail')
    BY <1>1, <2>1, <2>2, <2>3, InsertedSettles, ZenonT(30)
  <2>5. injRes'.injected \in BOOLEAN
    BY <2>2, Zenon
  <2> QED BY <1>1, <1>2, <2>1, <2>4, <2>5, DecisionKeeps, ZenonT(30)
<1>4. CASE Look(injPre) \in {"already_present", "point_not_found"} /\ Declined(injPre, Look(injPre))
  <2>1. /\ injBuf' = injPre /\ injPre' = <<>> /\ injDone' = TRUE
        /\ injRes' = [injected |-> FALSE, reason |-> Look(injPre)]
    BY <1>4, Zenon DEF Declined
  <2>2. injRes'.injected = FALSE
    BY <2>1
  <2>3. ~InjectedBefore(injDoc) =>
          findInsertionPoint(injDoc) < 0 \/ findInsertionPoint(injDoc) + Len(injectMarker) > maxLookahead
    BY <1>1, <1>4, LetGo, Zenon
  <2>4. injBuf' \in Seq(InjFragments) /\ Settled(injDoc, (<<>> \o injBuf') \o injSrc, injRes', injFail')
    BY <1>1, <2>1, <2>2, <2>3, PassedSettles, ZenonT(30)
  <2>5. injRes'.injected \in BOOLEAN
    BY <2>2, Zenon
  <2> QED BY <1>1, <1>2, <2>1, <2>4, <2>5, DecisionKeeps, ZenonT(30)
<1> QED BY <1>3, <1>4, Zenon DEF Looks

LEMMA LooksAheadKeeps == InjInv /\ LooksAhead => InjInv'
<1> SUFFICES ASSUME InjInv, LooksAhead PROVE InjInv'
  OBVIOUS
<1>1. /\ ~injDone /\ injDoc \in InjPages /\ injPre \in Seq(InjFragments) /\ injSrc \in Seq(InjFragments)
      /\ injPre \o injSrc = injDoc /\ ~injFail /\ <<>> \in Seq(InjFragments)
  BY EmptySeq, Zenon DEF InjInv, LooksAhead
<1>2. maxLookahead \in Nat \ {0} /\ InjChunk \in Nat \ {0}
  BY InjectorAssumption, Zenon
<1>3. CASE ReadsFailure
  <2>1. /\ injBuf' = injPre /\ injPre' = <<>> /\ injDone' = TRUE /\ injSrc' = injSrc /\ injFail' = TRUE
        /\ injRes' = [injected |-> FALSE, reason |-> "point_not_found"] /\ UNCHANGED <<injDoc, injOut, injEnd>>
    BY <1>3, Zenon DEF ReadsFailure, Declined
  <2>2. injRes'.injected = FALSE /\ injRes'.injected \in BOOLEAN /\ injFail' \in BOOLEAN
    BY <2>1
  <2>3. injBuf' \in Seq(InjFragments) /\ Settled(injDoc, (<<>> \o injBuf') \o injSrc, injRes', injFail')
    BY <1>1, <2>1, <2>2, PassedSettles, ZenonT(30)
  <2> QED BY <1>1, <2>1, <2>2, <2>3, DecisionKeeps, ZenonT(30)
<1>4. ASSUME NEW n \in 0..InjChunk, ReadsMore(n) PROVE InjInv'
  <2>1. /\ injPre' = injPre \o SubSeq(injSrc, 1, n) /\ injSrc' = SubSeq(injSrc, n + 1, Len(injSrc))
        /\ UNCHANGED <<injDoc, injFail, injBuf, injDone, injRes, injOut, injEnd>>
    BY <1>4, Zenon DEF ReadsMore
  <2>2. n \in 1..InjChunk /\ n <= Len(injSrc)
    BY <1>1, <1>4, Zenon DEF ReadsMore, Arrives
  <2>3. n \in 0..Len(injSrc)
    BY <1>1, <1>2, <2>2, SMTT(30)
  <2>4. injPre' \in Seq(InjFragments) /\ injSrc' \in Seq(InjFragments) /\ injPre' \o injSrc' = injDoc
    <3>1. Moves(InjFragments, injPre, injSrc, n)
      BY <1>1, <2>3, Moved, Zenon
    <3> QED BY <1>1, <2>1, <3>1, ZenonT(30) DEF Moves
  <2>5. Len(injPre') < maxLookahead + InjChunk
    <3>1. ~(Len(injPre) >= maxLookahead)
      BY LookSays, Zenon DEF LooksAhead
    <3> DEFINE u == SubSeq(injSrc, 1, n)
    <3>2. u \in Seq(InjFragments) /\ Len(u) = n
      BY <1>1, <2>3, SMTT(30)
    <3> HIDE DEF u
    <3>3. Len(injPre \o u) = Len(injPre) + Len(u)
      BY <1>1, <3>2, ConcatProperties, ZenonT(30)
    <3>4. injPre' = injPre \o u
      BY <2>1, Zenon DEF u
    <3>5. Len(injPre) \in Nat
      BY <1>1
    <3>6. Len(injPre') = Len(injPre) + n
      BY <3>2, <3>3, <3>4, ZenonT(30)
    <3> QED BY <1>2, <2>2, <3>1, <3>5, <3>6, SMTT(30)
  <2> QED BY <1>1, <2>1, <2>4, <2>5, ZenonT(30) DEF InjInv
<1>5. ASSUME NEW n \in 0..InjChunk, ReadsEnd(n) PROVE InjInv'
  <2> DEFINE pre == injPre \o SubSeq(injSrc, 1, n)
  <2>1. /\ n = Len(injSrc) /\ injSrc' = <<>> /\ UNCHANGED <<injDoc, injFail, injOut, injEnd>>
        /\ IF findInsertionPoint(pre) >= 0 THEN Decided(pre, findInsertionPoint(pre))
           ELSE Declined(pre, "point_not_found")
    BY <1>5, Zenon DEF ReadsEnd
  <2>2. pre = injDoc
    <3>1. SubSeq(injSrc, 1, Len(injSrc)) = injSrc
      BY <1>1, SubSeqFull, Zenon
    <3> QED BY <1>1, <2>1, <3>1, ZenonT(30)
  <2> HIDE DEF pre
  <2>3. injDoc \in Seq(InjFragments) /\ injFail' \in BOOLEAN
    BY <2>1, SnippetType, Zenon DEF InjInv
  <2>4. injDoc \o <<>> = injDoc
    BY <2>3, ConcatEmptySeq, Zenon
  <2>5. CASE findInsertionPoint(injDoc) >= 0
    <3>1. /\ injBuf' = WithSnippet(injDoc, findInsertionPoint(injDoc)) /\ injPre' = <<>> /\ injDone' = TRUE
          /\ injRes' = [injected |-> TRUE, reason |-> ""]
      BY <2>1, <2>2, <2>5, Zenon DEF Decided
    <3>2. injRes'.injected = TRUE /\ injRes'.injected \in BOOLEAN
      BY <3>1, Zenon
    <3>3. injBuf' \in Seq(InjFragments) /\ Settled(injDoc, (<<>> \o injBuf') \o <<>>, injRes', injFail')
      BY <1>1, <2>3, <2>4, <2>5, <3>1, <3>2, InsertedSettles, ZenonT(30)
    <3> QED BY <1>1, <2>1, <2>3, <3>1, <3>2, <3>3, DecisionKeeps, ZenonT(30)
  <2>6. CASE ~(findInsertionPoint(injDoc) >= 0)
    <3>1. /\ injBuf' = injDoc /\ injPre' = <<>> /\ injDone' = TRUE
          /\ injRes' = [injected |-> FALSE, reason |-> "point_not_found"]
      BY <2>1, <2>2, <2>6, Zenon DEF Declined
    <3>2. injRes'.injected = FALSE /\ injRes'.injected \in BOOLEAN
      BY <3>1
    <3>3. findInsertionPoint(injDoc) < 0
      <4>1. findInsertionPoint(injDoc) \in Int
        BY <2>3, PointRange, Zenon
      <4> QED BY <2>6, <4>1
    <3>4. injBuf' \in Seq(InjFragments) /\ Settled(injDoc, (<<>> \o injBuf') \o <<>>, injRes', injFail')
      BY <1>1, <2>3, <2>4, <3>1, <3>2, <3>3, PassedSettles, ZenonT(30)
    <3> QED BY <1>1, <2>1, <2>3, <3>1, <3>2, <3>4, DecisionKeeps, ZenonT(30)
  <2> QED BY <2>5, <2>6, Zenon
<1> QED BY <1>3, <1>4, <1>5, Zenon DEF LooksAhead

LEMMA ServesKeeps == InjInv /\ Serves => InjInv'
<1> SUFFICES ASSUME InjInv, Serves PROVE InjInv'
  OBVIOUS
<1> DEFINE n == IF Len(injBuf) < InjRead THEN Len(injBuf) ELSE InjRead
<1>1. /\ injBuf # <<>> /\ injOut' = injOut \o SubSeq(injBuf, 1, n) /\ injBuf' = SubSeq(injBuf, n + 1, Len(injBuf))
      /\ UNCHANGED <<injDoc, injSrc, injFail, injPre, injDone, injRes, injEnd>>
  BY Zenon DEF Serves
<1>2. injDone = TRUE /\ injOut \in Seq(InjFragments) /\ injBuf \in Seq(InjFragments)
  BY <1>1, Zenon DEF InjInv
<1>3. n \in 0..Len(injBuf)
  <2>1. InjRead \in Nat
    BY InjectorAssumption, Zenon
  <2>2. Len(injBuf) \in Nat
    BY <1>2
  <2> QED BY <2>1, <2>2, SMTT(30)
<1> HIDE DEF n
<1>4. injOut' \in Seq(InjFragments) /\ injBuf' \in Seq(InjFragments) /\ injOut' \o injBuf' = injOut \o injBuf
  <2>1. Moves(InjFragments, injOut, injBuf, n)
    BY <1>2, <1>3, Moved, Zenon
  <2> QED BY <1>1, <2>1, Zenon DEF Moves
<1> QED BY <1>1, <1>2, <1>4, Zenon DEF InjInv

LEMMA PassesThroughKeeps == InjInv /\ PassesThrough => InjInv'
<1> SUFFICES ASSUME InjInv, PassesThrough PROVE InjInv'
  OBVIOUS
<1>1. /\ injDone /\ injBuf = <<>> /\ injEnd = "" /\ UNCHANGED <<injDoc, injPre, injBuf, injDone, injRes>>
      /\ injOut \in Seq(InjFragments) /\ injSrc \in Seq(InjFragments) /\ injDone = TRUE
  BY Zenon DEF InjInv, PassesThrough
<1>2. ASSUME NEW n \in 1..InjRead, Arrives(n), ~injFail, injOut' = injOut \o SubSeq(injSrc, 1, n),
             injSrc' = SubSeq(injSrc, n + 1, Len(injSrc)), UNCHANGED <<injFail, injEnd>>
      PROVE  InjInv'
  <2>1. n <= Len(injSrc)
    BY <1>2, Zenon DEF Arrives
  <2>2. n \in 0..Len(injSrc)
    <3>1. Len(injSrc) \in Nat
      BY <1>1, LenProperties, Zenon
    <3>2. InjRead \in Nat
      BY InjectorAssumption, Zenon
    <3> QED BY <2>1, <3>1, <3>2, SMTT(30)
  <2>3. injOut' \in Seq(InjFragments) /\ injSrc' \in Seq(InjFragments) /\ injOut' \o injSrc' = injOut \o injSrc
    <3>1. Moves(InjFragments, injOut, injSrc, n)
      BY <1>1, <2>2, Moved, ZenonT(30)
    <3> QED BY <1>2, <3>1, Zenon DEF Moves
  <2>4. injOut \o injBuf = injOut /\ injOut' \o injBuf' = injOut'
    BY <1>1, <2>3, ConcatEmptySeq, ZenonT(30)
  <2>5. (injOut' \o injBuf') \o injSrc' = (injOut \o injBuf) \o injSrc
    BY <2>3, <2>4, ZenonT(30)
  <2> QED BY <1>1, <1>2, <2>3, <2>5, ZenonT(30) DEF InjInv
<1>3. CASE (injFail \/ injSrc = <<>>) /\ injEnd' = (IF injFail THEN "err" ELSE "eof") /\ UNCHANGED <<injOut, injSrc, injFail>>
  <2>1. injEnd' = "eof" => ~injFail
    BY <1>3
  <2> QED BY <1>1, <1>3, <2>1, ZenonT(30) DEF InjInv
<1>4. CASE ~injFail /\ injSrc # <<>> /\ injFail' = TRUE /\ injEnd' = "err" /\ UNCHANGED <<injOut, injSrc>>
  <2>1. injEnd' # "eof"
    BY <1>4
  <2>2. Settled(injDoc, (injOut \o injBuf) \o injSrc, injRes, injFail) =>
          Settled(injDoc, (injOut \o injBuf) \o injSrc, injRes, injFail')
    BY <1>4, Zenon DEF Settled
  <2> QED BY <1>1, <1>4, <2>1, <2>2, ZenonT(30) DEF InjInv
<1> QED BY <1>2, <1>3, <1>4, ZenonT(30) DEF PassesThrough

LEMMA InjStays == InjInv /\ UNCHANGED injVars => InjInv'
<1> SUFFICES ASSUME InjInv, UNCHANGED injVars PROVE InjInv'
  OBVIOUS
<1>1. /\ injDoc' = injDoc /\ injSrc' = injSrc /\ injFail' = injFail /\ injPre' = injPre /\ injBuf' = injBuf
      /\ injDone' = injDone /\ injRes' = injRes /\ injOut' = injOut /\ injEnd' = injEnd
  BY Zenon DEF injVars
<1> QED BY <1>1, Zenon DEF InjInv

LEMMA InjImplies == InjInv => InjectionChunkingBlind
<1> SUFFICES ASSUME InjInv PROVE InjectionChunkingBlind
  OBVIOUS
<1> DEFINE whole == injOut \o injBuf \o injPre \o injSrc
           point == findInsertionPoint(injDoc)
<1>1. /\ injDoc \in Seq(InjFragments) /\ injOut \in Seq(InjFragments) /\ injBuf \in Seq(InjFragments)
      /\ injOut \o injBuf \in Seq(InjFragments) /\ <<>> \in Seq(InjFragments)
  BY SnippetType, ConcatProperties, EmptySeq, ZenonT(30) DEF InjInv
<1>2. injDone => whole = (injOut \o injBuf) \o injSrc
  BY <1>1, ConcatEmptySeq, Zenon DEF InjInv
<1>3. ~injDone => whole = injDoc
  <2>1. <<>> \o <<>> = <<>>
    BY <1>1, ConcatEmptySeq, Zenon
  <2>2. <<>> \o injPre = injPre
    BY ConcatEmptySeq, Zenon DEF InjInv
  <2> QED BY <2>1, <2>2, Zenon DEF InjInv
<1>4. injRes.injected => point >= 0 /\ whole = WithSnippet(injDoc, point)
  BY <1>2, Zenon DEF InjInv, Settled
<1>5. ~injRes.injected => whole = injDoc
  BY <1>2, <1>3, Zenon DEF InjInv, Settled
<1>6. injEnd = "eof" /\ ~injRes.injected /\ ~InjectedBefore(injDoc) =>
        point < 0 \/ point + Len(injectMarker) > maxLookahead
  BY Zenon DEF InjInv, Settled
<1>7. point >= 0 => point \in 0..Len(injDoc)
  BY <1>1, PointRange, Zenon
<1>8. Len(injPre) < maxLookahead + InjChunk
  BY Zenon DEF InjInv
<1> QED BY <1>4, <1>5, <1>6, <1>7, <1>8, ZenonT(40) DEF InjectionChunkingBlind

\* However the origin cuts a page into reads and the caller its buffers, for every
\* look-ahead limit and every page whose tags are in order: the origin's bytes come
\* out with at most one snippet, which stands where the whole page has its point.
THEOREM InjectionChunkingBlindAlways == InjectorSpec => []InjectionChunkingBlind
<1>1. InjInv /\ [InjectorNext]_injVars => InjInv'
  BY LooksKeeps, LooksAheadKeeps, ServesKeeps, PassesThroughKeeps, InjStays, ZenonT(30) DEF InjectorNext
<1> QED BY <1>1, InjInitially, InjImplies, PTL DEF InjectorSpec
==============================================================================
