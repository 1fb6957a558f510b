----------------------------- MODULE WindowProofs -----------------------------
(* Proofs about what is kept of a stream of events: the windows of the rate    *)
(* limits and the ring of the live feed, for every value of their constants.   *)
EXTENDS RateLimit, LiveFeed, SequenceTheorems, WellFoundedInduction, TLAPS

(***************************************************************************)
(* Lists                                                                   *)
(***************************************************************************)
\* A set of naturals has a least element.
LEMMA LeastOf ==
  ASSUME NEW T, T \subseteq Nat, T # {}
  PROVE  \E m \in T : \A k \in T : m <= k
<1> DEFINE R == {ss \in Nat \X Nat : ss[1] < ss[2]}
<1>1. IsWellFoundedOn(R, Nat)
  BY NatLessThanWellFounded, Zenon DEF OpToRel
<1>2. \A x, y \in Nat : ~(<<y, x>> \in R) => x <= y
  <2> TAKE x, y \in Nat
  <2>1. y < x => <<y, x>> \in R
    OBVIOUS
  <2> HIDE DEF R
  <2> QED BY <2>1
<1> HIDE DEF R
<1>3. PICK x \in T : \A y \in T : ~(<<y, x>> \in R)
  BY <1>1, WFMin, Zenon
<1> QED BY <1>2, <1>3, Zenon

\* One pass of the loop, and the loop up to an index.
Pass(s, bound, i, g) == IF i = 0 THEN <<>> ELSE IF s[i] > bound THEN Append(g[i - 1], s[i]) ELSE g[i - 1]
Loop(s, bound, n, g) == g = [i \in 0..n |-> Pass(s, bound, i, g)]

\* What the loop has kept is determined.
LEMMA LoopUnique ==
  ASSUME NEW s, NEW bound, NEW n \in Nat, NEW m \in Nat, m <= n, NEW f, NEW g, Loop(s, bound, m, f), Loop(s, bound, n, g)
  PROVE  \A i \in 0..m : f[i] = g[i]
<1> DEFINE T == {i \in 0..m : f[i] # g[i]}
<1>1. \A i \in 0..m : f[i] = Pass(s, bound, i, f) /\ g[i] = Pass(s, bound, i, g)
  <2>1. \A i \in 0..m : i \in 0..n
    OBVIOUS
  <2> QED BY <2>1, Zenon DEF Loop
<1>2. ASSUME T # {} PROVE FALSE
  <2>1. T \subseteq Nat
    OBVIOUS
  <2>2. PICK k \in T : \A j \in T : k <= j
    BY <1>2, <2>1, LeastOf, Zenon
  <2>3. k \in 0..m /\ f[k] # g[k]
    BY Zenon
  <2>4. CASE k = 0
    BY <1>1, <2>3, <2>4, Zenon DEF Pass
  <2>5. CASE k # 0
    <3>1. k - 1 \in 0..m /\ ~(k <= k - 1)
      BY <2>3, <2>5
    <3>2. f[k - 1] = g[k - 1]
      BY <2>2, <3>1, Zenon
    <3> QED BY <1>1, <2>3, <2>5, <3>2, Zenon DEF Pass
  <2> QED BY <2>4, <2>5, Zenon
<1> QED BY <1>2, Zenon

\* The loop ends.
LEMMA LoopExists ==
  ASSUME NEW s, NEW bound, NEW n \in Nat
  PROVE  \E g : Loop(s, bound, n, g)
<1> DEFINE T == {m \in Nat : ~\E g : Loop(s, bound, m, g)}
<1>1. ASSUME T # {} PROVE FALSE
  <2>1. PICK m \in T : \A j \in T : m <= j
    BY <1>1, LeastOf, Zenon
  <2>2. m \in Nat /\ ~\E g : Loop(s, bound, m, g)
    BY Zenon
  <2>3. CASE m = 0
    <3> DEFINE g == [i \in 0..0 |-> <<>>]
    <3>1. \A i \in 0..0 : i = 0
      OBVIOUS
    <3>2. \A i \in 0..0 : Pass(s, bound, i, g) = <<>>
      BY <3>1, Zenon DEF Pass
    <3>3. g = [i \in 0..0 |-> g[i]] /\ \A i \in 0..0 : g[i] = Pass(s, bound, i, g)
      BY <3>2, Zenon
    <3> HIDE DEF g
    <3>4. Loop(s, bound, 0, g)
      BY <3>3 DEF Loop
    <3> QED BY <2>2, <2>3, <3>4, Zenon
  <2>4. CASE m # 0
    <3>1. m - 1 \in Nat /\ ~(m <= m - 1)
      BY <2>2, <2>4
    <3>2. PICK g : Loop(s, bound, m - 1, g)
      BY <2>1, <3>1, Zenon
    <3> DEFINE h == [i \in 0..m |-> IF i = m THEN Pass(s, bound, m, g) ELSE g[i]]
    <3>3. \A i \in 0..m : (i # m => i \in 0..(m - 1)) /\ (i # 0 => i - 1 \in 0..m /\ i - 1 # m)
      BY <2>2
    <3>4. \A i \in 0..m : i # 0 => h[i - 1] = g[i - 1]
      BY <3>3, Zenon
    <3>5. \A i \in 0..m : h[i] = Pass(s, bound, i, g)
      BY <3>2, <3>3, Zenon DEF Loop
    <3>6. h = [i \in 0..m |-> h[i]]
      BY Zenon
    <3> HIDE DEF h
    <3>7. \A i \in 0..m : Pass(s, bound, i, h) = Pass(s, bound, i, g)
      BY <3>4, Zenon DEF Pass
    <3>8. Loop(s, bound, m, h)
      BY <3>5, <3>6, <3>7 DEF Loop
    <3> QED BY <2>2, <3>8, Zenon
  <2> QED BY <2>3, <2>4, Zenon
<1> QED BY <1>1, Zenon

LEMMA AboveLoop ==
  ASSUME NEW s, NEW bound, Len(s) \in Nat, NEW g, Loop(s, bound, Len(s), g)
  PROVE  Above(s, bound) = g[Len(s)]
<1> DEFINE f == CHOOSE f : Loop(s, bound, Len(s), f)
<1>1. Loop(s, bound, Len(s), f)
  BY Zenon
<1>2. Above(s, bound) = f[Len(s)]
  BY Zenon DEF Above, Loop, Pass
<1>3. Len(s) \in 0..Len(s) /\ Len(s) <= Len(s)
  OBVIOUS
<1> HIDE DEF f
<1>4. \A i \in 0..Len(s) : f[i] = g[i]
  BY <1>1, <1>3, LoopUnique
<1> QED BY <1>2, <1>3, <1>4, Zenon

\* The loop over nothing, and over one entry more.
LEMMA AboveEmpty == ASSUME NEW bound PROVE Above(<<>>, bound) = <<>>
<1>1. PICK g : Loop(<<>>, bound, 0, g)
  BY LoopExists
<1>2. Len(<<>>) = 0
  OBVIOUS
<1>3. Above(<<>>, bound) = g[0]
  BY <1>1, <1>2, AboveLoop
<1>4. 0 \in 0..0
  OBVIOUS
<1> QED BY <1>1, <1>3, <1>4, Zenon DEF Loop, Pass

LEMMA AboveAppend ==
  ASSUME NEW S, NEW s \in Seq(S), NEW x \in S, NEW bound
  PROVE  Above(Append(s, x), bound) = IF x > bound THEN Append(Above(s, bound), x) ELSE Above(s, bound)
<1> DEFINE n == Len(s)
           t == Append(s, x)
<1>1. n \in Nat /\ n + 1 \in Nat /\ Len(t) = n + 1 /\ t[n + 1] = x /\ \A i \in 0..n : i # 0 => t[i] = s[i]
  OBVIOUS
<1>2. /\ n + 1 \in 0..(n + 1) /\ n + 1 # 0 /\ (n + 1) - 1 = n /\ n \in 0..n /\ n <= n /\ n <= n + 1
      /\ \A i \in 0..n : i \in 0..(n + 1)
  BY <1>1
<1> HIDE DEF n, t
<1>3. PICK g : Loop(t, bound, n + 1, g)
  BY <1>1, LoopExists, Zenon
<1>4. Above(t, bound) = g[n + 1]
  BY <1>1, <1>3, AboveLoop
<1>5. g[n + 1] = IF x > bound THEN Append(g[n], x) ELSE g[n]
  <2>1. g[n + 1] = Pass(t, bound, n + 1, g)
    BY <1>2, <1>3, Zenon DEF Loop
  <2> QED BY <1>1, <1>2, <2>1 DEF Pass
<1> DEFINE f == [i \in 0..n |-> g[i]]
<1>6. Loop(s, bound, n, f)
  <2>1. \A i \in 0..n : f[i] = Pass(t, bound, i, g)
    BY <1>2, <1>3, Zenon DEF Loop
  <2>2. \A i \in 0..n : i # 0 => i - 1 \in 0..n
    BY <1>1
  <2>3. \A i \in 0..n : i # 0 => f[i - 1] = g[i - 1]
    BY <2>2, Zenon
  <2>4. f = [i \in 0..n |-> f[i]]
    BY Zenon
  <2> HIDE DEF f
  <2>5. \A i \in 0..n : Pass(s, bound, i, f) = Pass(t, bound, i, g)
    BY <1>1, <2>3, Zenon DEF Pass
  <2> QED BY <2>1, <2>4, <2>5 DEF Loop
<1>7. Above(s, bound) = f[n]
  BY <1>1, <1>6, AboveLoop DEF n
<1>8. f[n] = g[n]
  BY <1>2, Zenon
<1> QED BY <1>4, <1>5, <1>7, <1>8, Zenon DEF t


\* Induction over sequences, from the front.
LEMMA SequencesGrow ==
  ASSUME NEW S, NEW P, <<>> \in P, \A s \in Seq(S), x \in S : s \in P => Append(s, x) \in P
  PROVE  Seq(S) \subseteq P
<1> DEFINE T == {n \in Nat : \E s \in Seq(S) : Len(s) = n /\ s \notin P}
<1>1. ASSUME T # {} PROVE FALSE
  <2>1. PICK n \in T : \A k \in T : n <= k
    BY <1>1, LeastOf, Zenon
  <2>2. PICK s \in Seq(S) : Len(s) = n /\ s \notin P
    BY Zenon
  <2>3. CASE n = 0
    <3>1. s = <<>>
      BY <2>2, <2>3
    <3> QED BY <2>2, <3>1, Zenon
  <2>4. CASE n # 0
    <3> DEFINE t == SubSeq(s, 1, n - 1)
    <3>1. n \in Nat /\ n - 1 \in Nat /\ ~(n <= n - 1) /\ n \in 1..Len(s)
      BY <2>2, <2>4
    <3>2. t \in Seq(S) /\ Len(t) = n - 1 /\ s[n] \in S
      BY <2>2, <3>1
    <3>3. s = Append(t, s[n])
      BY <2>2, <3>1
    <3> HIDE DEF t
    <3>4. t \in P
      BY <2>1, <3>1, <3>2, Zenon
    <3> QED BY <2>2, <3>2, <3>3, <3>4, Zenon
  <2> QED BY <2>3, <2>4, Zenon
<1>2. ASSUME NEW s \in Seq(S) PROVE s \in P
  <2>1. Len(s) \in Nat
    OBVIOUS
  <2> QED BY <1>1, <2>1, Zenon
<1> QED BY <1>2, Zenon

\* A list by its entries and their order.
Has(s, x) == \E i \in 1..Len(s) : s[i] = x
Sorted(s) == \A i, j \in 1..Len(s) : i < j => s[i] < s[j]

\* A list one longer.
LEMMA Appended ==
  ASSUME NEW s \in Seq(Nat), NEW x \in Nat
  PROVE  /\ Append(s, x) \in Seq(Nat) /\ Len(s) \in Nat /\ Len(Append(s, x)) = Len(s) + 1
         /\ Append(s, x)[Len(s) + 1] = x
         /\ \A i \in 1..Len(s) : Append(s, x)[i] = s[i]
  OBVIOUS

LEMMA HasAppend ==
  ASSUME NEW s \in Seq(Nat), NEW x \in Nat, NEW y
  PROVE  Has(Append(s, x), y) <=> Has(s, y) \/ y = x
<1> DEFINE t == Append(s, x)
<1>1. /\ Len(s) \in Nat /\ Len(t) = Len(s) + 1 /\ t[Len(s) + 1] = x
      /\ \A i \in 1..Len(s) : t[i] = s[i]
  BY Appended
<1>2. Len(s) + 1 \in 1..Len(t) /\ \A i \in 1..Len(s) : i \in 1..Len(t)
  BY <1>1
<1>3. \A i \in 1..Len(t) : i \in 1..Len(s) \/ i = Len(s) + 1
  BY <1>1
<1> HIDE DEF t
<1>4. Has(t, y) <=> Has(s, y) \/ y = x
  BY <1>1, <1>2, <1>3, Zenon DEF Has
<1> QED BY <1>4, Zenon DEF t

LEMMA SortedAppend ==
  ASSUME NEW s \in Seq(Nat), NEW x \in Nat
  PROVE  Sorted(Append(s, x)) <=> Sorted(s) /\ \A y : Has(s, y) => y < x
<1> DEFINE t == Append(s, x)
<1>1. /\ Len(s) \in Nat /\ Len(t) = Len(s) + 1 /\ t[Len(s) + 1] = x
      /\ \A i \in 1..Len(s) : t[i] = s[i]
  BY Appended
<1>2. /\ Len(s) + 1 \in 1..Len(t) /\ ~(Len(s) + 1 < Len(s) + 1)
      /\ \A i \in 1..Len(s) : i \in 1..Len(t) /\ i < Len(s) + 1 /\ ~(Len(s) + 1 < i)
  BY <1>1
<1>3. \A i \in 1..Len(t) : i \in 1..Len(s) \/ i = Len(s) + 1
  BY <1>1
<1> HIDE DEF t
<1>4. Sorted(t) <=> Sorted(s) /\ \A i \in 1..Len(s) : s[i] < x
  BY <1>1, <1>2, <1>3, Zenon DEF Sorted
<1> QED BY <1>4, Zenon DEF t, Has

\* The part of a list above a bound, told by its entries.
PartAbove(s, bound, out) ==
  /\ out \in Seq(Nat)
  /\ \A x : Has(out, x) <=> Has(s, x) /\ x > bound
  /\ Sorted(s) => Sorted(out)

LEMMA AboveIsPart ==
  ASSUME NEW s \in Seq(Nat), NEW bound PROVE PartAbove(s, bound, Above(s, bound))
<1> DEFINE P == {u \in Seq(Nat) : PartAbove(u, bound, Above(u, bound))}
<1>1. <<>> \in P
  <2>1. PartAbove(<<>>, bound, <<>>)
    BY DEF PartAbove, Sorted, Has
  <2>2. <<>> \in Seq(Nat)
    OBVIOUS
  <2> QED BY <2>1, <2>2, AboveEmpty
<1>2. ASSUME NEW u \in Seq(Nat), NEW x \in Nat, u \in P PROVE Append(u, x) \in P
  <2> DEFINE out == Above(u, bound)
             t == Append(u, x)
             new == Append(out, x)
  <2>1. t \in Seq(Nat) /\ out \in Seq(Nat) /\ new \in Seq(Nat)
    BY <1>2 DEF PartAbove
  <2>2. Above(t, bound) = IF x > bound THEN new ELSE out
    BY AboveAppend, ZenonT(30)
  <2>3. /\ \A y : Has(t, y) <=> Has(u, y) \/ y = x
        /\ \A y : Has(new, y) <=> Has(out, y) \/ y = x
    BY <2>1, HasAppend, Zenon
  <2>4. /\ Sorted(t) => Sorted(u) /\ \A y : Has(u, y) => y < x
        /\ (\A y : Has(out, y) => y < x) /\ Sorted(out) => Sorted(new)
    BY <2>1, SortedAppend, Zenon
  <2> HIDE DEF out, t, new
  <2>5. PartAbove(u, bound, out)
    BY <1>2, Zenon DEF out
  <2>6. PartAbove(t, bound, IF x > bound THEN new ELSE out)
    BY <2>1, <2>3, <2>4, <2>5, Zenon DEF PartAbove
  <2> QED BY <2>1, <2>2, <2>6, Zenon DEF t
<1> HIDE DEF P
<1>3. Seq(Nat) \subseteq P
  BY <1>1, <1>2, SequencesGrow, Zenon
<1> QED BY <1>3, Zenon DEF P

\* Two lists, one after the other, by their places.
InPlace(s, t, u) ==
  /\ \A i \in 1..Len(s) : i \in 1..Len(u) /\ u[i] = s[i]
  /\ \A i \in 1..Len(t) : Len(s) + i \in 1..Len(u) /\ u[Len(s) + i] = t[i]
  /\ \A i \in 1..Len(u) : i \in 1..Len(s) \/ \E j \in 1..Len(t) : i = Len(s) + j

LEMMA Concatenated ==
  ASSUME NEW s \in Seq(Nat), NEW t \in Seq(Nat)
  PROVE  InPlace(s, t, s \o t)
<1> DEFINE u == s \o t
<1>1. /\ Len(s) \in Nat /\ Len(t) \in Nat /\ Len(u) = Len(s) + Len(t)
      /\ \A i \in 1..Len(s) : u[i] = s[i]
      /\ \A i \in 1..Len(t) : u[Len(s) + i] = t[i]
  BY SMTT(30)
<1>2. /\ \A i \in 1..Len(s) : i \in 1..Len(u)
      /\ \A i \in 1..Len(t) : Len(s) + i \in 1..Len(u)
  BY <1>1
<1>3. \A i \in 1..Len(u) : i \in 1..Len(s) \/ (i - Len(s) \in 1..Len(t) /\ i = Len(s) + (i - Len(s)))
  BY <1>1
<1> HIDE DEF u
<1>4. InPlace(s, t, u)
  BY <1>1, <1>2, <1>3, Zenon DEF InPlace
<1> QED BY <1>4, Zenon DEF u

LEMMA HasConcat ==
  ASSUME NEW s \in Seq(Nat), NEW t \in Seq(Nat), NEW x
  PROVE  Has(s \o t, x) <=> Has(s, x) \/ Has(t, x)
<1> DEFINE u == s \o t
<1>1. InPlace(s, t, u)
  BY Concatenated, Zenon
<1> HIDE DEF u
<1>2. ASSUME NEW i \in 1..Len(u), u[i] = x PROVE Has(s, x) \/ Has(t, x)
  BY <1>1, <1>2, Zenon DEF Has, InPlace
<1>3. Has(s, x) => Has(u, x)
  BY <1>1, Zenon DEF Has, InPlace
<1>4. Has(t, x) => Has(u, x)
  BY <1>1, Zenon DEF Has, InPlace
<1>5. Has(u, x) <=> Has(s, x) \/ Has(t, x)
  BY <1>2, <1>3, <1>4, Zenon DEF Has
<1> QED BY <1>5, Zenon DEF u

LEMMA SortedConcat ==
  ASSUME NEW s \in Seq(Nat), NEW t \in Seq(Nat)
  PROVE  Sorted(s \o t) <=> Sorted(s) /\ Sorted(t) /\ \A x, y : Has(s, x) /\ Has(t, y) => x < y
<1> DEFINE u == s \o t
<1>1. InPlace(s, t, u)
  BY Concatenated, Zenon
<1> HIDE DEF u
<1>2. /\ \A i \in 1..Len(s), j \in 1..Len(t) : i < Len(s) + j /\ ~(Len(s) + j < i)
      /\ \A i, j \in 1..Len(t) : Len(s) + i < Len(s) + j <=> i < j
  OBVIOUS
<1>3. ASSUME Sorted(u) PROVE Sorted(s) /\ Sorted(t) /\ \A i \in 1..Len(s), j \in 1..Len(t) : s[i] < t[j]
  <2>1. Sorted(s)
    BY <1>1, <1>3, Zenon DEF Sorted, InPlace
  <2>2. ASSUME NEW i \in 1..Len(t), NEW j \in 1..Len(t), i < j PROVE t[i] < t[j]
    <3>1. u[Len(s) + i] < u[Len(s) + j]
      BY <1>1, <1>2, <1>3, <2>2, Zenon DEF Sorted, InPlace
    <3> QED BY <1>1, <3>1 DEF InPlace
  <2>3. ASSUME NEW i \in 1..Len(s), NEW j \in 1..Len(t) PROVE s[i] < t[j]
    <3>1. u[i] < u[Len(s) + j]
      BY <1>1, <1>2, <1>3, Zenon DEF Sorted, InPlace
    <3> QED BY <1>1, <3>1 DEF InPlace
  <2> QED BY <2>1, <2>2, <2>3, Zenon DEF Sorted
<1>4. ASSUME Sorted(s), Sorted(t), \A i \in 1..Len(s), j \in 1..Len(t) : s[i] < t[j] PROVE Sorted(u)
  <2> SUFFICES ASSUME NEW i \in 1..Len(u), NEW j \in 1..Len(u), i < j PROVE u[i] < u[j]
    BY Zenon DEF Sorted
  <2>1. CASE i \in 1..Len(s) /\ j \in 1..Len(s)
    BY <1>1, <1>4, <2>1, Zenon DEF Sorted, InPlace
  <2>2. ASSUME i \in 1..Len(s), NEW k \in 1..Len(t), j = Len(s) + k PROVE u[i] < u[j]
    <3>1. s[i] < t[k] /\ u[i] = s[i] /\ u[j] = t[k]
      BY <1>1, <1>4, <2>2, Zenon DEF InPlace
    <3> QED BY <3>1
  <2>3. ASSUME NEW k \in 1..Len(t), i = Len(s) + k, NEW m \in 1..Len(t), j = Len(s) + m PROVE u[i] < u[j]
    <3>1. k < m /\ u[i] = t[k] /\ u[j] = t[m]
      BY <1>1, <1>2, <2>3, Zenon DEF InPlace
    <3>2. t[k] < t[m]
      BY <1>4, <3>1, Zenon DEF Sorted
    <3> QED BY <3>1, <3>2
  <2>4. ASSUME NEW k \in 1..Len(t), i = Len(s) + k, j \in 1..Len(s) PROVE FALSE
    BY <1>2, <2>4, Zenon
  <2> QED BY <1>1, <2>1, <2>2, <2>3, <2>4, Zenon DEF InPlace
<1>5. (\A i \in 1..Len(s), j \in 1..Len(t) : s[i] < t[j]) <=> \A x, y : Has(s, x) /\ Has(t, y) => x < y
  BY Zenon DEF Has
<1>6. Sorted(u) <=> Sorted(s) /\ Sorted(t) /\ \A x, y : Has(s, x) /\ Has(t, y) => x < y
  BY <1>3, <1>4, <1>5, Zenon
<1> QED BY <1>6, Zenon DEF u

\* An entry moves from the front of what is waiting to the end of what was received.
LEMMA MoveHead ==
  ASSUME NEW s \in Seq(Nat), NEW t \in Seq(Nat), t # <<>>
  PROVE  /\ Append(s, Head(t)) \in Seq(Nat) /\ Tail(t) \in Seq(Nat)
         /\ Append(s, Head(t)) \o Tail(t) = s \o t
<1>1. Head(t) \in Nat /\ Tail(t) \in Seq(Nat) /\ Len(t) \in Nat \ {0} /\ Len(s) \in Nat
  OBVIOUS
<1>2. Append(s, Head(t)) \o Tail(t) \in Seq(Nat) /\ s \o t \in Seq(Nat)
  BY <1>1
<1>3. Len(Append(s, Head(t)) \o Tail(t)) = Len(s \o t) /\ Len(s \o t) = Len(s) + Len(t)
  BY <1>1
<1>4. \A i \in 1..(Len(s) + Len(t)) : (Append(s, Head(t)) \o Tail(t))[i] = (s \o t)[i]
  BY <1>1, SMTT(30)
<1> QED BY <1>1, <1>2, <1>3, <1>4, SMTT(30)

LEMMA LastLargest ==
  ASSUME NEW s \in Seq(Nat), s # <<>>, Sorted(s)
  PROVE  s[Len(s)] \in Nat /\ Has(s, s[Len(s)]) /\ \A x : Has(s, x) => x <= s[Len(s)]
<1>1. Len(s) \in 1..Len(s) /\ s[Len(s)] \in Nat
  OBVIOUS
<1>2. \A i \in 1..Len(s) : s[i] \in Nat /\ (i = Len(s) \/ i < Len(s))
  OBVIOUS
<1>3. \A i \in 1..Len(s) : s[i] <= s[Len(s)]
  BY <1>1, <1>2 DEF Sorted
<1> QED BY <1>1, <1>3, Zenon DEF Has

LEMMA TailKeeps ==
  ASSUME NEW s \in Seq(Nat), s # <<>>, Sorted(s)
  PROVE  Tail(s) \in Seq(Nat) /\ Sorted(Tail(s)) /\ \A x : Has(Tail(s), x) => Has(s, x)
<1>1. /\ Len(s) \in Nat \ {0} /\ Tail(s) \in Seq(Nat) /\ Len(Tail(s)) = Len(s) - 1
      /\ \A i \in 1..(Len(s) - 1) : Tail(s)[i] = s[i + 1]
  OBVIOUS
<1>2. /\ \A i \in 1..(Len(s) - 1) : i + 1 \in 1..Len(s)
      /\ \A i, j \in 1..(Len(s) - 1) : i < j => i + 1 < j + 1
  BY <1>1
<1> QED BY <1>1, <1>2, Zenon DEF Sorted, Has

-----------------------------------------------------------------------------
(***************************************************************************)
(* The live feed: every event reaches a client or is accounted for.        *)
(***************************************************************************)
LfSubs == [state : {"on", "off"}, backlog : Seq(Nat), ch : Seq(Nat), lagged : Nat]

LfTypeOK ==
  /\ lfNext \in Nat /\ lfRing \in Seq(Nat)
  /\ lfSubs \in [LfClients -> LfSubs]
  /\ lfGot \in [LfClients -> Seq(Nat)]
  /\ lfMissed = [c \in LfClients |-> lfMissed[c]]

\* The ring is in order, and nothing in it is newer than the last event.
RingInv == Sorted(lfRing) /\ \A x : Has(lfRing, x) => x <= lfNext

\* What a client has received and what waits for it.
FeedOf(got, sub) == got \o sub.backlog \o sub.ch

\* A feed up to an event: in order, no newer than the last event, and complete but
\* for what was missed.
Complete(feed, missed, upto) ==
  /\ feed \in Seq(Nat) /\ Sorted(feed)
  /\ \A x : Has(feed, x) => x <= lfNext
  /\ \A e \in 1..upto : e \in missed \/ Has(feed, e)

ClientInv ==
  \A c \in LfClients :
    /\ ~On(c) => lfSubs[c] = Gone
    /\ Complete(FeedOf(lfGot[c], lfSubs[c]), lfMissed[c], IF On(c) THEN lfNext ELSE LastEventID(c))

LfInv == LfTypeOK /\ RingInv /\ ClientInv

LEMMA LfInitially == LiveFeedInit => LfInv
<1> SUFFICES ASSUME LiveFeedInit PROVE LfInv
  BY Zenon
<1>1. <<>> \in Seq(Nat) /\ Len(<<>>) = 0 /\ <<>> \o <<>> = <<>> /\ 0 \in Nat
  OBVIOUS
<1>2. LfTypeOK
  BY <1>1, Zenon DEF LiveFeedInit, LfTypeOK, LfSubs, Gone
<1>3. Sorted(<<>>) /\ \A x : ~Has(<<>>, x)
  BY DEF Sorted, Has
<1>4. RingInv
  BY <1>3, Zenon DEF LiveFeedInit, RingInv
<1>5. ASSUME NEW c \in LfClients
      PROVE  ~On(c) /\ lfSubs[c] = Gone /\ LastEventID(c) = 0 /\ FeedOf(lfGot[c], lfSubs[c]) = <<>>
  BY <1>1, Zenon DEF LiveFeedInit, On, Gone, LastEventID, FeedOf
<1>6. \A e \in 1..0 : FALSE
  OBVIOUS
<1>7. ClientInv
  BY <1>1, <1>3, <1>5, <1>6, Zenon DEF ClientInv, Complete
<1> QED BY <1>2, <1>4, <1>7, Zenon DEF LfInv

LEMMA FeedTypes ==
  ASSUME LfTypeOK, NEW c \in LfClients
  PROVE  /\ lfGot[c] \in Seq(Nat) /\ lfSubs[c].backlog \in Seq(Nat) /\ lfSubs[c].ch \in Seq(Nat)
         /\ lfSubs[c] \in LfSubs
         /\ lfGot[c] \o lfSubs[c].backlog \in Seq(Nat) /\ FeedOf(lfGot[c], lfSubs[c]) \in Seq(Nat)
<1>1. /\ lfSubs[c] \in LfSubs
      /\ lfGot[c] \in Seq(Nat)
  BY Zenon DEF LfTypeOK
<1> QED BY <1>1 DEF FeedOf, LfSubs

LEMMA HasNat ==
  ASSUME NEW s \in Seq(Nat), NEW x, Has(s, x) PROVE x \in Nat
BY DEF Has

LEMMA Joined ==
  ASSUME NEW s \in Seq(Nat)
  PROVE  /\ s \o <<>> = s /\ <<>> \o s = s
         /\ \A t \in Seq(Nat) : s \o t \in Seq(Nat) /\ (s # <<>> => Head(s \o t) = Head(s))
<1>1. s \o <<>> = s /\ <<>> \o s = s
  OBVIOUS
<1>2. \A t \in Seq(Nat) : s \o t \in Seq(Nat) /\ (s # <<>> => Head(s \o t) = Head(s))
  OBVIOUS
<1> QED BY <1>1, <1>2, Zenon

LEMMA Regrouped ==
  ASSUME NEW s \in Seq(Nat), NEW t \in Seq(Nat), NEW u \in Seq(Nat) PROVE (s \o t) \o u = s \o (t \o u)
<1> DEFINE l == (s \o t) \o u
           r == s \o (t \o u)
<1>1. l \in Seq(Nat) /\ r \in Seq(Nat) /\ Len(l) = Len(r)
  OBVIOUS
<1>2. ASSUME NEW i \in 1..Len(l) PROVE l[i] = r[i]
  OBVIOUS
<1> HIDE DEF l, r
<1>3. l = r
  BY <1>1, <1>2, SeqEqual, SMTT(30)
<1> QED BY <1>3 DEF l, r

LEMMA AppendLater ==
  ASSUME NEW s \in Seq(Nat), NEW t \in Seq(Nat), NEW x \in Nat PROVE s \o Append(t, x) = Append(s \o t, x)
BY SMTT(30)

\* What the handlers change of a subscription.
LEMMA SubFields ==
  ASSUME NEW s \in LfSubs
  PROVE  /\ s = [state |-> s.state, backlog |-> s.backlog, ch |-> s.ch, lagged |-> s.lagged]
         /\ s.state \in {"on", "off"} /\ s.backlog \in Seq(Nat) /\ s.ch \in Seq(Nat) /\ s.lagged \in Nat /\ s.lagged + 1 \in Nat
BY DEF LfSubs

LEMMA SubLags ==
  ASSUME NEW s \in LfSubs, NEW r, r = [s EXCEPT !.lagged = @ + 1]
  PROVE  r \in LfSubs /\ r.state = s.state /\ r.backlog = s.backlog /\ r.ch = s.ch
BY SubFields, ZenonT(30) DEF LfSubs

LEMMA SubChannel ==
  ASSUME NEW s \in LfSubs, NEW q \in Seq(Nat), NEW r, r = [s EXCEPT !.ch = q]
  PROVE  r \in LfSubs /\ r.state = s.state /\ r.backlog = s.backlog /\ r.ch = q
BY SubFields, ZenonT(30) DEF LfSubs

LEMMA SubBacklog ==
  ASSUME NEW s \in LfSubs, NEW q \in Seq(Nat), NEW r, r = [s EXCEPT !.backlog = q]
  PROVE  r \in LfSubs /\ r.state = s.state /\ r.backlog = q /\ r.ch = s.ch
BY SubFields, ZenonT(30) DEF LfSubs

LEMMA LfPublish ==
  ASSUME LfInv, Publish PROVE LfInv'
<1> DEFINE e == lfNext + 1
           ring == Append(lfRing, e)
           full == {c \in LfClients : On(c) /\ Len(lfSubs[c].ch) >= SubBuf}
<1>1. /\ e \in Nat /\ lfNext' = e
      /\ \A x \in Nat : x <= lfNext => x < e /\ x <= e
      /\ e <= e
  BY DEF LfInv, LfTypeOK, Publish
<1>2. \A x \in 1..e : x \in 1..lfNext \/ x = e
  BY DEF LfInv, LfTypeOK
<1>3. /\ lfGot' = lfGot /\ lfMissed' = [c \in LfClients |-> lfMissed'[c]]
      /\ \A c \in LfClients : lfMissed'[c] = IF c \in full THEN lfMissed[c] \cup {e} ELSE lfMissed[c]
      /\ lfRing' = IF Len(ring) > RingCap THEN Tail(ring) ELSE ring
  BY Zenon DEF Publish
<1>4. lfSubs' = [c \in LfClients |-> IF ~On(c) THEN lfSubs[c]
                                   ELSE IF c \in full THEN [lfSubs[c] EXCEPT !.lagged = @ + 1]
                                   ELSE [lfSubs[c] EXCEPT !.ch = Append(@, e)]]
  BY Zenon DEF Publish
<1>5. /\ lfRing \in Seq(Nat) /\ Sorted(lfRing) /\ \A x : Has(lfRing, x) => x <= lfNext
  BY Zenon DEF LfInv, LfTypeOK, RingInv
<1> HIDE DEF e, full
<1>6. lfRing' \in Seq(Nat) /\ RingInv'
  <2>1. \A x : Has(lfRing, x) => x < e /\ x <= e
    BY <1>1, <1>5, HasNat, Zenon
  <2>2. ring \in Seq(Nat) /\ ring # <<>>
    BY <1>1, <1>5, SMTT(50)
  <2>3. Sorted(ring) /\ \A x : Has(ring, x) => x <= e
    BY <1>1, <1>5, <2>1, HasAppend, SortedAppend, Zenon
  <2> HIDE DEF ring
  <2>4. Tail(ring) \in Seq(Nat) /\ Sorted(Tail(ring)) /\ \A x : Has(Tail(ring), x) => x <= e
    BY <2>2, <2>3, TailKeeps, Zenon
  <2> QED BY <1>1, <1>3, <2>2, <2>3, <2>4, Zenon DEF RingInv
<1>7. ASSUME NEW c \in LfClients
      PROVE  /\ lfSubs'[c] \in LfSubs
             /\ ~On(c)' => lfSubs'[c] = Gone
             /\ Complete(FeedOf(lfGot[c], lfSubs[c]), lfMissed[c], IF On(c) THEN lfNext ELSE LastEventID(c))'
  <2> DEFINE feed == FeedOf(lfGot[c], lfSubs[c])
  <2>1. /\ lfGot[c] \in Seq(Nat) /\ lfSubs[c].backlog \in Seq(Nat) /\ lfSubs[c].ch \in Seq(Nat)
        /\ lfSubs[c] \in LfSubs
        /\ lfGot[c] \o lfSubs[c].backlog \in Seq(Nat) /\ feed \in Seq(Nat)
    BY FeedTypes, Zenon DEF LfInv
  <2>2. /\ ~On(c) => lfSubs[c] = Gone
        /\ Complete(feed, lfMissed[c], IF On(c) THEN lfNext ELSE LastEventID(c))
    BY Zenon DEF LfInv, ClientInv
  <2>3. Sorted(feed) /\ \A x : Has(feed, x) => x < e /\ x <= e
    BY <1>1, <2>1, <2>2, HasNat, Zenon DEF Complete
  <2>4. CASE ~On(c)
    <3>1. lfSubs'[c] = lfSubs[c] /\ lfMissed'[c] = lfMissed[c] /\ ~On(c)' /\ LastEventID(c)' = LastEventID(c)
      BY <1>3, <1>4, <2>4, Zenon DEF On, full, LastEventID
    <3>2. FeedOf(lfGot'[c], lfSubs'[c]) = feed
      BY <1>3, <3>1, Zenon
    <3> HIDE DEF feed
    <3> QED BY <1>1, <2>1, <2>2, <2>3, <2>4, <3>1, <3>2, Zenon DEF Complete
  <2>5. CASE On(c) /\ c \in full
    <3>1. lfSubs'[c] = [lfSubs[c] EXCEPT !.lagged = @ + 1] /\ lfMissed'[c] = lfMissed[c] \cup {e}
      BY <1>3, <1>4, <2>5, Zenon
    <3>2. /\ lfSubs'[c].backlog = lfSubs[c].backlog /\ lfSubs'[c].ch = lfSubs[c].ch /\ lfSubs'[c].state = lfSubs[c].state
          /\ lfSubs'[c] \in LfSubs
      BY <2>1, <3>1, SubLags, Zenon
    <3>3. FeedOf(lfGot'[c], lfSubs'[c]) = feed /\ On(c)'
      BY <1>3, <2>5, <3>2, Zenon DEF FeedOf, On
    <3> HIDE DEF feed
    <3>4. \A x \in 1..e : x \in lfMissed'[c] \/ Has(feed, x)
      BY <1>2, <2>2, <2>5, <3>1, Zenon DEF Complete
    <3> QED BY <1>1, <2>1, <2>3, <3>2, <3>3, <3>4, Zenon DEF Complete
  <2>6. CASE On(c) /\ c \notin full
    <3>1. lfSubs'[c] = [lfSubs[c] EXCEPT !.ch = Append(@, e)] /\ lfMissed'[c] = lfMissed[c]
      BY <1>3, <1>4, <2>6, Zenon
    <3>2. /\ lfSubs'[c].backlog = lfSubs[c].backlog /\ lfSubs'[c].ch = Append(lfSubs[c].ch, e)
          /\ lfSubs'[c].state = lfSubs[c].state
          /\ lfSubs'[c] \in LfSubs
      <4> DEFINE q == Append(lfSubs[c].ch, e)
      <4>1. q \in Seq(Nat)
        BY <1>1, <2>1
      <4>2. lfSubs'[c] = [lfSubs[c] EXCEPT !.ch = q]
        BY <3>1, Zenon
      <4> HIDE DEF q
      <4>3. /\ lfSubs'[c].backlog = lfSubs[c].backlog /\ lfSubs'[c].ch = q
            /\ lfSubs'[c].state = lfSubs[c].state /\ lfSubs'[c] \in LfSubs
        BY <2>1, <4>1, <4>2, SubChannel
      <4> QED BY <4>3, Zenon DEF q
    <3>3. FeedOf(lfGot'[c], lfSubs'[c]) = Append(feed, e) /\ On(c)'
      <4>1. (lfGot[c] \o lfSubs[c].backlog) \o Append(lfSubs[c].ch, e) = Append(feed, e)
        BY <1>1, <2>1, AppendLater, Zenon DEF FeedOf
      <4> QED BY <1>3, <2>6, <3>2, <4>1, Zenon DEF FeedOf, On
    <3> HIDE DEF feed
    <3>4. Append(feed, e) \in Seq(Nat) /\ Sorted(Append(feed, e)) /\ \A x : Has(Append(feed, e), x) <=> Has(feed, x) \/ x = e
      BY <1>1, <2>1, <2>3, Appended, HasAppend, SortedAppend, Zenon
    <3>5. \A x \in 1..e : x \in lfMissed'[c] \/ Has(Append(feed, e), x)
      BY <1>2, <2>2, <2>6, <3>1, <3>4, Zenon DEF Complete
    <3> QED BY <1>1, <2>3, <3>2, <3>3, <3>4, <3>5, Zenon DEF Complete
  <2> QED BY <2>4, <2>5, <2>6, Zenon
<1>8. LfTypeOK'
  <2>1. lfSubs' \in [LfClients -> LfSubs]
    BY <1>4, <1>7, Zenon
  <2> QED BY <1>1, <1>3, <1>6, <2>1, Zenon DEF LfTypeOK, LfInv
<1> QED BY <1>6, <1>7, <1>8, Zenon DEF LfInv, ClientInv

\* A handler of one client leaves the ring and the other clients alone.
LEMMA LfOneClient ==
  ASSUME LfInv, NEW c \in LfClients, UNCHANGED <<lfNext, lfRing>>,
         NEW sub \in LfSubs, lfSubs' = [lfSubs EXCEPT ![c] = sub],
         NEW got \in Seq(Nat), lfGot' = [lfGot EXCEPT ![c] = got],
         NEW missed, lfMissed' = [lfMissed EXCEPT ![c] = missed],
         sub.state = "off" => sub = Gone,
         Complete(FeedOf(got, sub), missed,
                  IF sub.state = "on" THEN lfNext ELSE IF got = <<>> THEN 0 ELSE got[Len(got)])
  PROVE  LfInv'
<1>1. LfTypeOK' /\ RingInv'
  BY Zenon DEF LfInv, LfTypeOK, RingInv
<1>2. /\ lfSubs'[c] = sub /\ lfGot'[c] = got /\ lfMissed'[c] = missed /\ lfNext' = lfNext
      /\ \A d \in LfClients : d # c => lfSubs'[d] = lfSubs[d] /\ lfGot'[d] = lfGot[d] /\ lfMissed'[d] = lfMissed[d]
  BY Zenon DEF LfInv, LfTypeOK
<1>3. ASSUME NEW d \in LfClients
      PROVE  /\ ~On(d)' => lfSubs'[d] = Gone
             /\ Complete(FeedOf(lfGot[d], lfSubs[d]), lfMissed[d], IF On(d) THEN lfNext ELSE LastEventID(d))'
  <2>1. CASE d = c
    <3>1. sub.state \in {"on", "off"}
      BY SubFields, Zenon
    <3>2. "on" # "off"
      OBVIOUS
    <3> QED BY <1>2, <2>1, <3>1, <3>2, Zenon DEF On, LastEventID, Complete
  <2>2. CASE d # c
    <3>1. (On(d)' <=> On(d)) /\ LastEventID(d)' = LastEventID(d)
      <4>1. lfSubs'[d] = lfSubs[d] /\ lfGot'[d] = lfGot[d]
        BY <1>2, <2>2, Zenon
      <4> QED BY <4>1 DEF On, LastEventID
    <3> QED BY <1>2, <2>2, <3>1, Zenon DEF Complete, LfInv, ClientInv
  <2> QED BY <2>1, <2>2, Zenon
<1> QED BY <1>1, <1>3, Zenon DEF LfInv, ClientInv

\* The feed of a client that is away is what it received.
LEMMA AwayFeed ==
  ASSUME LfInv, NEW c \in LfClients, ~On(c)
  PROVE  Complete(lfGot[c], lfMissed[c], LastEventID(c))
<1>1. lfGot[c] \in Seq(Nat) /\ lfGot[c] \o <<>> = lfGot[c]
  BY FeedTypes DEF LfInv
<1>2. lfSubs[c] = Gone /\ Complete(FeedOf(lfGot[c], lfSubs[c]), lfMissed[c], LastEventID(c))
  BY Zenon DEF LfInv, ClientInv
<1>3. FeedOf(lfGot[c], Gone) = lfGot[c]
  BY <1>1, Zenon DEF FeedOf, Gone
<1> QED BY <1>2, <1>3, Zenon

LEMMA LfSubscribe ==
  ASSUME LfInv, NEW c \in LfClients, Subscribe(c) PROVE LfInv'
<1> DEFINE got == lfGot[c]
           last == LastEventID(c)
           new == Newer(last)
           sub == [state |-> "on", backlog |-> new, ch |-> <<>>, lagged |-> 0]
           missed == lfMissed[c] \cup {e \in (last + 1)..lfNext : \A i \in DOMAIN lfRing : lfRing[i] # e}
<1>1. Complete(got, lfMissed[c], last)
  BY AwayFeed, Zenon DEF Subscribe
<1>2. got \in Seq(Nat) /\ lfRing \in Seq(Nat) /\ lfNext \in Nat /\ Sorted(got)
  BY <1>1, Zenon DEF Complete, LfInv, LfTypeOK
<1>3. last \in Nat /\ \A x : Has(got, x) => x <= last
  <2>1. CASE got = <<>>
    <3>1. last = 0 /\ 0 \in Nat /\ \A x : ~Has(<<>>, x)
      BY <2>1 DEF LastEventID, Has
    <3> QED BY <2>1, <3>1, Zenon
  <2>2. CASE got # <<>>
    <3>1. last = got[Len(got)]
      BY <2>2, Zenon DEF LastEventID
    <3> HIDE DEF got, last
    <3> QED BY <1>2, <2>2, <3>1, LastLargest, Zenon
  <2> QED BY <2>1, <2>2, Zenon
<1>4. PartAbove(lfRing, last, new)
  BY <1>2, AboveIsPart, Zenon DEF Newer
<1>5. new \in Seq(Nat) /\ Sorted(new) /\ \A x : Has(new, x) <=> Has(lfRing, x) /\ x > last
  BY <1>4, Zenon DEF PartAbove, LfInv, RingInv
<1>6. \A x : Has(new, x) => x <= lfNext
  BY <1>5, Zenon DEF LfInv, RingInv
<1>7. sub \in LfSubs /\ sub.state = "on" /\ sub.backlog = new /\ sub.ch = <<>> /\ "on" # "off"
  <2> HIDE DEF new
  <2> QED BY <1>5 DEF LfSubs
<1>8. /\ lfSubs' = [lfSubs EXCEPT ![c] = sub] /\ UNCHANGED <<lfNext, lfRing>>
      /\ lfMissed' = [lfMissed EXCEPT ![c] = missed]
      /\ lfGot' = [lfGot EXCEPT ![c] = got]
  BY Zenon DEF Subscribe, LfInv, LfTypeOK
<1>9. \A e \in (last + 1)..lfNext : e \in missed \/ Has(lfRing, e)
  <2>1. DOMAIN lfRing = 1..Len(lfRing)
    BY <1>2
  <2> QED BY <2>1, Zenon DEF Has
<1> DEFINE feed == got \o new
<1> HIDE DEF got, last, new, sub, missed
<1>10. feed \in Seq(Nat) /\ FeedOf(got, sub) = feed
  <2>1. feed \in Seq(Nat) /\ feed \o <<>> = feed
    BY <1>2, <1>5
  <2> QED BY <1>7, <2>1, Zenon DEF FeedOf
<1>11. \A x : Has(feed, x) <=> Has(got, x) \/ Has(new, x)
  BY <1>2, <1>5, HasConcat, Zenon
<1>12. Sorted(feed)
  <2>1. \A x, y : Has(got, x) /\ Has(new, y) => x \in Nat /\ y \in Nat /\ x <= last /\ y > last
    BY <1>2, <1>3, <1>5, HasNat, Zenon
  <2>2. \A x, y : Has(got, x) /\ Has(new, y) => x < y
    BY <1>3, <2>1
  <2> QED BY <1>2, <1>5, <2>2, SortedConcat, Zenon
<1>13. \A e \in 1..lfNext : e \in missed \/ Has(feed, e)
  <2> TAKE e \in 1..lfNext
  <2>1. e \in 1..last \/ (e \in (last + 1)..lfNext /\ e > last)
    BY <1>2, <1>3
  <2>2. CASE e \in 1..last
    BY <1>1, <1>11, <2>2, Zenon DEF Complete, missed
  <2>3. CASE e \in (last + 1)..lfNext /\ e > last
    BY <1>5, <1>9, <1>11, <2>3, Zenon
  <2> QED BY <2>1, <2>2, <2>3, Zenon
<1>14. \A x : Has(feed, x) => x <= lfNext
  BY <1>1, <1>6, <1>11, Zenon DEF Complete
<1> HIDE DEF feed
<1>15. Complete(feed, missed, lfNext)
  BY <1>10, <1>12, <1>13, <1>14, Zenon DEF Complete
<1> QED BY <1>2, <1>7, <1>8, <1>10, <1>15, LfOneClient, Zenon

LEMMA LfWriteSSE ==
  ASSUME LfInv, NEW c \in LfClients, WriteSSE(c) PROVE LfInv'
<1> DEFINE s == lfSubs[c]
           got == lfGot[c]
           feed == FeedOf(got, s)
<1>1. /\ got \in Seq(Nat) /\ s.backlog \in Seq(Nat) /\ s.ch \in Seq(Nat) /\ s \in LfSubs /\ s.state = "on"
      /\ Complete(feed, lfMissed[c], lfNext)
  BY FeedTypes, Zenon DEF LfInv, ClientInv, WriteSSE, On
<1>2. /\ UNCHANGED <<lfNext, lfRing>> /\ lfMissed' = [lfMissed EXCEPT ![c] = lfMissed[c]]
      /\ s.backlog \o s.ch # <<>> /\ lfGot' = [lfGot EXCEPT ![c] = Append(got, Head(s.backlog \o s.ch))]
      /\ lfSubs' = [lfSubs EXCEPT ![c] = IF s.backlog # <<>> THEN [s EXCEPT !.backlog = Tail(@)] ELSE [s EXCEPT !.ch = Tail(@)]]
  BY Zenon DEF LfInv, LfTypeOK, WriteSSE
<1> HIDE DEF s, got
<1>3. CASE s.backlog # <<>>
  <2> DEFINE q == Tail(s.backlog)
             sub == [s EXCEPT !.backlog = q]
             g == Append(got, Head(s.backlog))
  <2>1. Head(s.backlog \o s.ch) = Head(s.backlog)
    BY <1>1, <1>3, Joined, Zenon
  <2>2. q \in Seq(Nat) /\ g \in Seq(Nat) /\ g \o q = got \o s.backlog
    BY <1>1, <1>3, MoveHead, Zenon
  <2>3. lfGot' = [lfGot EXCEPT ![c] = g] /\ lfSubs' = [lfSubs EXCEPT ![c] = sub]
    BY <1>2, <1>3, <2>1, Zenon
  <2> HIDE DEF q, g
  <2>4. sub \in LfSubs /\ sub.state = s.state /\ sub.backlog = q /\ sub.ch = s.ch
    BY <1>1, <2>2, SubBacklog
  <2> HIDE DEF sub
  <2>5. FeedOf(g, sub) = feed
    BY <2>2, <2>4, Zenon DEF FeedOf
  <2>6. sub.state = "on" /\ "on" # "off"
    BY <1>1, <2>4
  <2> HIDE DEF feed
  <2> QED BY <1>1, <1>2, <2>2, <2>3, <2>4, <2>5, <2>6, LfOneClient, Zenon
<1>4. CASE s.backlog = <<>>
  <2> DEFINE q == Tail(s.ch)
             sub == [s EXCEPT !.ch = q]
             g == Append(got, Head(s.ch))
  <2>1. s.backlog \o s.ch = s.ch /\ s.ch # <<>> /\ got \o <<>> = got
    BY <1>1, <1>2, <1>4
  <2>2. q \in Seq(Nat) /\ g \in Seq(Nat) /\ g \o q = got \o s.ch /\ g \o <<>> = g
    <3>1. q \in Seq(Nat) /\ g \in Seq(Nat) /\ g \o q = got \o s.ch
      BY <1>1, <2>1, MoveHead, Zenon
    <3> HIDE DEF q, g
    <3> QED BY <3>1, Joined, Zenon
  <2>3. lfGot' = [lfGot EXCEPT ![c] = g] /\ lfSubs' = [lfSubs EXCEPT ![c] = sub]
    BY <1>2, <1>4, <2>1, Zenon
  <2> HIDE DEF q, g
  <2>4. sub \in LfSubs /\ sub.state = s.state /\ sub.backlog = s.backlog /\ sub.ch = q
    BY <1>1, <2>2, SubChannel
  <2> HIDE DEF sub
  <2>5. FeedOf(g, sub) = feed
    BY <1>4, <2>1, <2>2, <2>4, Zenon DEF FeedOf
  <2>6. sub.state = "on" /\ "on" # "off"
    BY <1>1, <2>4
  <2> HIDE DEF feed
  <2> QED BY <1>1, <1>2, <2>2, <2>3, <2>4, <2>5, <2>6, LfOneClient, Zenon
<1> QED BY <1>3, <1>4, Zenon

LEMMA LfCancel ==
  ASSUME LfInv, NEW c \in LfClients, Cancel(c) PROVE LfInv'
<1> DEFINE s == lfSubs[c]
           got == lfGot[c]
           rest == s.backlog \o s.ch
           upto == IF got = <<>> THEN 0 ELSE got[Len(got)]
<1>1. /\ got \in Seq(Nat) /\ s.backlog \in Seq(Nat) /\ s.ch \in Seq(Nat) /\ lfNext \in Nat
      /\ Complete(FeedOf(got, s), lfMissed[c], lfNext)
  BY FeedTypes, Zenon DEF LfInv, LfTypeOK, ClientInv, Cancel, On
<1>2. /\ UNCHANGED <<lfNext, lfRing>> /\ lfMissed' = [lfMissed EXCEPT ![c] = lfMissed[c]]
      /\ lfGot' = [lfGot EXCEPT ![c] = got] /\ lfSubs' = [lfSubs EXCEPT ![c] = Gone]
  BY Zenon DEF LfInv, LfTypeOK, Cancel
<1> HIDE DEF s, got
<1>3. FeedOf(got, s) = got \o rest /\ rest \in Seq(Nat)
  <2>1. rest \in Seq(Nat)
    BY <1>1, Joined, Zenon
  <2>2. (got \o s.backlog) \o s.ch = got \o rest
    BY <1>1, Regrouped, Zenon
  <2> QED BY <2>1, <2>2, Zenon DEF FeedOf
<1> HIDE DEF rest
<1>4. /\ Sorted(got \o rest) /\ \A x : Has(got \o rest, x) => x <= lfNext
      /\ \A e \in 1..lfNext : e \in lfMissed[c] \/ Has(got \o rest, e)
  BY <1>1, <1>3, Zenon DEF Complete
<1>5. \A x : Has(got \o rest, x) <=> Has(got, x) \/ Has(rest, x)
  BY <1>1, <1>3, HasConcat, Zenon
<1>6. Sorted(got) /\ \A x, y : Has(got, x) /\ Has(rest, y) => x < y
  BY <1>1, <1>3, <1>4, SortedConcat, Zenon
<1>7. ASSUME NEW e \in 1..upto PROVE e \in lfMissed[c] \/ Has(got, e)
  <2>1. CASE got = <<>>
    BY <2>1
  <2>2. CASE got # <<>>
    <3>1. upto = got[Len(got)] /\ upto \in Nat /\ Has(got, upto)
      BY <1>1, <1>6, <2>2, LastLargest, Zenon
    <3>2. upto <= lfNext
      BY <1>4, <1>5, <3>1, Zenon
    <3> HIDE DEF upto
    <3>3. e \in 1..lfNext /\ ~(upto < e)
      BY <1>1, <1>7, <3>1, <3>2
    <3>4. ~Has(rest, e)
      BY <1>6, <3>1, <3>3, Zenon
    <3> QED BY <1>4, <1>5, <3>3, <3>4, Zenon
  <2> QED BY <2>1, <2>2, Zenon
<1>8. Complete(got, lfMissed[c], upto)
  <2> HIDE DEF upto
  <2> QED BY <1>1, <1>4, <1>5, <1>6, <1>7, Zenon DEF Complete
<1>9. FeedOf(got, Gone) = got
  <2>1. got \o <<>> = got
    BY <1>1
  <2> QED BY <2>1, Zenon DEF FeedOf, Gone
<1>10. Gone \in LfSubs /\ Gone.state = "off" /\ "on" # "off"
  BY DEF Gone, LfSubs
<1> QED BY <1>1, <1>2, <1>8, <1>9, <1>10, LfOneClient, Zenon

LEMMA LfStep == LfInv /\ [LiveFeedNext]_lfVars => LfInv'
<1>1. LfInv /\ UNCHANGED lfVars => LfInv'
  BY Zenon DEF lfVars, LfInv, LfTypeOK, RingInv, ClientInv, Complete, On, LastEventID
<1> QED BY <1>1, LfPublish, LfSubscribe, LfWriteSSE, LfCancel, Zenon DEF LiveFeedNext

\* Over all its connections a client receives every event at most once, in order,
\* and each up to the last either reached it, was dropped on its full channel or had
\* left the ring: for every size of ring and channel and any number of clients.
THEOREM FeedAccountedAlways == LiveFeedSpec => []FeedAccounted
<1>1. LfInv => FeedAccounted
  <2> SUFFICES ASSUME LfInv, NEW c \in LfClients
               PROVE  LET feed == lfGot[c] \o lfSubs[c].backlog \o lfSubs[c].ch
                          upto == IF On(c) THEN lfNext ELSE LastEventID(c)
                      IN  /\ \A i, j \in DOMAIN feed : i < j => feed[i] < feed[j]
                          /\ \A e \in 1..upto : e \in lfMissed[c] \/ \E i \in DOMAIN feed : feed[i] = e
    BY Zenon DEF FeedAccounted
  <2> DEFINE feed == lfGot[c] \o lfSubs[c].backlog \o lfSubs[c].ch
  <2>1. Complete(feed, lfMissed[c], IF On(c) THEN lfNext ELSE LastEventID(c))
    BY Zenon DEF LfInv, ClientInv, FeedOf
  <2> HIDE DEF feed
  <2>2. DOMAIN feed = 1..Len(feed)
    BY <2>1 DEF Complete
  <2> QED BY <2>1, <2>2, Zenon DEF feed, Complete, Sorted, Has
<1> QED BY <1>1, LfInitially, LfStep, PTL DEF LiveFeedSpec

-----------------------------------------------------------------------------
(***************************************************************************)
(* The rate limits: a count is that of its window, whoever trimmed it.     *)
(***************************************************************************)
\* How many entries lie above a bound.
CountAbove(s, b) == Len(Above(s, b))

LEMMA CountType ==
  ASSUME NEW s \in Seq(Nat), NEW b \in Int
  PROVE  Above(s, b) \in Seq(Nat) /\ CountAbove(s, b) \in Nat
<1>1. Above(s, b) \in Seq(Nat)
  BY AboveIsPart, Zenon DEF PartAbove
<1> QED BY <1>1 DEF CountAbove

LEMMA CountAppend ==
  ASSUME NEW s \in Seq(Nat), NEW x \in Nat, NEW b \in Int
  PROVE  CountAbove(Append(s, x), b) = IF x > b THEN CountAbove(s, b) + 1 ELSE CountAbove(s, b)
<1>1. Above(Append(s, x), b) = IF x > b THEN Append(Above(s, b), x) ELSE Above(s, b)
  BY AboveAppend
<1>2. Len(Append(Above(s, b), x)) = Len(Above(s, b)) + 1
  BY CountType
<1> QED BY <1>1, <1>2, Zenon DEF CountAbove

LEMMA CountEmpty == ASSUME NEW b PROVE CountAbove(<<>>, b) = 0
BY AboveEmpty DEF CountAbove

\* No more than there are, and fewer above a higher bound.
LEMMA CountBounded ==
  ASSUME NEW a \in Int, NEW b \in Int, a <= b, NEW s \in Seq(Nat)
  PROVE  CountAbove(s, b) <= CountAbove(s, a) /\ CountAbove(s, b) <= Len(s)
<1> DEFINE P == {u \in Seq(Nat) : CountAbove(u, b) <= CountAbove(u, a) /\ CountAbove(u, b) <= Len(u)}
<1>1. <<>> \in P
  <2>1. <<>> \in Seq(Nat) /\ Len(<<>>) = 0 /\ 0 <= 0
    OBVIOUS
  <2> QED BY <2>1, CountEmpty, Zenon
<1>2. ASSUME NEW u \in Seq(Nat), NEW x \in Nat, u \in P PROVE Append(u, x) \in P
  <2>1. CountAbove(u, a) \in Nat /\ CountAbove(u, b) \in Nat /\ Len(u) \in Nat
    BY CountType, Appended, Zenon
  <2>2. /\ CountAbove(Append(u, x), a) = IF x > a THEN CountAbove(u, a) + 1 ELSE CountAbove(u, a)
        /\ CountAbove(Append(u, x), b) = IF x > b THEN CountAbove(u, b) + 1 ELSE CountAbove(u, b)
    BY CountAppend, Zenon
  <2>3. Append(u, x) \in Seq(Nat) /\ Len(Append(u, x)) = Len(u) + 1
    BY Appended, Zenon
  <2>4. CountAbove(u, b) <= CountAbove(u, a) /\ CountAbove(u, b) <= Len(u)
    BY <1>2, Zenon
  <2>5. x > b => x > a
    OBVIOUS
  <2>6. CountAbove(Append(u, x), b) <= CountAbove(Append(u, x), a)
    BY <2>1, <2>2, <2>4, <2>5
  <2>7. CountAbove(Append(u, x), b) <= Len(Append(u, x))
    BY <2>1, <2>2, <2>3, <2>4, SMTT(30)
  <2> QED BY <2>3, <2>6, <2>7, Zenon
<1> HIDE DEF P
<1>3. Seq(Nat) \subseteq P
  BY <1>1, <1>2, SequencesGrow, Zenon
<1> QED BY <1>3, Zenon DEF P

\* A list that was trimmed counts as before above any bound the trim respected.
LEMMA CountTrimmed ==
  ASSUME NEW a \in Int, NEW b \in Int, NEW s \in Seq(Nat)
  PROVE  /\ a > b => CountAbove(Above(s, a), b) = CountAbove(s, a)
         /\ ~(a > b) => CountAbove(Above(s, a), b) = CountAbove(s, b)
<1> DEFINE m == IF a > b THEN a ELSE b
<1>0. m \in Int /\ \A x \in Nat : x > m <=> x > a /\ x > b
  OBVIOUS
<1> HIDE DEF m
<1> DEFINE P == {u \in Seq(Nat) : CountAbove(Above(u, a), b) = CountAbove(u, m)}
<1>1. <<>> \in P
  <2>1. <<>> \in Seq(Nat)
    OBVIOUS
  <2> QED BY <2>1, AboveEmpty, CountEmpty, Zenon
<1>2. ASSUME NEW u \in Seq(Nat), NEW x \in Nat, u \in P PROVE Append(u, x) \in P
  <2>1. Append(u, x) \in Seq(Nat) /\ Above(u, a) \in Seq(Nat)
    BY Appended, CountType, Zenon
  <2>2. Above(Append(u, x), a) = IF x > a THEN Append(Above(u, a), x) ELSE Above(u, a)
    BY AboveAppend, ZenonT(30)
  <2>3. CountAbove(Append(Above(u, a), x), b) = IF x > b THEN CountAbove(Above(u, a), b) + 1 ELSE CountAbove(Above(u, a), b)
    BY <2>1, CountAppend, Zenon
  <2>4. CountAbove(Append(u, x), m) = IF x > m THEN CountAbove(u, m) + 1 ELSE CountAbove(u, m)
    BY <1>0, CountAppend, Zenon
  <2>5. x > m <=> x > a /\ x > b
    BY <1>0, Zenon
  <2> QED BY <1>2, <2>1, <2>2, <2>3, <2>4, <2>5, Zenon
<1> HIDE DEF P
<1>3. Seq(Nat) \subseteq P
  BY <1>1, <1>2, SequencesGrow, Zenon
<1>4. CountAbove(Above(s, a), b) = CountAbove(s, m)
  BY <1>3, Zenon DEF P
<1> QED BY <1>4, Zenon DEF m

LEMMA CountNone ==
  ASSUME NEW s \in Seq(Nat), NEW b \in Int, \A x : Has(s, x) => x <= b
  PROVE  CountAbove(s, b) = 0
<1>1. Above(s, b) \in Seq(Nat) /\ \A x : Has(Above(s, b), x) <=> Has(s, x) /\ x > b
  BY AboveIsPart, Zenon DEF PartAbove
<1>2. \A x \in Nat : ~(x <= b /\ x > b)
  OBVIOUS
<1>3. \A x : ~Has(Above(s, b), x)
  BY <1>1, <1>2, HasNat, Zenon
<1>4. \A i \in 1..Len(Above(s, b)) : FALSE
  BY <1>3, Zenon DEF Has
<1>5. Len(Above(s, b)) \in Nat
  BY <1>1
<1> QED BY <1>4, <1>5 DEF CountAbove

Narrowest == Min({cfg.window : cfg \in RateConfigs})

LEMMA NarrowestIs ==
  ASSUME RateConfigs # {}
  PROVE  Narrowest \in Nat /\ \A cfg \in RateConfigs : cfg.window \in Nat \ {0} /\ Narrowest <= cfg.window
<1> DEFINE W == {cfg.window : cfg \in RateConfigs}
<1>1. \A cfg \in RateConfigs : cfg.window \in Nat \ {0}
  BY RateAssumption
<1>2. W \subseteq Nat /\ W # {}
  BY <1>1, Zenon
<1>3. \E x \in W : \A y \in W : x <= y
  BY <1>2, LeastOf, Zenon
<1>4. Narrowest \in W /\ \A y \in W : Narrowest <= y
  BY <1>3, Zenon DEF Narrowest, Min
<1> QED BY <1>1, <1>2, <1>4, Zenon

\* A bounded list has a largest entry.
LEMMA LargestIs ==
  ASSUME NEW s \in Seq(Nat), NEW n \in Nat, \A x : Has(s, x) => x <= n, NEW z, Has(s, z)
  PROVE  LET m == Max({s[i] : i \in DOMAIN s}) IN m \in Nat /\ Has(s, m) /\ \A x : Has(s, x) => x <= m
<1> DEFINE S == {s[i] : i \in DOMAIN s}
           T == {k \in Nat : Has(s, n - k)}
<1>1. DOMAIN s = 1..Len(s)
  OBVIOUS
<1>2. \A x : x \in S <=> Has(s, x)
  BY <1>1, Zenon DEF Has
<1>3. \A x : Has(s, x) => x \in Nat /\ n - x \in Nat /\ n - (n - x) = x
  <2> SUFFICES ASSUME NEW x, Has(s, x) PROVE x \in Nat /\ n - x \in Nat /\ n - (n - x) = x
    BY Zenon
  <2>1. x \in Nat /\ x <= n
    BY HasNat, Zenon
  <2> QED BY <2>1
<1>4. n - z \in T
  BY <1>3, Zenon
<1>5. PICK k \in T : \A j \in T : k <= j
  <2>1. T \subseteq Nat /\ T # {}
    BY <1>4, Zenon
  <2> QED BY <2>1, LeastOf, Zenon
<1>6. k \in Nat /\ Has(s, n - k)
  BY Zenon
<1>7. ASSUME NEW x, Has(s, x) PROVE x <= n - k
  <2>1. x \in Nat /\ n - x \in Nat /\ Has(s, n - (n - x))
    BY <1>3, <1>7, Zenon
  <2>2. k <= n - x
    BY <1>5, <2>1, Zenon
  <2> QED BY <1>6, <2>1, <2>2
<1> HIDE DEF S, T
<1>8. \A x, y : Has(s, x) /\ Has(s, y) => (x >= y <=> y <= x)
  BY <1>3
<1>9. \E x \in S : \A y \in S : x >= y
  BY <1>2, <1>6, <1>7, <1>8, Zenon
<1>10. Max(S) \in S /\ \A y \in S : Max(S) >= y
  BY <1>9, Zenon DEF Max
<1>11. Max(S) \in Nat /\ Has(s, Max(S)) /\ \A x : Has(s, x) => x <= Max(S)
  BY <1>2, <1>3, <1>8, <1>10, Zenon
<1> QED BY <1>11, Zenon DEF S

LEMMA KeptLong ==
  ASSUME NEW w \in Nat, w > 0
  PROVE  TTLFactor * w \in Nat /\ TTLFactor * w >= w + 1
<1> DEFINE k == TTLFactor - 2
<1>1. k \in Nat /\ TTLFactor = k + 2
  BY RateAssumption
<1> HIDE DEF k
<1>2. (k + 2) * w = k * w + 2 * w /\ k * w \in Nat
  BY <1>1
<1> QED BY <1>1, <1>2

\* A counter beside every hit it was given: it never holds more above a bound, and
\* not less above a bound that a narrowest window up to its latest hit respects.
CounterOK(hits, seen, now) ==
  /\ hits \in Seq(Nat) /\ seen \in Seq(Nat)
  /\ \A x : Has(seen, x) => x <= now
  /\ \A b \in Int : CountAbove(hits, b) <= CountAbove(seen, b)
  /\ \A b \in Int : now - 1 - Narrowest <= b /\ (\A x : Has(seen, x) => x <= b + Narrowest) =>
                      CountAbove(seen, b) <= CountAbove(hits, b)

LEMMA CounterTicks ==
  ASSUME NEW hits, NEW seen, NEW now \in Nat, Narrowest \in Nat, CounterOK(hits, seen, now)
  PROVE  CounterOK(hits, seen, now + 1)
<1>1. \A x : Has(seen, x) => x <= now + 1
  <2>1. \A x \in Nat : x <= now => x <= now + 1
    OBVIOUS
  <2> QED BY <2>1, HasNat, Zenon DEF CounterOK
<1>2. \A b \in Int : (now + 1) - 1 - Narrowest <= b => now - 1 - Narrowest <= b
  OBVIOUS
<1> QED BY <1>1, <1>2, Zenon DEF CounterOK

LEMMA CounterClears ==
  ASSUME NEW hits, NEW seen, NEW now \in Nat, Narrowest \in Nat, CounterOK(hits, seen, now),
         \A x : Has(seen, x) => x <= now - 1 - Narrowest
  PROVE  CounterOK(<<>>, seen, now)
<1>1. seen \in Seq(Nat) /\ \A x : Has(seen, x) => x <= now
  BY Zenon DEF CounterOK
<1>2. ASSUME NEW b \in Int PROVE CountAbove(seen, b) \in Nat /\ CountAbove(<<>>, b) = 0 /\ CountAbove(<<>>, b) <= CountAbove(seen, b)
  <2>1. CountAbove(seen, b) \in Nat /\ CountAbove(<<>>, b) = 0
    BY <1>1, CountType, CountEmpty, Zenon
  <2> QED BY <2>1
<1>3. ASSUME NEW b \in Int, now - 1 - Narrowest <= b PROVE CountAbove(seen, b) <= CountAbove(<<>>, b)
  <2>1. \A x \in Nat : x <= now - 1 - Narrowest => x <= b
    BY <1>3
  <2>2. CountAbove(seen, b) = 0
    BY <1>1, <2>1, CountNone, HasNat, Zenon
  <2>3. 0 <= 0
    OBVIOUS
  <2> QED BY <1>2, <2>2, <2>3, Zenon
<1>4. <<>> \in Seq(Nat)
  OBVIOUS
<1> QED BY <1>1, <1>2, <1>3, <1>4, Zenon DEF CounterOK

\* Observe, of a request whose clock is up to a tick late.
LEMMA CounterObserves ==
  ASSUME NEW hits, NEW seen, NEW now \in Nat, CounterOK(hits, seen, now),
         NEW at \in Nat, at <= now, now <= at + 1, NEW w \in Nat, w > 0, Narrowest \in Nat, Narrowest <= w
  PROVE  /\ CounterOK(Counted(hits, at, w), Append(seen, at), now)
         /\ Len(Counted(hits, at, w)) \in Nat
         /\ Len(Counted(hits, at, w)) <= Within(Append(seen, at), at, w)
<1> DEFINE trim == Above(hits, at - w)
           new == Append(trim, at)
           all == Append(seen, at)
<1>1. /\ hits \in Seq(Nat) /\ seen \in Seq(Nat) /\ at - w \in Int /\ at > at - w
      /\ \A x : Has(seen, x) => x <= now
  BY DEF CounterOK
<1>2. trim \in Seq(Nat) /\ CountAbove(hits, at - w) \in Nat /\ CountAbove(hits, at - w) = Len(trim)
  BY <1>1, CountType, Zenon DEF CountAbove
<1>3. Len(new) = Len(trim) + 1 /\ new \in Seq(Nat) /\ all \in Seq(Nat)
  BY <1>1, <1>2, Appended, Zenon
<1>4. \A x : Has(all, x) <=> Has(seen, x) \/ x = at
  BY <1>1, HasAppend, Zenon
<1>5. ASSUME NEW b \in Int
      PROVE  /\ CountAbove(hits, b) \in Nat /\ CountAbove(seen, b) \in Nat /\ CountAbove(trim, b) \in Nat
             /\ CountAbove(hits, b) <= CountAbove(seen, b)
             /\ CountAbove(new, b) = IF at > b THEN CountAbove(trim, b) + 1 ELSE CountAbove(trim, b)
             /\ CountAbove(all, b) = IF at > b THEN CountAbove(seen, b) + 1 ELSE CountAbove(seen, b)
  <2>1. CountAbove(hits, b) \in Nat /\ CountAbove(seen, b) \in Nat /\ CountAbove(trim, b) \in Nat
    BY <1>1, <1>2, CountType, Zenon
  <2>2. CountAbove(hits, b) <= CountAbove(seen, b)
    BY Zenon DEF CounterOK
  <2>3. /\ CountAbove(new, b) = IF at > b THEN CountAbove(trim, b) + 1 ELSE CountAbove(trim, b)
        /\ CountAbove(all, b) = IF at > b THEN CountAbove(seen, b) + 1 ELSE CountAbove(seen, b)
    BY <1>1, <1>2, CountAppend, Zenon
  <2> QED BY <2>1, <2>2, <2>3, Zenon
<1>6. ASSUME NEW b \in Int
      PROVE  /\ at - w > b => CountAbove(trim, b) = CountAbove(hits, at - w)
             /\ ~(at - w > b) => CountAbove(trim, b) = CountAbove(hits, b)
  BY <1>1, CountTrimmed, Zenon
<1> HIDE DEF trim, new, all
<1>7. ASSUME NEW b \in Int PROVE CountAbove(new, b) <= CountAbove(all, b)
  <2>1. CASE at - w > b
    <3>1. CountAbove(trim, b) = CountAbove(hits, at - w)
      BY <1>6, <2>1, Zenon
    <3>2. CountAbove(hits, at - w) <= CountAbove(seen, at - w)
      BY <1>1, <1>5, Zenon
    <3>3. CountAbove(seen, at - w) <= CountAbove(seen, b)
      <4>1. b <= at - w
        BY <2>1
      <4> QED BY <1>1, <4>1, CountBounded, Zenon
    <3>4. CountAbove(seen, at - w) \in Nat
      BY <1>1, <1>5, Zenon
    <3>5. CountAbove(trim, b) <= CountAbove(seen, b) /\ CountAbove(trim, b) \in Nat /\ CountAbove(seen, b) \in Nat
      <4>1. CountAbove(seen, b) \in Nat
        BY <1>5, Zenon
      <4> QED BY <1>2, <3>1, <3>2, <3>3, <3>4, <4>1, SMTT(30)
    <3> QED BY <1>5, <3>5
  <2>2. CASE ~(at - w > b)
    <3>1. CountAbove(trim, b) = CountAbove(hits, b)
      BY <1>6, <2>2, Zenon
    <3> QED BY <1>5, <3>1
  <2> QED BY <2>1, <2>2, Zenon
<1>8. ASSUME NEW b \in Int, now - 1 - Narrowest <= b, \A x : Has(all, x) => x <= b + Narrowest
      PROVE  CountAbove(all, b) <= CountAbove(new, b)
  <2>1. at <= b + Narrowest
    BY <1>4, <1>8, Zenon
  <2>2. ~(at - w > b)
    BY <2>1
  <2>3. CountAbove(trim, b) = CountAbove(hits, b)
    BY <1>6, <2>2, Zenon
  <2>4. CountAbove(seen, b) <= CountAbove(hits, b)
    BY <1>4, <1>8, Zenon DEF CounterOK
  <2> QED BY <1>5, <2>3, <2>4
<1>9. CounterOK(new, all, now)
  <2>1. \A x : Has(all, x) => x <= now
    BY <1>1, <1>4, Zenon
  <2> QED BY <1>3, <1>7, <1>8, <2>1, Zenon DEF CounterOK
<1>10. Len(new) \in Nat /\ Len(new) <= CountAbove(all, at - w)
  <2>1. CountAbove(all, at - w) = CountAbove(seen, at - w) + 1
    BY <1>1, <1>5, Zenon
  <2>2. CountAbove(hits, at - w) <= CountAbove(seen, at - w) /\ CountAbove(seen, at - w) \in Nat
    BY <1>1, <1>5, Zenon
  <2> QED BY <1>2, <1>3, <2>1, <2>2
<1> QED BY <1>9, <1>10, Zenon DEF Counted, Within, CountAbove, trim, new, all

RateTypeOK ==
  /\ RateConfigs # {} /\ rateNow \in Nat \ {0} /\ rateExpires \in Nat
  /\ rateCfg \in [RateNodes -> RateConfigs]
  /\ rateHits = [c \in Counters |-> rateHits[c]] /\ rateSeen = [c \in Counters |-> rateSeen[c]]

CountersInv == \A c \in Counters : CounterOK(rateHits[c], rateSeen[c], rateNow)

\* The last hit of a node's counter is not far behind any other, and the shared one
\* is not dropped while a hit of it could count.
EndInv(hits, seen) == hits # <<>> => \A x : Has(seen, x) => x <= hits[Len(hits)] + 1
ExpiryInv == \A x : Has(rateSeen[Shared], x) => x <= rateExpires - 1 - Narrowest

RateInv ==
  /\ RateTypeOK /\ CountersInv /\ ExpiryInv
  /\ \A n \in RateNodes : EndInv(rateHits[n], rateSeen[n])
  /\ CountIsWindow

LEMMA RateInitially == RateInit => RateInv
<1> SUFFICES ASSUME RateInit PROVE RateInv
  BY Zenon
<1>1. PICK cfg \in RateConfigs : rateCfg = [n \in RateNodes |-> cfg]
  BY Zenon DEF RateInit
<1>2. RateTypeOK
  <2>1. 1 \in Nat \ {0} /\ 0 \in Nat
    OBVIOUS
  <2> QED BY <1>1, <2>1, Zenon DEF RateInit, RateTypeOK
<1>3. <<>> \in Seq(Nat) /\ (\A x : ~Has(<<>>, x)) /\ 0 <= 0
  BY DEF Has
<1>4. \A c \in Counters : rateHits[c] = <<>> /\ rateSeen[c] = <<>>
  BY Zenon DEF RateInit
<1>5. CountersInv
  BY <1>3, <1>4, CountEmpty, Zenon DEF CountersInv, CounterOK
<1>6. ExpiryInv /\ \A n \in RateNodes : EndInv(rateHits[n], rateSeen[n])
  BY <1>3, <1>4, Zenon DEF ExpiryInv, EndInv, Counters
<1>7. CountIsWindow
  BY Zenon DEF RateInit, CountIsWindow
<1> QED BY <1>2, <1>5, <1>6, <1>7, Zenon DEF RateInv

\* What stays when a step leaves the hits given alone.
LEMMA CountStays ==
  ASSUME CountIsWindow, UNCHANGED <<rateLast, rateSeen>> PROVE CountIsWindow'
BY Zenon DEF CountIsWindow, Within

LEMMA RateObserves ==
  ASSUME RateInv, NEW c \in Counters, NEW n \in RateNodes, NEW at \in {rateNow, rateNow - 1}, ObserveIn(c, n, at),
         c = Shared => rateExpires' = rateNow + TTLFactor * rateCfg[n].window,
         c # Shared => UNCHANGED rateExpires
  PROVE  RateInv'
<1> DEFINE w == rateCfg[n].window
           hits == rateHits[c]
           seen == rateSeen[c]
           kept == Counted(hits, at, w)
           all == Append(seen, at)
<1>1. /\ rateNow \in Nat \ {0} /\ rateNow \in Nat /\ rateCfg[n] \in RateConfigs /\ RateConfigs # {} /\ rateExpires \in Nat
      /\ rateHits = [d \in Counters |-> rateHits[d]] /\ rateSeen = [d \in Counters |-> rateSeen[d]]
  BY Zenon DEF RateInv, RateTypeOK
<1>2. at \in Nat /\ at <= rateNow /\ rateNow <= at + 1
  BY <1>1
<1>3. Narrowest \in Nat /\ w \in Nat /\ w > 0 /\ Narrowest <= w
  BY <1>1, NarrowestIs
<1>4. CounterOK(hits, seen, rateNow)
  BY Zenon DEF RateInv, CountersInv
<1>5. /\ CounterOK(kept, all, rateNow)
      /\ Len(kept) \in Nat
      /\ Len(kept) <= Within(all, at, w)
  <2> HIDE DEF w, hits, seen
  <2> QED BY <1>1, <1>2, <1>3, <1>4, CounterObserves, Zenon
<1>6. /\ rateHits' = [rateHits EXCEPT ![c] = kept] /\ rateSeen' = [rateSeen EXCEPT ![c] = all]
      /\ rateLast' = [counter |-> c, at |-> at, window |-> w, count |-> Len(kept), level |-> Level(rateCfg[n], Len(kept))]
      /\ UNCHANGED <<rateNow, rateCfg>>
  BY Zenon DEF ObserveIn
<1>7. /\ rateHits'[c] = kept /\ rateSeen'[c] = all
      /\ \A d \in Counters : d # c => rateHits'[d] = rateHits[d] /\ rateSeen'[d] = rateSeen[d]
      /\ rateHits' = [d \in Counters |-> rateHits'[d]] /\ rateSeen' = [d \in Counters |-> rateSeen'[d]]
  BY <1>1, <1>6, Zenon
<1>8. seen \in Seq(Nat) /\ (\A x : Has(all, x) <=> Has(seen, x) \/ x = at) /\ all \in Seq(Nat)
      /\ \A x : Has(all, x) => x \in Nat /\ x <= rateNow
  <2>1. seen \in Seq(Nat) /\ all \in Seq(Nat) /\ \A x : Has(all, x) => x <= rateNow
    BY <1>4, <1>5, Zenon DEF CounterOK
  <2> HIDE DEF seen
  <2>2. \A x : Has(all, x) <=> Has(seen, x) \/ x = at
    BY <1>2, <2>1, HasAppend, Zenon
  <2> QED BY <2>1, <2>2, HasNat, Zenon
<1>9. kept # <<>> /\ kept[Len(kept)] = at
  <2>1. Above(hits, at - w) \in Seq(Nat)
    <3>1. at - w \in Int /\ hits \in Seq(Nat)
      BY <1>2, <1>3, <1>4 DEF CounterOK
    <3> HIDE DEF hits, w
    <3> QED BY <3>1, CountType, Zenon
  <2> HIDE DEF hits, w
  <2> QED BY <1>2, <2>1 DEF Counted
<1> HIDE DEF w, hits, seen, kept, all
<1>10. CountersInv'
  BY <1>5, <1>6, <1>7, Zenon DEF CountersInv, RateInv
<1>11. EndInv(kept, all)
  <2>1. \A x \in Nat : x <= rateNow => x <= at + 1
    BY <1>1, <1>2
  <2> QED BY <1>8, <1>9, <2>1, Zenon DEF EndInv
<1>12. \A m \in RateNodes : EndInv(rateHits'[m], rateSeen'[m])
  BY <1>7, <1>11, Zenon DEF RateInv, Counters
<1>13. RateTypeOK' /\ ExpiryInv'
  <2>1. CASE c = Shared
    <3>1. rateExpires' = rateNow + TTLFactor * w /\ TTLFactor * w \in Nat /\ TTLFactor * w >= w + 1
      BY <1>3, <2>1, KeptLong, Zenon DEF w
    <3>2. rateExpires' \in Nat /\ \A x \in Nat : x <= rateNow => x <= rateExpires' - 1 - Narrowest
      BY <1>1, <1>3, <3>1
    <3> QED BY <1>1, <1>6, <1>7, <1>8, <2>1, <3>2, Zenon DEF RateTypeOK, ExpiryInv, RateInv
  <2>2. CASE c # Shared
    <3>1. rateSeen'[Shared] = rateSeen[Shared] /\ rateExpires' = rateExpires
      BY <1>7, <2>2, Zenon DEF Counters
    <3> QED BY <1>1, <1>6, <1>7, <3>1, Zenon DEF RateTypeOK, ExpiryInv, RateInv
  <2> QED BY <2>1, <2>2, Zenon
<1>14. CountIsWindow'
  <2> DEFINE m == Max({all[i] : i \in DOMAIN all})
             b == m - Narrowest
  <2>1. Has(all, at)
    BY <1>8, Zenon
  <2>2. m \in Nat /\ Has(all, m) /\ \A x : Has(all, x) => x <= m
    BY <1>1, <1>8, <2>1, LargestIs, Zenon
  <2> HIDE DEF m
  <2>3. b \in Int /\ rateNow - 1 - Narrowest <= b /\ b + Narrowest = m
    <3>1. at <= m
      BY <2>1, <2>2, Zenon
    <3> QED BY <1>1, <1>2, <1>3, <2>2, <3>1, SMTT(30)
  <2> HIDE DEF b
  <2>4. CountAbove(all, b) <= CountAbove(kept, b)
    BY <1>5, <2>2, <2>3, Zenon DEF CounterOK
  <2>5. CountAbove(kept, b) <= Len(kept) /\ CountAbove(kept, b) \in Nat /\ CountAbove(all, b) \in Nat
    <3>1. kept \in Seq(Nat) /\ b <= b
      BY <1>5, <2>3 DEF CounterOK
    <3> QED BY <1>8, <2>3, <3>1, CountBounded, CountType, Zenon
  <2>6. Len(kept) >= Within(all, m, Narrowest)
    <3>1. Len(kept) >= CountAbove(all, b)
      BY <1>5, <2>4, <2>5
    <3> QED BY <3>1, Zenon DEF Within, CountAbove, b
  <2>7. rateLast'.counter = c /\ rateLast'.at = at /\ rateLast'.window = w /\ rateLast'.count = Len(kept)
    BY <1>6, Zenon
  <2> QED BY <1>5, <1>7, <2>6, <2>7, ZenonT(30) DEF CountIsWindow, Narrowest, m
<1> QED BY <1>10, <1>12, <1>13, <1>14, Zenon DEF RateInv

\* GC and the expiry of the key in Redis drop only what no window would count.
LEMMA RateDrops ==
  ASSUME RateInv, NEW c \in Counters, rateHits' = [rateHits EXCEPT ![c] = <<>>],
         UNCHANGED <<rateNow, rateCfg, rateExpires, rateLast, rateSeen>>,
         \A x : Has(rateSeen[c], x) => x <= rateNow - 1 - Narrowest
  PROVE  RateInv'
<1>1. /\ rateNow \in Nat /\ RateConfigs # {} /\ rateHits = [d \in Counters |-> rateHits[d]]
      /\ CounterOK(rateHits[c], rateSeen[c], rateNow)
  BY Zenon DEF RateInv, RateTypeOK, CountersInv
<1>2. CounterOK(<<>>, rateSeen[c], rateNow)
  BY <1>1, NarrowestIs, CounterClears, Zenon
<1>3. /\ rateHits'[c] = <<>> /\ \A d \in Counters : d # c => rateHits'[d] = rateHits[d]
      /\ rateHits' = [d \in Counters |-> rateHits'[d]]
  BY <1>1, Zenon
<1>4. CountersInv'
  BY <1>2, <1>3, Zenon DEF RateInv, CountersInv
<1>5. \A n \in RateNodes : EndInv(rateHits'[n], rateSeen'[n])
  BY <1>3, Zenon DEF RateInv, EndInv, Counters
<1>6. RateTypeOK' /\ ExpiryInv'
  BY <1>3, Zenon DEF RateInv, RateTypeOK, ExpiryInv
<1>7. CountIsWindow'
  BY CountStays, Zenon DEF RateInv
<1> QED BY <1>4, <1>5, <1>6, <1>7, Zenon DEF RateInv

LEMMA RateStep == RateInv /\ [RateNext]_rateVars => RateInv'
<1> SUFFICES ASSUME RateInv, [RateNext]_rateVars PROVE RateInv'
  BY Zenon
<1>0. /\ rateNow \in Nat \ {0} /\ rateNow \in Nat /\ RateConfigs # {} /\ rateExpires \in Nat
      /\ \A n \in RateNodes : rateCfg[n] \in RateConfigs /\ n \in Counters
      /\ Shared \in Counters /\ Narrowest \in Nat
      /\ \A n \in RateNodes : n # Shared
  BY NarrowestIs, RateAssumption, Zenon DEF RateInv, RateTypeOK, Counters
<1>1. ASSUME NEW n \in RateNodes, ObserveShared(n) PROVE RateInv'
  BY <1>0, <1>1, RateObserves, Zenon DEF ObserveShared
<1>2. ASSUME NEW n \in RateNodes, ObserveLocal(n) PROVE RateInv'
  BY <1>0, <1>2, RateObserves, Zenon DEF ObserveLocal
<1>3. ASSUME NEW n \in RateNodes, Configure(n) PROVE RateInv'
  <2>1. CountIsWindow'
    BY <1>3, CountStays, Zenon DEF RateInv, Configure
  <2>2. rateCfg' \in [RateNodes -> RateConfigs]
    BY <1>3, Zenon DEF Configure, RateInv, RateTypeOK
  <2> QED BY <1>3, <2>1, <2>2, Zenon DEF Configure, RateInv, RateTypeOK, CountersInv, ExpiryInv
<1>4. ASSUME NEW n \in RateNodes, RateGC(n) PROVE RateInv'
  <2> DEFINE last == rateHits[n][Len(rateHits[n])]
             w == rateCfg[n].window
  <2>1. rateHits[n] # <<>> /\ last < rateNow - TTLFactor * w
    BY <1>4, Zenon DEF RateGC
  <2>2. rateHits[n] \in Seq(Nat) /\ rateSeen[n] \in Seq(Nat) /\ \A x : Has(rateSeen[n], x) => x <= last + 1
    BY <1>0, <2>1, Zenon DEF RateInv, CountersInv, CounterOK, EndInv
  <2>3. last \in Nat
    BY <2>1, <2>2
  <2>4. w \in Nat /\ w > 0 /\ Narrowest <= w
    BY <1>0, NarrowestIs
  <2> HIDE DEF last, w
  <2>5. TTLFactor * w \in Nat /\ TTLFactor * w >= w + 1
    BY <2>4, KeptLong, Zenon
  <2>6. \A x \in Nat : x <= last + 1 => x <= rateNow - 1 - Narrowest
    BY <1>0, <2>1, <2>3, <2>4, <2>5
  <2>7. \A x : Has(rateSeen[n], x) => x <= rateNow - 1 - Narrowest
    BY <2>2, <2>6, HasNat, Zenon
  <2> QED BY <1>0, <1>4, <2>7, RateDrops, Zenon DEF RateGC
<1>5. ASSUME RedisExpires PROVE RateInv'
  <2>1. rateSeen[Shared] \in Seq(Nat) /\ rateNow >= rateExpires
    BY <1>0, <1>5, Zenon DEF RateInv, CountersInv, CounterOK, RedisExpires
  <2>2. \A x \in Nat : x <= rateExpires - 1 - Narrowest => x <= rateNow - 1 - Narrowest
    BY <1>0, <2>1
  <2>3. \A x : Has(rateSeen[Shared], x) => x <= rateNow - 1 - Narrowest
    BY <2>1, <2>2, HasNat, Zenon DEF RateInv, ExpiryInv
  <2> QED BY <1>0, <1>5, <2>3, RateDrops, Zenon DEF RedisExpires
<1>6. ASSUME RateTick PROVE RateInv'
  <2>1. CountIsWindow'
    BY <1>6, CountStays, Zenon DEF RateInv, RateTick
  <2>2. rateNow' = rateNow + 1 /\ rateNow + 1 \in Nat \ {0}
    BY <1>0, <1>6 DEF RateTick
  <2>3. CountersInv'
    BY <1>0, <1>6, <2>2, CounterTicks, Zenon DEF RateInv, CountersInv, RateTick
  <2> QED BY <1>6, <2>1, <2>2, <2>3, Zenon DEF RateTick, RateInv, RateTypeOK, ExpiryInv
<1>7. CASE UNCHANGED rateVars
  <2>1. CountIsWindow'
    BY <1>7, CountStays, Zenon DEF RateInv, rateVars
  <2> QED BY <1>7, <2>1, Zenon DEF rateVars, RateInv, RateTypeOK, CountersInv, ExpiryInv
<1> QED BY <1>1, <1>2, <1>3, <1>4, <1>5, <1>6, <1>7, Zenon DEF RateNext

\* The count that decides a level has every hit of the narrowest window that any node
\* may be configured with, and none older than the window of its request: for any
\* number of nodes, any windows and any settings changes, trims, sweeps and expiries.
THEOREM CountIsWindowAlways == RateSpec => []CountIsWindow
<1>1. RateInv => CountIsWindow
  BY Zenon DEF RateInv
<1> QED BY <1>1, RateInitially, RateStep, PTL DEF RateSpec

=============================================================================
