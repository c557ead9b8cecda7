---------------------------- MODULE ProofLemmas ----------------------------
(***************************************************************************)
(* Facts about sets of numbers, sequences, sorted listings and functions   *)
(* defined by recursion that the proofs of several components rest on.     *)
(***************************************************************************)
EXTENDS Integers, FiniteSetsExt, SequencesExt, Orders, WellFoundedInduction,
        SequenceTheorems, FiniteSetTheorems, TLAPS

\* A non-empty set of naturals has the minimum that Min picks.
LEMMA MinNat ==
    ASSUME NEW S, S \subseteq Nat, S # {}
    PROVE  Min(S) \in S /\ \A y \in S : Min(S) <= y
<1> DEFINE R == OpToRel(<, Nat)
<1>1. PICK x \in S : \A y \in S : ~(<<y, x>> \in R)
  BY NatLessThanWellFounded, WFMin
<1>2. ASSUME NEW y \in S PROVE x =< y
  <2>1. x \in Nat /\ y \in Nat
    OBVIOUS
  <2>2. y < x => <<y, x>> \in R
    BY <2>1, Zenon DEF OpToRel
  <2>3. ~(y < x)
    BY <1>1, <2>2, Zenon
  <2> HIDE DEF R
  <2> QED
    BY <2>1, <2>3
<1>3. \E z \in S : \A y \in S : z =< y
  BY <1>2
<1> QED
  BY <1>3 DEF Min

\* A non-empty set of naturals with an upper bound has the maximum that Max
\* picks.
LEMMA MaxBounded ==
    ASSUME NEW n \in Nat, NEW S, S \subseteq 0..n, S # {}
    PROVE  Max(S) \in S /\ \A y \in S : y <= Max(S)
<1> DEFINE T == {k \in Nat : n - k \in S}
<1>1. T \subseteq Nat /\ T # {}
  <2>1. PICK x \in S : TRUE
    OBVIOUS
  <2>2. n - x \in Nat /\ n - (n - x) \in S
    BY <2>1
  <2> QED
    BY <2>2
<1>2. PICK m \in T : \A k \in T : m <= k
  <2> HIDE DEF T
  <2> QED
    BY <1>1, MinNat
<1>3. n - m \in S
  BY <1>2
<1>4. ASSUME NEW y \in S PROVE n - m >= y
  <2>1. y \in 0..n /\ n - y \in Nat /\ n - (n - y) = y
    OBVIOUS
  <2>2. n - y \in T
    BY <2>1
  <2>3. m <= n - y /\ m \in Nat
    BY <1>2, <2>2
  <2> QED
    BY <2>1, <2>3
<1>5. \E x \in S : \A y \in S : x >= y
  BY <1>3, <1>4
<1>6. Max(S) \in S /\ \A y \in S : Max(S) >= y
  BY <1>5 DEF Max
<1> QED
  BY <1>6

-----------------------------------------------------------------------------
(* Sequences over any set.                                                  *)

\* Length, domain and elements of a sequence.
LEMMA SeqBasics ==
    ASSUME NEW S, NEW s \in Seq(S)
    PROVE  /\ Len(s) \in Nat /\ DOMAIN s = 1..Len(s)
           /\ \A i \in DOMAIN s : s[i] \in S
           /\ s # <<>> <=> Len(s) > 0
<1>1. Len(s) \in Nat /\ DOMAIN s = 1..Len(s) /\ \A i \in DOMAIN s : s[i] \in S
  OBVIOUS
<1>2. s # <<>> => Len(s) > 0
  BY <1>1, EmptySeq
<1> QED
  BY <1>1, <1>2

\* Joining two sequences.
LEMMA ConcatFacts ==
    ASSUME NEW S, NEW s \in Seq(S), NEW u \in Seq(S)
    PROVE  /\ s \o u \in Seq(S) /\ Len(s \o u) = Len(s) + Len(u)
           /\ \A i \in DOMAIN s : (s \o u)[i] = s[i]
           /\ \A i \in DOMAIN u : (s \o u)[Len(s) + i] = u[i]
<1>1. Len(s) \in Nat /\ DOMAIN s = 1..Len(s) /\ Len(u) \in Nat /\ DOMAIN u = 1..Len(u)
  BY SeqBasics
<1>2. s \o u \in Seq(S) /\ Len(s \o u) = Len(s) + Len(u)
  BY ConcatProperties
<1>3. \A i \in 1..(Len(s) + Len(u)) :
         (s \o u)[i] = IF i <= Len(s) THEN s[i] ELSE u[i - Len(s)]
  BY ConcatProperties
<1>4. ASSUME NEW i \in DOMAIN u PROVE (s \o u)[Len(s) + i] = u[i]
  <2>1. /\ Len(s) + i \in 1..(Len(s) + Len(u))
        /\ ~(Len(s) + i <= Len(s)) /\ (Len(s) + i) - Len(s) = i
    BY <1>1
  <2> QED
    BY <1>3, <2>1
<1>5. ASSUME NEW i \in DOMAIN s PROVE (s \o u)[i] = s[i]
  <2>1. i \in 1..(Len(s) + Len(u)) /\ i <= Len(s)
    BY <1>1
  <2> QED
    BY <1>3, <2>1
<1> QED
  BY <1>2, <1>4, <1>5

\* Putting an element in front.
LEMMA PushFacts ==
    ASSUME NEW S, NEW s \in Seq(S), NEW e \in S
    PROVE  /\ <<e>> \o s \in Seq(S) /\ Len(<<e>> \o s) = Len(s) + 1
           /\ (<<e>> \o s)[1] = e
           /\ \A i \in DOMAIN s : (<<e>> \o s)[i + 1] = s[i]
<1>1. Len(s) \in Nat /\ DOMAIN s = 1..Len(s)
  BY SeqBasics
<1>2. <<e>> \in Seq(S) /\ Len(<<e>>) = 1 /\ <<e>>[1] = e
  OBVIOUS
<1>3. <<e>> \o s \in Seq(S) /\ Len(<<e>> \o s) = 1 + Len(s)
  BY <1>2, ConcatProperties
<1>4. \A i \in 1..(1 + Len(s)) : (<<e>> \o s)[i] = IF i <= 1 THEN <<e>>[i] ELSE s[i - 1]
  BY <1>2, ConcatProperties
<1>5. ASSUME NEW i \in DOMAIN s PROVE (<<e>> \o s)[i + 1] = s[i]
  <2>1. i + 1 \in 1..(1 + Len(s)) /\ ~(i + 1 <= 1) /\ (i + 1) - 1 = i
    BY <1>1
  <2> QED
    BY <1>4, <2>1
<1>6. 1 \in 1..(1 + Len(s)) /\ 1 <= 1
  BY <1>1
<1>7. (<<e>> \o s)[1] = e
  BY <1>2, <1>4, <1>6
<1> QED
  BY <1>1, <1>3, <1>5, <1>7

\* Putting an element at the end.
LEMMA AppendFacts ==
    ASSUME NEW S, NEW s \in Seq(S), NEW e \in S
    PROVE  /\ Append(s, e) \in Seq(S) /\ Len(Append(s, e)) = Len(s) + 1
           /\ Append(s, e)[Len(s) + 1] = e
           /\ \A i \in DOMAIN s : Append(s, e)[i] = s[i]
BY SeqBasics, AppendProperties

\* Cutting out the elements from m + 1 to n.
LEMMA CutFacts ==
    ASSUME NEW S, NEW s \in Seq(S), NEW m \in Nat, NEW n \in 0..Len(s)
    PROVE  /\ SubSeq(s, m + 1, n) \in Seq(S)
           /\ Len(SubSeq(s, m + 1, n)) = IF m < n THEN n - m ELSE 0
           /\ \A i \in 1..(n - m) : SubSeq(s, m + 1, n)[i] = s[m + i]
<1>1. /\ m + 1 \in Int /\ n \in Int
      /\ \A i \in (m + 1)..n : s[i] \in S
  BY SeqBasics
<1>2. /\ SubSeq(s, m + 1, n) \in Seq(S)
      /\ Len(SubSeq(s, m + 1, n)) = IF m + 1 <= n THEN n - (m + 1) + 1 ELSE 0
      /\ \A i \in 1..(n - (m + 1) + 1) : SubSeq(s, m + 1, n)[i] = s[m + 1 + i - 1]
  BY <1>1, SubSeqProperties
<1>3. n - (m + 1) + 1 = n - m /\ (m + 1 <= n <=> m < n)
      /\ \A i \in 1..(n - m) : m + 1 + i - 1 = m + i
  BY SeqBasics
<1> QED
  BY <1>2, <1>3

\* The two ends of a sequence that is not empty, and what is left without them.
LEMMA EndFacts ==
    ASSUME NEW S, NEW s \in Seq(S), s # <<>>
    PROVE  /\ Len(s) > 0 /\ Last(s) = s[Len(s)] /\ Head(s) = s[1]
           /\ Front(s) \in Seq(S) /\ Len(Front(s)) = Len(s) - 1
           /\ \A i \in DOMAIN Front(s) : Front(s)[i] = s[i]
           /\ Tail(s) \in Seq(S) /\ Len(Tail(s)) = Len(s) - 1
           /\ \A i \in DOMAIN Tail(s) : Tail(s)[i] = s[i + 1]
<1>1. Len(s) \in Nat /\ Len(s) > 0 /\ Len(s) - 1 \in 0..Len(s) /\ DOMAIN s = 1..Len(s)
  BY SeqBasics
<1>2. Front(s) = SubSeq(s, 1, Len(s) - 1) /\ Last(s) = s[Len(s)] /\ Head(s) = s[1]
  BY DEF Front, Last
<1>3. /\ SubSeq(s, 0 + 1, Len(s) - 1) \in Seq(S)
      /\ Len(SubSeq(s, 0 + 1, Len(s) - 1)) = IF 0 < Len(s) - 1 THEN Len(s) - 1 - 0 ELSE 0
      /\ \A i \in 1..(Len(s) - 1 - 0) : SubSeq(s, 0 + 1, Len(s) - 1)[i] = s[0 + i]
  <2>1. 0 \in Nat
    OBVIOUS
  <2> QED
    BY <1>1, <2>1, CutFacts
<1>4. Front(s) \in Seq(S) /\ Len(Front(s)) = Len(s) - 1
  BY <1>1, <1>2, <1>3
<1>5. DOMAIN Front(s) = 1..(Len(s) - 1)
  BY <1>4, LenProperties
<1>6. \A i \in DOMAIN Front(s) : Front(s)[i] = s[i]
  BY <1>1, <1>2, <1>3, <1>5
<1>7. /\ Tail(s) \in Seq(S) /\ Len(Tail(s)) = Len(s) - 1
      /\ \A i \in DOMAIN Tail(s) : Tail(s)[i] = s[i + 1]
  BY HeadTailProperties, LenProperties
<1> QED
  BY <1>1, <1>2, <1>4, <1>6, <1>7

\* Taking the element at p out of a sequence.
LEMMA RemoveAtFacts ==
    ASSUME NEW S, NEW s \in Seq(S), NEW p \in DOMAIN s
    PROVE  /\ RemoveAt(s, p) \in Seq(S) /\ Len(RemoveAt(s, p)) = Len(s) - 1
           /\ \A i \in DOMAIN RemoveAt(s, p) :
                RemoveAt(s, p)[i] = IF i < p THEN s[i] ELSE s[i + 1]
<1> DEFINE a == SubSeq(s, 1, p - 1)
           b == SubSeq(s, p + 1, Len(s))
<1>1. Len(s) \in Nat /\ p \in 1..Len(s) /\ p - 1 \in 0..Len(s) /\ p \in Nat
  BY SeqBasics
<1>2. /\ a \in Seq(S) /\ Len(a) = p - 1
      /\ \A i \in 1..(p - 1) : a[i] = s[i]
  <2>1. 0 \in Nat /\ p - 1 \in 0..Len(s)
    BY <1>1
  <2>2. /\ SubSeq(s, 0 + 1, p - 1) \in Seq(S)
        /\ Len(SubSeq(s, 0 + 1, p - 1)) = IF 0 < p - 1 THEN p - 1 - 0 ELSE 0
        /\ \A i \in 1..(p - 1 - 0) : SubSeq(s, 0 + 1, p - 1)[i] = s[0 + i]
    BY <2>1, CutFacts
  <2>3. 0 + 1 = 1 /\ p - 1 - 0 = p - 1 /\ (\A i \in 1..(p - 1) : 0 + i = i)
    BY <1>1
  <2> QED
    BY <1>1, <2>2, <2>3
<1>3. /\ b \in Seq(S) /\ Len(b) = Len(s) - p
      /\ \A i \in 1..(Len(s) - p) : b[i] = s[p + i]
  <2>1. Len(s) \in 0..Len(s)
    BY <1>1
  <2>2. /\ b \in Seq(S) /\ Len(b) = IF p < Len(s) THEN Len(s) - p ELSE 0
        /\ \A i \in 1..(Len(s) - p) : b[i] = s[p + i]
    BY <1>1, <2>1, CutFacts
  <2> HIDE DEF b
  <2> QED
    BY <1>1, <2>2
<1> HIDE DEF a, b
<1>4. /\ a \o b \in Seq(S) /\ Len(a \o b) = Len(a) + Len(b)
      /\ \A i \in 1..(Len(a) + Len(b)) : (a \o b)[i] = IF i <= Len(a) THEN a[i] ELSE b[i - Len(a)]
  BY <1>2, <1>3, ConcatProperties
<1>5. RemoveAt(s, p) = a \o b
  BY DEF RemoveAt, a, b
<1>6. Len(a) + Len(b) = Len(s) - 1
  BY <1>1, <1>2, <1>3
<1>7. ASSUME NEW i \in 1..(Len(s) - 1) PROVE (a \o b)[i] = IF i < p THEN s[i] ELSE s[i + 1]
  <2>1. CASE i < p
    <3>1. i <= Len(a) /\ i \in 1..(p - 1)
      BY <1>1, <1>2, <2>1
    <3> QED
      BY <1>2, <1>4, <1>6, <2>1, <3>1
  <2>2. CASE ~(i < p)
    <3>1. ~(i <= Len(a)) /\ i - Len(a) \in 1..(Len(s) - p) /\ p + (i - Len(a)) = i + 1
      BY <1>1, <1>2, <2>2
    <3> QED
      BY <1>3, <1>4, <1>6, <2>2, <3>1
  <2> QED
    BY <2>1, <2>2
<1>8. DOMAIN (a \o b) = 1..(Len(s) - 1)
  BY <1>4, <1>6, SeqBasics
<1> QED
  BY <1>4, <1>5, <1>6, <1>7, <1>8

-----------------------------------------------------------------------------
(* Induction over a set of numbers, and functions defined by recursion.     *)

\* A set that has 0, and with each number below n the next one, has 0 to n.
LEMMA UpTo ==
    ASSUME NEW n \in Nat, NEW P, 0 \in P, \A k \in 0..(n - 1) : k \in P => k + 1 \in P
    PROVE  \A k \in 0..n : k \in P
<1> DEFINE B == {k \in 0..n : k \notin P}
<1> SUFFICES ASSUME B # {} PROVE FALSE
  OBVIOUS
<1>1. Min(B) \in B /\ \A y \in B : Min(B) <= y
  <2>1. B \subseteq Nat
    OBVIOUS
  <2> HIDE DEF B
  <2> QED
    BY <2>1, MinNat
<1> DEFINE m == Min(B)
<1>2. m \in 0..n /\ m \notin P
  BY <1>1
<1> HIDE DEF m
<1>3. m # 0 /\ m - 1 \in 0..(n - 1) /\ m - 1 \in 0..n /\ (m - 1) + 1 = m /\ ~(m <= m - 1)
  BY <1>2
<1>4. m - 1 \notin B
  BY <1>1, <1>3 DEF m
<1> QED
  BY <1>2, <1>3, <1>4

Unrolled(S, x0, step, n) ==
    \E f \in [0..n -> S] : f[0] = x0 /\ \A k \in 0..(n - 1) : f[k + 1] = step[<<k, f[k]>>]

\* The values x0, step[0, x0], ... up to n form a function.
LEMMA Recursion ==
    ASSUME NEW S, NEW x0 \in S, NEW step \in [Nat \X S -> S], NEW n \in Nat
    PROVE  Unrolled(S, x0, step, n)
<1> DEFINE Good(f, m) == f[0] = x0 /\ \A k \in 0..(m - 1) : f[k + 1] = step[<<k, f[k]>>]
           P == {m \in 0..n : \E f \in [0..m -> S] : Good(f, m)}
<1>1. 0 \in P
  <2> DEFINE g == [k \in 0..0 |-> x0]
  <2>1. g \in [0..0 -> S] /\ Good(g, 0)
    OBVIOUS
  <2>2. 0 \in 0..n
    OBVIOUS
  <2> HIDE DEF g, Good
  <2> QED
    BY <2>1, <2>2
<1>2. ASSUME NEW m \in 0..(n - 1), m \in P PROVE m + 1 \in P
  <2>1. PICK f \in [0..m -> S] : Good(f, m)
    BY <1>2
  <2> DEFINE g == [k \in 0..(m + 1) |-> IF k = m + 1 THEN step[<<m, f[m]>>] ELSE f[k]]
  <2>2. f[m] \in S /\ <<m, f[m]>> \in Nat \X S
    OBVIOUS
  <2>3. g \in [0..(m + 1) -> S]
    <3>1. step[<<m, f[m]>>] \in S
      BY <2>2
    <3>2. \A k \in 0..(m + 1) : k = m + 1 \/ k \in 0..m
      OBVIOUS
    <3> QED
      BY <3>1, <3>2
  <2>4. g[0] = x0
    BY <2>1
  <2>5. ASSUME NEW k \in 0..((m + 1) - 1) PROVE g[k + 1] = step[<<k, g[k]>>]
    <3>1. k \in 0..m /\ k # m + 1 /\ k \in 0..(m + 1) /\ k + 1 \in 0..(m + 1)
      OBVIOUS
    <3>2. g[k] = f[k]
      BY <3>1
    <3>3. CASE k = m
      BY <3>1, <3>2, <3>3
    <3>4. CASE k # m
      <4>1. k \in 0..(m - 1) /\ k + 1 # m + 1
        BY <3>1, <3>4
      <4>2. g[k + 1] = f[k + 1]
        BY <3>1, <4>1
      <4> QED
        BY <2>1, <3>2, <4>1, <4>2
    <3> QED
      BY <3>3, <3>4
  <2> HIDE DEF g
  <2>6. m + 1 \in 0..n
    OBVIOUS
  <2> QED
    BY <2>3, <2>4, <2>5, <2>6
<1> HIDE DEF P
<1>3. n \in P
  <2>1. n \in 0..n
    OBVIOUS
  <2> QED
    BY <1>1, <1>2, <2>1, UpTo
<1> QED
  BY <1>3 DEF P, Unrolled

-----------------------------------------------------------------------------
(* Listing a finite set in order.                                           *)

\* Any two elements of s, at different places, are related by R.
Ordered(s, R) == \A p, q \in DOMAIN s : p < q => <<s[p], s[q]>> \in R

\* R relates every element of A to every one of B.
AllBefore(A, B, R) == \A x \in A, y \in B : <<x, y>> \in R

\* R orders the elements of S strictly, and any two of them.
StrictOrder(S, R) ==
    /\ \A x \in S : <<x, x>> \notin R
    /\ \A x, y, z \in S : <<x, y>> \in R /\ <<y, z>> \in R => <<x, z>> \in R
    /\ \A x, y \in S : x = y \/ <<x, y>> \in R \/ <<y, x>> \in R

Rank(x, S, R) == Cardinality({y \in S : <<y, x>> \in R})

\* What InOrder gives: L has the element of rank i - 1, if there is one, at i.
Lists(L, S, R) ==
    /\ L = [i \in 1..Cardinality(S) |-> L[i]]
    /\ \A i \in 1..Cardinality(S) :
         (\E x \in S : Rank(x, S, R) = i - 1) => L[i] \in S /\ Rank(L[i], S, R) = i - 1

\* Ranks are below the size of the set and grow along the order.
LEMMA RankFacts ==
    ASSUME NEW S, IsFiniteSet(S), NEW R, StrictOrder(S, R)
    PROVE  /\ Cardinality(S) \in Nat
           /\ \A x \in S : Rank(x, S, R) \in 0..(Cardinality(S) - 1)
           /\ \A x, y \in S : <<x, y>> \in R => Rank(x, S, R) < Rank(y, S, R)
           /\ \A x, y \in S : Rank(x, S, R) = Rank(y, S, R) => x = y
<1> DEFINE B(x) == {y \in S : <<y, x>> \in R}
           n == Cardinality(S)
<1>1. n \in Nat
  BY FS_CardinalityType
<1>2. ASSUME NEW x \in S
      PROVE  IsFiniteSet(B(x)) /\ Cardinality(B(x)) \in 0..(n - 1)
  <2>1. B(x) \subseteq S \ {x}
    BY DEF StrictOrder
  <2>2. IsFiniteSet(S \ {x}) /\ Cardinality(S \ {x}) = n - 1
    BY FS_RemoveElement
  <2> HIDE DEF n, B
  <2>3. IsFiniteSet(B(x)) /\ Cardinality(B(x)) <= n - 1
    BY <2>1, <2>2, FS_Subset
  <2>4. Cardinality(B(x)) \in Nat
    BY <2>3, FS_CardinalityType
  <2> QED
    BY <1>1, <2>3, <2>4
<1>3. ASSUME NEW x \in S, NEW y \in S, <<x, y>> \in R
      PROVE  Cardinality(B(x)) < Cardinality(B(y))
  <2>1. B(x) \subseteq B(y) /\ x \in B(y) /\ x \notin B(x)
    BY <1>3 DEF StrictOrder
  <2> HIDE DEF B
  <2>2. Cardinality(B(x)) <= Cardinality(B(y))
        /\ (Cardinality(B(y)) = Cardinality(B(x)) => B(y) = B(x))
    BY <1>2, <2>1, FS_Subset
  <2>3. Cardinality(B(x)) \in 0..(n - 1) /\ Cardinality(B(y)) \in 0..(n - 1)
    BY <1>2
  <2>4. Cardinality(B(y)) # Cardinality(B(x))
    BY <2>1, <2>2
  <2> HIDE DEF n
  <2> QED
    BY <1>1, <2>2, <2>3, <2>4
<1>4. \A x \in S : Rank(x, S, R) = Cardinality(B(x))
  BY DEF Rank
<1> HIDE DEF B, n
<1>5. \A x \in S : Rank(x, S, R) \in 0..(n - 1)
  BY <1>2, <1>4
<1>6. \A x, y \in S : <<x, y>> \in R => Rank(x, S, R) < Rank(y, S, R)
  BY <1>3, <1>4
<1>7. ASSUME NEW x \in S, NEW y \in S, Rank(x, S, R) = Rank(y, S, R) PROVE x = y
  <2>1. ~(<<x, y>> \in R) /\ ~(<<y, x>> \in R)
    BY <1>1, <1>5, <1>6, <1>7
  <2> QED
    BY <2>1 DEF StrictOrder
<1> QED
  BY <1>1, <1>5, <1>6, <1>7 DEF n

\* A listing names every element once, in the order.
LEMMA ListsFacts ==
    ASSUME NEW S, IsFiniteSet(S), NEW R, StrictOrder(S, R), NEW L, Lists(L, S, R)
    PROVE  /\ Cardinality(S) \in Nat
           /\ L \in Seq(S) /\ Len(L) = Cardinality(S)
           /\ Range(L) = S
           /\ Ordered(L, R)
           /\ \A i \in 1..Cardinality(S) : Rank(L[i], S, R) = i - 1
<1> DEFINE n == Cardinality(S)
           f == [x \in S |-> Rank(x, S, R)]
<1>1. /\ n \in Nat
      /\ \A x \in S : Rank(x, S, R) \in 0..(n - 1)
      /\ \A x, y \in S : <<x, y>> \in R => Rank(x, S, R) < Rank(y, S, R)
      /\ \A x, y \in S : Rank(x, S, R) = Rank(y, S, R) => x = y
  BY RankFacts
<1>2. f \in Injection(S, 0..(n - 1))
  <2>1. f \in [S -> 0..(n - 1)]
    BY <1>1
  <2>2. \A x, y \in S : f[x] = f[y] => x = y
    BY <1>1
  <2> QED
    BY <2>1, <2>2, Zenon DEF Injection, IsInjective
<1>3. IsFiniteSet(0..(n - 1)) /\ Cardinality(0..(n - 1)) = n
  <2>1. 0 \in Int /\ n - 1 \in Int /\ (IF 0 > n - 1 THEN 0 ELSE n - 1 - 0 + 1) = n
    BY <1>1
  <2> QED
    BY <2>1, FS_Interval
<1>4. f \in Surjection(S, 0..(n - 1))
  <2> HIDE DEF f
  <2> QED
    BY <1>2, <1>3, FS_Injection DEF n
<1>5. \A m \in 0..(n - 1) : \E x \in S : Rank(x, S, R) = m
  <2>1. \A m \in 0..(n - 1) : \E x \in S : f[x] = m
    <3> HIDE DEF f
    <3> QED
      BY <1>4, Zenon DEF Surjection
  <2> QED
    BY <2>1
<1> HIDE DEF f
<1>6. ASSUME NEW i \in 1..n PROVE L[i] \in S /\ Rank(L[i], S, R) = i - 1
  <2>1. i - 1 \in 0..(n - 1)
    BY <1>1
  <2>2. \E x \in S : Rank(x, S, R) = i - 1
    BY <1>5, <2>1
  <2> QED
    BY <2>2 DEF Lists
<1>7. L \in [1..n -> S]
  <2>1. L = [i \in 1..n |-> L[i]]
    BY DEF Lists
  <2> HIDE DEF n
  <2> QED
    BY <1>6, <2>1
<1>8. ASSUME NEW x \in S PROVE \E i \in 1..n : L[i] = x
  <2>1. Rank(x, S, R) + 1 \in 1..n /\ (Rank(x, S, R) + 1) - 1 = Rank(x, S, R)
    BY <1>1
  <2>2. L[Rank(x, S, R) + 1] = x
    BY <1>1, <1>6, <2>1
  <2> QED
    BY <2>1, <2>2
<1>9. ASSUME NEW i \in 1..n, NEW j \in 1..n, i < j PROVE <<L[i], L[j]>> \in R
  <2>1. Rank(L[i], S, R) = i - 1 /\ Rank(L[j], S, R) = j - 1 /\ L[i] \in S /\ L[j] \in S
    BY <1>6
  <2>2. ~(L[i] = L[j])
    BY <1>9, <2>1
  <2>3. ~(<<L[j], L[i]>> \in R)
    <3>1. <<L[j], L[i]>> \in R => j - 1 < i - 1
      BY <1>1, <2>1
    <3> QED
      BY <3>1, <1>9, <1>1
  <2> QED
    BY <2>1, <2>2, <2>3 DEF StrictOrder
<1> HIDE DEF n
<1>10. L \in Seq(S) /\ Len(L) = n /\ DOMAIN L = 1..n
  BY <1>1, <1>7
<1>11. Range(L) = S
  <2>1. Range(L) \subseteq S
    BY <1>6, <1>10 DEF Range
  <2>2. S \subseteq Range(L)
    BY <1>8, <1>10 DEF Range
  <2> QED
    BY <2>1, <2>2
<1>12. Ordered(L, R)
  BY <1>9, <1>10 DEF Ordered
<1> QED
  BY <1>1, <1>6, <1>10, <1>11, <1>12 DEF n

-----------------------------------------------------------------------------
(* Numbers in order.                                                        *)

\* A sequence over a set is one over a larger set.
LEMMA WiderSeq ==
    ASSUME NEW S, NEW T, S \subseteq T, NEW s \in Seq(S)
    PROVE  s \in Seq(T)
OBVIOUS

\* Numbers listed from the largest down.
LEMMA ListedDown ==
    ASSUME NEW S, S \subseteq Nat, IsFiniteSet(S)
    PROVE  /\ InOrder(S, >) \in Seq(Nat) /\ Range(InOrder(S, >)) = S
           /\ Len(InOrder(S, >)) = Cardinality(S)
           /\ \A p, q \in DOMAIN InOrder(S, >) :
                p < q => InOrder(S, >)[p] > InOrder(S, >)[q]
<1> DEFINE R == {p \in Nat \X Nat : p[1] > p[2]}
           L == InOrder(S, >)
<1>1. \A x, y \in Nat : <<x, y>> \in R <=> x > y
  OBVIOUS
<1> HIDE DEF R
<1>2. StrictOrder(S, R)
  BY <1>1 DEF StrictOrder
<1>3. Lists(L, S, R)
  <2>1. L = [i \in 1..Cardinality(S) |->
               CHOOSE x \in S : Cardinality({y \in S : y > x}) = i - 1]
    BY DEF InOrder
  <2> HIDE DEF L
  <2>2. ASSUME NEW x \in S PROVE {y \in S : y > x} = {y \in S : <<y, x>> \in R}
    BY <1>1
  <2>3. ASSUME NEW i \in 1..Cardinality(S), \E x \in S : Rank(x, S, R) = i - 1
        PROVE  L[i] \in S /\ Rank(L[i], S, R) = i - 1
    <3>1. \E x \in S : Cardinality({y \in S : y > x}) = i - 1
      BY <2>2, <2>3 DEF Rank
    <3>2. L[i] = CHOOSE x \in S : Cardinality({y \in S : y > x}) = i - 1
      BY <2>1
    <3>3. L[i] \in S /\ Cardinality({y \in S : y > L[i]}) = i - 1
      BY <3>1, <3>2
    <3> QED
      BY <2>2, <3>3 DEF Rank
  <2>4. L = [i \in 1..Cardinality(S) |-> L[i]]
    <3> DEFINE g(i) == CHOOSE x \in S : Cardinality({y \in S : y > x}) = i - 1
    <3>1. L = [i \in 1..Cardinality(S) |-> g(i)]
      BY <2>1, Zenon
    <3> HIDE DEF g
    <3> QED
      BY <3>1
  <2> QED
    BY <2>3, <2>4 DEF Lists
<1> HIDE DEF L
<1>4. L \in Seq(S) /\ Len(L) = Cardinality(S) /\ Range(L) = S /\ Ordered(L, R)
  BY <1>2, <1>3, ListsFacts
<1>5. L \in Seq(Nat)
  BY <1>4, WiderSeq
<1>6. ASSUME NEW p \in DOMAIN L, NEW q \in DOMAIN L, p < q PROVE L[p] > L[q]
  <2>1. <<L[p], L[q]>> \in R
    BY <1>4, <1>6 DEF Ordered
  <2>2. L[p] \in Nat /\ L[q] \in Nat
    BY <1>5, SeqBasics
  <2> QED
    BY <1>1, <2>1, <2>2
<1> QED
  BY <1>4, <1>5, <1>6 DEF L

\* Numbers listed from the smallest up.
LEMMA ListedUp ==
    ASSUME NEW S, S \subseteq Nat, IsFiniteSet(S)
    PROVE  /\ InOrder(S, <) \in Seq(Nat) /\ Range(InOrder(S, <)) = S
           /\ Len(InOrder(S, <)) = Cardinality(S)
           /\ \A p, q \in DOMAIN InOrder(S, <) :
                p < q => InOrder(S, <)[p] < InOrder(S, <)[q]
           /\ \A p \in DOMAIN InOrder(S, <) :
                Cardinality({y \in S : y < InOrder(S, <)[p]}) = p - 1
<1> DEFINE R == {p \in Nat \X Nat : p[1] < p[2]}
           L == InOrder(S, <)
<1>1. \A x, y \in Nat : <<x, y>> \in R <=> x < y
  OBVIOUS
<1> HIDE DEF R
<1>2. StrictOrder(S, R)
  BY <1>1 DEF StrictOrder
<1>3. Lists(L, S, R)
  <2>1. L = [i \in 1..Cardinality(S) |->
               CHOOSE x \in S : Cardinality({y \in S : y < x}) = i - 1]
    BY DEF InOrder
  <2> HIDE DEF L
  <2>2. ASSUME NEW x \in S PROVE {y \in S : y < x} = {y \in S : <<y, x>> \in R}
    BY <1>1
  <2>3. ASSUME NEW i \in 1..Cardinality(S), \E x \in S : Rank(x, S, R) = i - 1
        PROVE  L[i] \in S /\ Rank(L[i], S, R) = i - 1
    <3>1. \E x \in S : Cardinality({y \in S : y < x}) = i - 1
      BY <2>2, <2>3 DEF Rank
    <3>2. L[i] = CHOOSE x \in S : Cardinality({y \in S : y < x}) = i - 1
      BY <2>1
    <3>3. L[i] \in S /\ Cardinality({y \in S : y < L[i]}) = i - 1
      BY <3>1, <3>2
    <3> QED
      BY <2>2, <3>3 DEF Rank
  <2>4. L = [i \in 1..Cardinality(S) |-> L[i]]
    <3> DEFINE g(i) == CHOOSE x \in S : Cardinality({y \in S : y < x}) = i - 1
    <3>1. L = [i \in 1..Cardinality(S) |-> g(i)]
      BY <2>1, Zenon
    <3> HIDE DEF g
    <3> QED
      BY <3>1
  <2> QED
    BY <2>3, <2>4 DEF Lists
<1> HIDE DEF L
<1>4. /\ L \in Seq(S) /\ Len(L) = Cardinality(S) /\ Range(L) = S /\ Ordered(L, R)
      /\ \A i \in 1..Cardinality(S) : Rank(L[i], S, R) = i - 1
  BY <1>2, <1>3, ListsFacts
<1>5. L \in Seq(Nat)
  BY <1>4, WiderSeq
<1>6. ASSUME NEW p \in DOMAIN L, NEW q \in DOMAIN L, p < q PROVE L[p] < L[q]
  <2>1. <<L[p], L[q]>> \in R
    BY <1>4, <1>6 DEF Ordered
  <2>2. L[p] \in Nat /\ L[q] \in Nat
    BY <1>5, SeqBasics
  <2> QED
    BY <1>1, <2>1, <2>2
<1>7. ASSUME NEW p \in DOMAIN L PROVE Cardinality({y \in S : y < L[p]}) = p - 1
  <2>1. p \in 1..Cardinality(S) /\ L[p] \in S
    BY <1>4, SeqBasics
  <2>2. {y \in S : y < L[p]} = {y \in S : <<y, L[p]>> \in R}
    BY <1>1, <2>1
  <2> QED
    BY <1>4, <2>1, <2>2 DEF Rank
<1> QED
  BY <1>4, <1>5, <1>6, <1>7 DEF L

-----------------------------------------------------------------------------
(* The order of joined sequences.                                           *)

\* Joining two sequences: its elements, and its order.
LEMMA JoinFacts ==
    ASSUME NEW T, NEW s \in Seq(T), NEW u \in Seq(T), NEW R
    PROVE  /\ s \o u \in Seq(T)
           /\ Range(s \o u) = Range(s) \cup Range(u)
           /\ Ordered(s, R) /\ Ordered(u, R) /\ AllBefore(Range(s), Range(u), R)
                => Ordered(s \o u, R)
<1> DEFINE m == Len(s)
           n == Len(u)
           c == s \o u
<1>1. m \in Nat /\ DOMAIN s = 1..m /\ n \in Nat /\ DOMAIN u = 1..n
  BY SeqBasics
<1>2. /\ c \in Seq(T) /\ Len(c) = m + n
      /\ \A i \in DOMAIN s : c[i] = s[i]
      /\ \A i \in DOMAIN u : c[m + i] = u[i]
  BY ConcatFacts
<1>3. DOMAIN c = 1..(m + n)
  BY <1>2, SeqBasics
<1> HIDE DEF c
<1>4. ASSUME NEW p \in DOMAIN c
      PROVE  (p \in DOMAIN s /\ c[p] = s[p]) \/ (p > m /\ p - m \in DOMAIN u /\ c[p] = u[p - m])
  <2>1. p \in 1..(m + n)
    BY <1>3
  <2>2. CASE p <= m
    BY <1>1, <1>2, <2>1, <2>2
  <2>3. CASE ~(p <= m)
    <3>1. p > m /\ p - m \in 1..n /\ m + (p - m) = p
      BY <1>1, <2>1, <2>3
    <3> QED
      BY <1>1, <1>2, <3>1
  <2> QED
    BY <2>2, <2>3
<1>5. Range(c) = Range(s) \cup Range(u)
  <2>1. ASSUME NEW p \in DOMAIN c PROVE c[p] \in Range(s) \cup Range(u)
    BY <1>4 DEF Range
  <2>2. ASSUME NEW p \in DOMAIN s PROVE \E q \in DOMAIN c : c[q] = s[p]
    <3>1. p \in 1..(m + n)
      BY <1>1
    <3> QED
      BY <1>2, <1>3, <3>1
  <2>3. ASSUME NEW p \in DOMAIN u PROVE \E q \in DOMAIN c : c[q] = u[p]
    <3>1. m + p \in 1..(m + n)
      BY <1>1
    <3> QED
      BY <1>2, <1>3, <3>1
  <2> QED
    BY <2>1, <2>2, <2>3 DEF Range
<1>6. ASSUME Ordered(s, R), Ordered(u, R), AllBefore(Range(s), Range(u), R),
             NEW p \in DOMAIN c, NEW q \in DOMAIN c, p < q
      PROVE  <<c[p], c[q]>> \in R
  <2>0. p \in 1..(m + n) /\ q \in 1..(m + n)
    BY <1>3
  <2>1. CASE q \in DOMAIN s /\ c[q] = s[q]
    <3>1. p \in DOMAIN s
      BY <1>1, <1>6, <2>0, <2>1
    <3> QED
      BY <1>2, <1>6, <2>1, <3>1 DEF Ordered
  <2>2. CASE q > m /\ q - m \in DOMAIN u /\ c[q] = u[q - m]
    <3>1. CASE p \in DOMAIN s /\ c[p] = s[p]
      BY <1>6, <2>2, <3>1 DEF Range, AllBefore
    <3>2. CASE p > m /\ p - m \in DOMAIN u /\ c[p] = u[p - m]
      <4>1. p - m < q - m
        BY <1>1, <1>6, <2>0
      <4> QED
        BY <1>6, <2>2, <3>2, <4>1 DEF Ordered
    <3> QED
      BY <1>4, <3>1, <3>2
  <2> QED
    BY <1>4, <2>1, <2>2
<1>7. Ordered(s, R) /\ Ordered(u, R) /\ AllBefore(Range(s), Range(u), R) => Ordered(c, R)
  BY <1>6 DEF Ordered
<1> QED
  BY <1>2, <1>5, <1>7 DEF c

\* The elements of two joined sequences.
LEMMA JoinRange ==
    ASSUME NEW T, NEW s \in Seq(T), NEW u \in Seq(T)
    PROVE  s \o u \in Seq(T) /\ Range(s \o u) = Range(s) \cup Range(u)
<1>1. \A R : s \o u \in Seq(T) /\ Range(s \o u) = Range(s) \cup Range(u)
  BY JoinFacts
<1> QED
  BY <1>1

\* FlattenSeq adds one sequence after the other.
LEMMA FlattenSteps ==
    ASSUME NEW T, NEW s \in Seq(Seq(T)), s # <<>>
    PROVE  \E f \in [0..(Len(s) - 1) -> Seq(T)] :
              /\ f[0] = s[1]
              /\ \A k \in 0..(Len(s) - 2) : f[k + 1] = f[k] \o s[k + 2]
              /\ FlattenSeq(s) = f[Len(s) - 1]
<1> DEFINE n == Len(s)
           G(g) == [i \in 1..n |-> IF i = 1 THEN s[i] ELSE g[i - 1] \o s[i]]
           step == [x \in Nat \X Seq(T) |-> IF x[1] + 2 \in 1..n THEN x[2] \o s[x[1] + 2] ELSE x[2]]
<1>1. n \in Nat /\ n > 0 /\ DOMAIN s = 1..n /\ n - 1 \in Nat /\ \A i \in 1..n : s[i] \in Seq(T)
  BY SeqBasics
<1>2. FlattenSeq(s) = (CHOOSE g : g = G(g))[n]
  <2>1. n # 0
    BY <1>1
  <2> QED
    BY <2>1 DEF FlattenSeq
<1> DEFINE g == CHOOSE h : h = G(h)
<1>3. step \in [Nat \X Seq(T) -> Seq(T)]
  <2>1. ASSUME NEW x \in Nat \X Seq(T), x[1] + 2 \in 1..n PROVE x[2] \o s[x[1] + 2] \in Seq(T)
    <3>1. s[x[1] + 2] \in Seq(T) /\ x[2] \in Seq(T)
      BY <1>1, <2>1
    <3> QED
      BY <3>1, ConcatProperties
  <2>2. \A x \in Nat \X Seq(T) : x[2] \in Seq(T)
    OBVIOUS
  <2> QED
    BY <2>1, <2>2
<1>4. s[1] \in Seq(T)
  BY <1>1
<1>5. PICK f \in [0..(n - 1) -> Seq(T)] :
         f[0] = s[1] /\ \A k \in 0..(n - 1 - 1) : f[k + 1] = step[<<k, f[k]>>]
  <2> HIDE DEF step, n
  <2>1. Unrolled(Seq(T), s[1], step, n - 1)
    BY <1>1, <1>3, <1>4, Recursion
  <2> QED
    BY <2>1 DEF Unrolled
<1>6. ASSUME NEW k \in 0..(n - 2) PROVE f[k + 1] = f[k] \o s[k + 2]
  <2>1. k \in Nat /\ k \in 0..(n - 1 - 1) /\ k + 2 \in 1..n /\ k \in 0..(n - 1)
    BY <1>1
  <2>2. f[k] \in Seq(T) /\ <<k, f[k]>> \in Nat \X Seq(T)
    BY <2>1
  <2>3. step[<<k, f[k]>>] = f[k] \o s[k + 2]
    BY <2>1, <2>2
  <2> QED
    BY <1>5, <2>1, <2>3
<1> DEFINE h == [i \in 1..n |-> f[i - 1]]
<1>7. h = G(h)
  <2>1. ASSUME NEW i \in 1..n, i # 1 PROVE h[i] = h[i - 1] \o s[i]
    <3>1. i - 2 \in 0..(n - 2) /\ (i - 2) + 1 = i - 1 /\ (i - 2) + 2 = i /\ i - 1 \in 1..n
          /\ (i - 1) - 1 = i - 2
      BY <1>1, <2>1
    <3>2. f[(i - 2) + 1] = f[i - 2] \o s[(i - 2) + 2]
      BY <1>6, <3>1
    <3>3. h[i] = f[i - 1] /\ h[i - 1] = f[i - 2]
      BY <3>1
    <3> QED
      BY <3>1, <3>2, <3>3
  <2>2. 1 \in 1..n => h[1] = s[1]
    BY <1>1, <1>5
  <2>3. \A i \in 1..n : h[i] = IF i = 1 THEN s[i] ELSE h[i - 1] \o s[i]
    BY <2>1, <2>2
  <2>4. h = [i \in 1..n |-> h[i]]
    OBVIOUS
  <2> HIDE DEF h
  <2> QED
    BY <2>3, <2>4
<1>8. g = G(g)
  <2> HIDE DEF h
  <2>1. \E x : x = G(x)
    BY <1>7, Zenon
  <2> HIDE DEF G
  <2> QED
    BY <2>1, Zenon
<1> HIDE DEF g
<1>9. g[1] = s[1] /\ \A i \in 1..n : i # 1 => g[i] = g[i - 1] \o s[i]
  <2>1. \A i \in 1..n : g[i] = IF i = 1 THEN s[i] ELSE g[i - 1] \o s[i]
    BY <1>8
  <2>2. 1 \in 1..n
    BY <1>1
  <2> QED
    BY <2>1, <2>2
<1> DEFINE P == {k \in 0..(n - 1) : g[k + 1] = f[k]}
<1>10. \A k \in 0..(n - 1) : k \in P
  <2>1. 0 \in P
    BY <1>1, <1>5, <1>9
  <2>2. ASSUME NEW k \in 0..(n - 1 - 1), k \in P PROVE k + 1 \in P
    <3>1. k + 2 \in 1..n /\ k + 2 # 1 /\ (k + 2) - 1 = k + 1 /\ (k + 1) + 1 = k + 2
          /\ k \in 0..(n - 2) /\ k + 1 \in 0..(n - 1)
      BY <1>1
    <3>2. g[k + 2] = g[k + 1] \o s[k + 2] /\ g[k + 1] = f[k]
      BY <1>9, <2>2, <3>1
    <3>3. f[k + 1] = f[k] \o s[k + 2]
      BY <1>6, <3>1
    <3> QED
      BY <3>1, <3>2, <3>3
  <2> HIDE DEF P, n
  <2> QED
    BY <1>1, <2>1, <2>2, UpTo
<1>11. g[n] = f[n - 1]
  <2>1. n - 1 \in 0..(n - 1) /\ (n - 1) + 1 = n
    BY <1>1
  <2> QED
    BY <1>10, <2>1
<1> QED
  BY <1>2, <1>5, <1>6, <1>11 DEF g

\* FlattenSeq holds what the sequences hold; it is ordered when each of them is
\* and each comes before the next ones.
LEMMA FlattenFacts ==
    ASSUME NEW T, NEW s \in Seq(Seq(T)), NEW R
    PROVE  /\ FlattenSeq(s) \in Seq(T)
           /\ Range(FlattenSeq(s)) = UNION {Range(s[i]) : i \in DOMAIN s}
           /\ (\A i \in DOMAIN s : Ordered(s[i], R))
                /\ (\A i, j \in DOMAIN s : i < j => AllBefore(Range(s[i]), Range(s[j]), R))
              => Ordered(FlattenSeq(s), R)
<1> DEFINE n == Len(s)
           In(m) == UNION {Range(s[i]) : i \in 1..m}
           Hyp == /\ \A i \in DOMAIN s : Ordered(s[i], R)
                  /\ \A i, j \in DOMAIN s : i < j => AllBefore(Range(s[i]), Range(s[j]), R)
<1>1. n \in Nat /\ DOMAIN s = 1..n /\ \A i \in 1..n : s[i] \in Seq(T)
  BY SeqBasics
<1>2. CASE s = <<>>
  <2>1. FlattenSeq(s) = <<>>
    BY <1>2 DEF FlattenSeq
  <2>2. DOMAIN s = {} /\ <<>> \in Seq(T)
    BY <1>2
  <2>3. Range(<<>>) = {} /\ Ordered(<<>>, R)
    BY DEF Range, Ordered
  <2> QED
    BY <2>1, <2>2, <2>3
<1>3. CASE s # <<>>
  <2>1. n > 0 /\ n - 1 \in Nat
    BY <1>1, <1>3, SeqBasics
  <2>2. PICK f \in [0..(n - 1) -> Seq(T)] :
           /\ f[0] = s[1]
           /\ \A k \in 0..(n - 2) : f[k + 1] = f[k] \o s[k + 2]
           /\ FlattenSeq(s) = f[n - 1]
    BY <1>3, FlattenSteps
  <2> DEFINE P == {k \in 0..(n - 1) : Range(f[k]) = In(k + 1) /\ (Hyp => Ordered(f[k], R))}
  <2>3. 0 \in P
    <3>1. 1 \in DOMAIN s /\ 0 \in 0..(n - 1) /\ 0 + 1 = 1 /\ 1..1 = {1}
      BY <1>1, <2>1
    <3>2. In(0 + 1) = Range(s[1])
      BY <3>1
    <3>3. Hyp => Ordered(f[0], R)
      BY <2>2, <3>1
    <3> HIDE DEF Hyp, In
    <3> QED
      BY <2>2, <3>1, <3>2, <3>3
  <2>4. ASSUME NEW k \in 0..(n - 1 - 1), k \in P PROVE k + 1 \in P
    <3>1. /\ k + 2 \in 1..n /\ k \in 0..(n - 2) /\ k \in 0..(n - 1) /\ k + 1 \in 0..(n - 1)
          /\ (k + 1) + 1 = k + 2
          /\ \A i \in 1..(k + 1) : i \in 1..n /\ i < k + 2
          /\ 1..(k + 2) = 1..(k + 1) \cup {k + 2}
      BY <1>1
    <3>2. f[k + 1] = f[k] \o s[k + 2] /\ f[k] \in Seq(T) /\ s[k + 2] \in Seq(T)
      BY <1>1, <2>2, <3>1
    <3>3. Range(f[k]) = In(k + 1) /\ (Hyp => Ordered(f[k], R))
      BY <2>4
    <3>4. In(k + 2) = In(k + 1) \cup Range(s[k + 2])
      BY <3>1
    <3>5. Hyp => Ordered(s[k + 2], R)
                 /\ AllBefore(In(k + 1), Range(s[k + 2]), R)
      BY <1>1, <3>1 DEF AllBefore
    <3> HIDE DEF Hyp, In
    <3>6. /\ Range(f[k] \o s[k + 2]) = Range(f[k]) \cup Range(s[k + 2])
          /\ Ordered(f[k], R) /\ Ordered(s[k + 2], R)
               /\ AllBefore(Range(f[k]), Range(s[k + 2]), R)
             => Ordered(f[k] \o s[k + 2], R)
      BY <3>2, JoinFacts
    <3>7. Range(f[k + 1]) = In(k + 2)
      BY <3>2, <3>3, <3>4, <3>6
    <3>8. Hyp => Ordered(f[k + 1], R)
      BY <3>2, <3>3, <3>5, <3>6
    <3> QED
      BY <3>1, <3>7, <3>8
  <2>5. \A k \in 0..(n - 1) : k \in P
    <3> HIDE DEF P, n
    <3> QED
      BY <2>1, <2>3, <2>4, UpTo
  <2>6. n - 1 \in 0..(n - 1) /\ (n - 1) + 1 = n /\ f[n - 1] \in Seq(T)
    <3>1. n - 1 \in 0..(n - 1) /\ (n - 1) + 1 = n
      BY <1>1, <2>1
    <3> QED
      BY <3>1
  <2>7. Range(f[n - 1]) = In(n) /\ (Hyp => Ordered(f[n - 1], R))
    <3> HIDE DEF Hyp, In
    <3> QED
      BY <2>5, <2>6
  <2>8. In(n) = UNION {Range(s[i]) : i \in DOMAIN s}
    BY <1>1
  <2> QED
    BY <2>2, <2>6, <2>7, <2>8
<1> QED
  BY <1>2, <1>3

-----------------------------------------------------------------------------
(* Finite sets.                                                             *)

\* The values of a function on a finite set are finitely many.
LEMMA FiniteRange ==
    ASSUME NEW S, NEW f, f = [x \in S |-> f[x]], IsFiniteSet(S)
    PROVE  IsFiniteSet(Range(f))
<1>1. DOMAIN f = S
  OBVIOUS
<1>2. f \in [S -> Range(f)] /\ \A y \in Range(f) : \E x \in S : f[x] = y
  BY <1>1 DEF Range
<1>3. f \in Surjection(S, Range(f))
  BY <1>2, Zenon DEF Surjection
<1> QED
  BY <1>3, FS_Surjection

\* A sequence has finitely many elements.
LEMMA FiniteElements ==
    ASSUME NEW T, NEW s \in Seq(T)
    PROVE  IsFiniteSet(Range(s)) /\ Range(s) \subseteq T
<1>1. Len(s) \in Nat /\ DOMAIN s = 1..Len(s) /\ s = [i \in 1..Len(s) |-> s[i]]
  BY SeqBasics
<1>2. IsFiniteSet(1..Len(s))
  <2>1. 1 \in Int /\ Len(s) \in Int
    BY <1>1
  <2> QED
    BY <2>1, FS_Interval
<1>3. Range(s) \subseteq T
  BY SeqBasics DEF Range
<1> QED
  BY <1>1, <1>2, <1>3, FiniteRange

-----------------------------------------------------------------------------
(* The elements of sequences that are cut or grow at an end.                *)

\* Cutting a sequence after n elements.
LEMMA SplitRange ==
    ASSUME NEW T, NEW s \in Seq(T), NEW n \in 0..Len(s)
    PROVE  /\ SubSeq(s, 1, n) \in Seq(T) /\ SubSeq(s, n + 1, Len(s)) \in Seq(T)
           /\ Len(SubSeq(s, 1, n)) = n /\ Len(SubSeq(s, n + 1, Len(s))) = Len(s) - n
           /\ \A i \in 1..n : SubSeq(s, 1, n)[i] = s[i]
           /\ \A i \in 1..(Len(s) - n) : SubSeq(s, n + 1, Len(s))[i] = s[n + i]
           /\ Range(s) = Range(SubSeq(s, 1, n)) \cup Range(SubSeq(s, n + 1, Len(s)))
<1> DEFINE m == Len(s)
           a == SubSeq(s, 1, n)
           b == SubSeq(s, n + 1, m)
<1>1. m \in Nat /\ DOMAIN s = 1..m /\ n \in Nat /\ 0 \in Nat /\ m \in 0..m
  BY SeqBasics
<1>2. a \in Seq(T) /\ Len(a) = n /\ \A i \in 1..n : a[i] = s[i]
  <2>1. /\ SubSeq(s, 0 + 1, n) \in Seq(T)
        /\ Len(SubSeq(s, 0 + 1, n)) = IF 0 < n THEN n - 0 ELSE 0
        /\ \A i \in 1..(n - 0) : SubSeq(s, 0 + 1, n)[i] = s[0 + i]
    BY <1>1, CutFacts
  <2>2. 0 + 1 = 1 /\ n - 0 = n /\ (IF 0 < n THEN n ELSE 0) = n /\ \A i \in 1..n : 0 + i = i
    BY <1>1
  <2> QED
    BY <2>1, <2>2
<1>3. b \in Seq(T) /\ Len(b) = m - n /\ \A i \in 1..(m - n) : b[i] = s[n + i]
  <2>1. /\ b \in Seq(T) /\ Len(b) = IF n < m THEN m - n ELSE 0
        /\ \A i \in 1..(m - n) : b[i] = s[n + i]
    BY <1>1, CutFacts
  <2>2. (IF n < m THEN m - n ELSE 0) = m - n
    <3>1. n <= m
      OBVIOUS
    <3> HIDE DEF m
    <3> QED
      BY <1>1, <3>1
  <2> QED
    BY <2>1, <2>2
<1> HIDE DEF a, b, m
<1>4. DOMAIN a = 1..n /\ DOMAIN b = 1..(m - n)
  BY <1>2, <1>3, SeqBasics
<1>5. Range(s) \subseteq Range(a) \cup Range(b)
  <2>1. ASSUME NEW i \in 1..m PROVE s[i] \in Range(a) \cup Range(b)
    <3>1. CASE i <= n
      <4>1. i \in 1..n
        BY <1>1, <3>1
      <4> QED
        BY <1>2, <1>4, <4>1 DEF Range
    <3>2. CASE ~(i <= n)
      <4>1. i - n \in 1..(m - n) /\ n + (i - n) = i
        BY <1>1, <3>2 DEF m
      <4>2. b[i - n] = s[i]
        BY <1>3, <4>1
      <4> QED
        BY <1>4, <4>1, <4>2 DEF Range
    <3> QED
      BY <3>1, <3>2
  <2> QED
    BY <1>1, <2>1 DEF Range
<1>6. Range(a) \subseteq Range(s)
  <2>1. \A i \in 1..n : i \in 1..m
    BY <1>1 DEF m
  <2> QED
    BY <1>1, <1>2, <1>4, <2>1 DEF Range
<1>7. Range(b) \subseteq Range(s)
  <2>1. \A i \in 1..(m - n) : n + i \in 1..m
    BY <1>1 DEF m
  <2> QED
    BY <1>1, <1>3, <1>4, <2>1 DEF Range
<1> QED
  BY <1>2, <1>3, <1>5, <1>6, <1>7 DEF a, b, m

\* An element at the end, at the front, and the first one taken away.
LEMMA EndRanges ==
    ASSUME NEW T, NEW s \in Seq(T)
    PROVE  /\ \A e \in T : Range(Append(s, e)) = Range(s) \cup {e}
           /\ \A e \in T : Range(<<e>> \o s) = Range(s) \cup {e}
           /\ s # <<>> => Range(s) = {Head(s)} \cup Range(Tail(s))
<1>1. Len(s) \in Nat /\ DOMAIN s = 1..Len(s) /\ \A i \in DOMAIN s : s[i] \in T
  BY SeqBasics
<1>2. ASSUME NEW e \in T PROVE Range(<<e>> \o s) = Range(s) \cup {e}
  <2> DEFINE u == <<e>>
  <2>1. u \in Seq(T) /\ Range(u) = {e}
    BY DEF Range
  <2> HIDE DEF u
  <2>2. Range(u \o s) = Range(u) \cup Range(s)
    BY <2>1, JoinRange
  <2> QED
    BY <2>1, <2>2 DEF u
<1>3. ASSUME NEW e \in T PROVE Range(Append(s, e)) = Range(s) \cup {e}
  <2> DEFINE u == <<e>>
  <2>1. u \in Seq(T) /\ Range(u) = {e} /\ Append(s, e) = s \o u
    BY DEF Range
  <2> HIDE DEF u
  <2>2. Range(s \o u) = Range(s) \cup Range(u)
    BY <2>1, JoinRange
  <2> QED
    BY <2>1, <2>2
<1>4. ASSUME s # <<>> PROVE Range(s) = {Head(s)} \cup Range(Tail(s))
  <2> DEFINE t == Tail(s)
  <2>1. /\ Len(s) > 0 /\ Head(s) = s[1] /\ t \in Seq(T) /\ Len(t) = Len(s) - 1
        /\ \A i \in DOMAIN t : t[i] = s[i + 1]
    BY <1>4, EndFacts
  <2> HIDE DEF t
  <2>2. DOMAIN t = 1..(Len(s) - 1)
    BY <2>1, SeqBasics
  <2>3. ASSUME NEW i \in 1..Len(s) PROVE s[i] \in {s[1]} \cup Range(t)
    <3>1. CASE i = 1
      BY <3>1
    <3>2. CASE i # 1
      <4>1. i - 1 \in 1..(Len(s) - 1) /\ (i - 1) + 1 = i
        BY <1>1, <3>2
      <4>2. t[i - 1] = s[i]
        BY <2>1, <2>2, <4>1
      <4> QED
        BY <2>2, <4>1, <4>2 DEF Range
    <3> QED
      BY <3>1, <3>2
  <2>4. Range(s) \subseteq {s[1]} \cup Range(t)
    BY <1>1, <2>3 DEF Range
  <2>5. \A i \in 1..(Len(s) - 1) : i + 1 \in 1..Len(s)
    BY <1>1
  <2>6. Range(t) \subseteq Range(s)
    BY <1>1, <2>1, <2>2, <2>5 DEF Range
  <2>7. s[1] \in Range(s)
    <3>1. 1 \in 1..Len(s)
      BY <1>1, <2>1
    <3> QED
      BY <1>1, <3>1 DEF Range
  <2> QED
    BY <2>1, <2>4, <2>6, <2>7 DEF t
<1> QED
  BY <1>2, <1>3, <1>4

-----------------------------------------------------------------------------
(* Division, and sequences flattened one element after the other.           *)

\* Quotient and remainder.
LEMMA DivMod ==
    ASSUME NEW n \in Nat, NEW b \in Nat, b > 0
    PROVE  n \div b \in Nat /\ n % b \in 0..(b - 1) /\ n = b * (n \div b) + (n % b)
OBVIOUS

\* There is one quotient and one remainder.
LEMMA DivModUnique ==
    ASSUME NEW n \in Nat, NEW b \in Nat, b > 0, NEW t \in Nat, NEW r \in 0..(b - 1),
           n = b * t + r
    PROVE  n \div b = t /\ n % b = r
<1> DEFINE q == n \div b
           m == n % b
<1>1. q \in Nat /\ m \in 0..(b - 1) /\ n = b * q + m
  BY DivMod
<1> HIDE DEF q, m
<1>2. ASSUME q < t PROVE FALSE
  <2>1. b * (q + 1) <= b * t
    BY <1>1, <1>2
  <2> QED
    BY <1>1, <2>1
<1>3. ASSUME t < q PROVE FALSE
  <2>1. b * (t + 1) <= b * q
    BY <1>1, <1>3
  <2> QED
    BY <1>1, <2>1
<1>4. q = t
  BY <1>1, <1>2, <1>3
<1>5. m = r
  BY <1>1, <1>4
<1> QED
  BY <1>4, <1>5 DEF q, m

Traced(S, x0, step, n) ==
    \E f \in [0..n -> S] :
      f[0] = x0 /\ \A k \in 0..n : k # 0 => f[k] = step[<<k - 1, f[k - 1]>>]

\* The values of a function on 0..n, each from the one before.
LEMMA RecursionBack ==
    ASSUME NEW S, NEW x0 \in S, NEW step \in [Nat \X S -> S], NEW n \in Nat
    PROVE  Traced(S, x0, step, n)
<1>1. PICK f \in [0..n -> S] :
        f[0] = x0 /\ \A k \in 0..(n - 1) : f[k + 1] = step[<<k, f[k]>>]
  <2>1. Unrolled(S, x0, step, n)
    BY Recursion
  <2> QED
    BY <2>1 DEF Unrolled
<1>2. ASSUME NEW k \in 0..n, k # 0 PROVE f[k] = step[<<k - 1, f[k - 1]>>]
  <2>1. k - 1 \in 0..(n - 1) /\ (k - 1) + 1 = k
    BY <1>2
  <2>2. f[(k - 1) + 1] = step[<<k - 1, f[k - 1]>>]
    BY <1>1, <2>1
  <2> QED
    BY <2>1, <2>2
<1> QED
  BY <1>1, <1>2 DEF Traced

\* Flattening with one sequence more.
LEMMA FlattenAppend ==
    ASSUME NEW T, NEW s \in Seq(Seq(T)), NEW e \in Seq(T)
    PROVE  FlattenSeq(Append(s, e)) = FlattenSeq(s) \o e /\ FlattenSeq(s) \in Seq(T)
<1> DEFINE u == Append(s, e)
           n == Len(s)
<1>1. n \in Nat /\ DOMAIN s = 1..n
  BY SeqBasics
<1>2. u \in Seq(Seq(T)) /\ Len(u) = n + 1 /\ u[n + 1] = e /\ \A i \in 1..n : u[i] = s[i]
  BY <1>1, AppendFacts
<1>3. u # <<>>
  BY <1>1, <1>2
<1> HIDE DEF u
<1>4. PICK g \in [0..(Len(u) - 1) -> Seq(T)] :
        /\ g[0] = u[1]
        /\ \A k \in 0..(Len(u) - 2) : g[k + 1] = g[k] \o u[k + 2]
        /\ FlattenSeq(u) = g[Len(u) - 1]
  BY <1>2, <1>3, FlattenSteps
<1>5. CASE s = <<>>
  <2>1. n = 0 /\ FlattenSeq(s) = <<>>
    BY <1>5 DEF FlattenSeq
  <2>2. FlattenSeq(u) = e
    BY <1>2, <1>4, <2>1
  <2>3. <<>> \o e = e /\ <<>> \in Seq(T)
    OBVIOUS
  <2> QED
    BY <2>1, <2>2, <2>3 DEF u
<1>6. CASE s # <<>>
  <2>1. n > 0
    BY <1>6, SeqBasics
  <2>2. PICK f \in [0..(n - 1) -> Seq(T)] :
          /\ f[0] = s[1]
          /\ \A k \in 0..(n - 2) : f[k + 1] = f[k] \o s[k + 2]
          /\ FlattenSeq(s) = f[n - 1]
    BY <1>6, FlattenSteps
  <2> DEFINE P == {k \in 0..(n - 1) : g[k] = f[k]}
  <2>3. 0 \in P
    BY <1>1, <1>2, <1>4, <2>1, <2>2
  <2>4. ASSUME NEW k \in 0..((n - 1) - 1), k \in P PROVE k + 1 \in P
    <3>1. k \in 0..(n - 2) /\ k \in 0..(Len(u) - 2) /\ k + 2 \in 1..n /\ k + 1 \in 0..(n - 1)
      BY <1>1, <1>2
    <3>2. g[k + 1] = g[k] \o s[k + 2]
      BY <1>2, <1>4, <3>1
    <3> QED
      BY <2>2, <2>4, <3>1, <3>2
  <2>5. n - 1 \in P
    <3>1. n - 1 \in Nat /\ n - 1 \in 0..(n - 1)
      BY <1>1, <2>1
    <3> HIDE DEF P
    <3> QED
      BY <2>3, <2>4, <3>1, UpTo
  <2>6. n - 1 \in 0..(Len(u) - 2) /\ (n - 1) + 1 = Len(u) - 1 /\ (n - 1) + 2 = n + 1
    BY <1>1, <1>2, <2>1
  <2>7. g[(n - 1) + 1] = g[n - 1] \o u[(n - 1) + 2]
    BY <1>4, <2>6
  <2>8. FlattenSeq(u) = FlattenSeq(s) \o e
    BY <1>2, <1>4, <2>2, <2>5, <2>6, <2>7
  <2>9. f[n - 1] \in Seq(T)
    <3>1. n - 1 \in 0..(n - 1)
      BY <1>1, <2>1
    <3> HIDE DEF n
    <3> QED
      BY <2>2, <3>1
  <2> QED
    BY <2>2, <2>8, <2>9 DEF u
<1> QED
  BY <1>5, <1>6
=============================================================================
