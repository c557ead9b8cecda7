-------------------------- MODULE RangeScan_proofs --------------------------
(***************************************************************************)
(* Proofs about RangeScan: scans and interval queries give for each key    *)
(* what one reading of all sources at their start would show.              *)
(***************************************************************************)
EXTENDS RangeScan, ProofLemmas

-----------------------------------------------------------------------------
(* Records, and sets of them in order.                                      *)

Recs == [key : Keys \cup {0}, ver : Vers, del : BOOLEAN, n : Nat]
BeforeRel == {p \in Recs \X Recs : Before(p[1], p[2])}

\* No two writes have one number.
Numbered(S) == \A r, s \in S : r.n = s.n => r = s

\* The fields of a record are numbers.
LEMMA RecFields ==
    \A r \in Recs : /\ r.key \in Nat /\ r.key \in Keys \cup {0}
                    /\ r.ver \in Nat /\ r.ver \in 0..MaxVer /\ r.n \in Nat
<1>1. ASSUME NEW r \in Recs
      PROVE  r.key \in Keys \cup {0} /\ r.ver \in 1..MaxVer /\ r.n \in Nat
  BY DEF Recs, Vers
<1>2. ASSUME NEW r \in Recs PROVE r.key \in Nat
  <2>1. PICK k : k = r.key /\ k \in Keys \cup {0}
    BY <1>1
  <2>2. k = 0 => k \in Nat
    OBVIOUS
  <2>3. k \in Keys => k \in Nat
    BY KeysAssumption, Zenon
  <2> QED
    BY <2>1, <2>2, <2>3
<1>3. ASSUME NEW r \in Recs PROVE r.ver \in Nat /\ r.ver \in 0..MaxVer
  BY <1>1, BoundsAssumption
<1> QED
  BY <1>1, <1>2, <1>3

\* The order of records is strict and transitive, and tells records apart that
\* differ in key, version or number.
LEMMA RecOrders ==
    /\ \A r \in Recs : ~Before(r, r)
    /\ \A r, s, t \in Recs : Before(r, s) /\ Before(s, t) => Before(r, t)
    /\ \A r, s \in Recs : Before(r, s) \/ Before(s, r) \/ (SameSlot(r, s) /\ r.n = s.n)
    /\ \A r, s \in Recs : Before(r, s) => r.key <= s.key
    /\ \A r, s \in Recs : Before(r, s) /\ r.key = s.key => r.ver >= s.ver
    /\ \A r, s \in Recs : Before(r, s) /\ SameSlot(r, s) => r.n > s.n
<1>1. \A r \in Recs : r.key \in Nat /\ r.ver \in Nat /\ r.n \in Nat
  BY RecFields
<1>2. ASSUME NEW r \in Recs PROVE ~Before(r, r)
  BY <1>1 DEF Before
<1>3. ASSUME NEW r \in Recs, NEW s \in Recs, NEW t \in Recs
      PROVE  Before(r, s) /\ Before(s, t) => Before(r, t)
  BY <1>1 DEF Before, SameSlot
<1>4. ASSUME NEW r \in Recs, NEW s \in Recs
      PROVE  /\ Before(r, s) \/ Before(s, r) \/ (SameSlot(r, s) /\ r.n = s.n)
             /\ Before(r, s) => r.key <= s.key
             /\ Before(r, s) /\ r.key = s.key => r.ver >= s.ver
             /\ Before(r, s) /\ SameSlot(r, s) => r.n > s.n
  BY <1>1 DEF Before, SameSlot
<1> QED
  BY <1>2, <1>3, <1>4

\* What Sorted gives.
LEMMA SortedFacts ==
    ASSUME NEW S, S \subseteq Recs, IsFiniteSet(S), Numbered(S)
    PROVE  Sorted(S) \in Seq(Recs) /\ Range(Sorted(S)) = S /\ Ordered(Sorted(S), BeforeRel)
<1> DEFINE L == Sorted(S)
<1>1. StrictOrder(S, BeforeRel)
  <2>1. \A r, s \in S : <<r, s>> \in BeforeRel <=> Before(r, s)
    BY DEF BeforeRel
  <2>2. \A r, s \in S : r = s \/ Before(r, s) \/ Before(s, r)
    BY RecOrders DEF Numbered
  <2> QED
    BY <2>1, <2>2, RecOrders DEF StrictOrder
<1>2. Lists(L, S, BeforeRel)
  <2>1. L = [i \in 1..Cardinality(S) |->
               CHOOSE x \in S : Cardinality({y \in S : Before(y, x)}) = i - 1]
    BY DEF Sorted, InOrder
  <2> HIDE DEF L
  <2>2. ASSUME NEW x \in S PROVE {y \in S : Before(y, x)} = {y \in S : <<y, x>> \in BeforeRel}
    BY DEF BeforeRel
  <2>3. ASSUME NEW i \in 1..Cardinality(S), \E x \in S : Rank(x, S, BeforeRel) = i - 1
        PROVE  L[i] \in S /\ Rank(L[i], S, BeforeRel) = i - 1
    <3>1. \E x \in S : Cardinality({y \in S : Before(y, x)}) = i - 1
      BY <2>2, <2>3 DEF Rank
    <3>2. L[i] = CHOOSE x \in S : Cardinality({y \in S : Before(y, x)}) = i - 1
      BY <2>1
    <3>3. L[i] \in S /\ Cardinality({y \in S : Before(y, L[i])}) = i - 1
      BY <3>1, <3>2
    <3> QED
      BY <2>2, <3>3 DEF Rank
  <2>4. L = [i \in 1..Cardinality(S) |-> L[i]]
    <3> DEFINE g(i) == CHOOSE x \in S : Cardinality({y \in S : Before(y, x)}) = i - 1
    <3>1. L = [i \in 1..Cardinality(S) |-> g(i)]
      BY <2>1, Zenon
    <3> HIDE DEF g
    <3> QED
      BY <3>1
  <2> QED
    BY <2>3, <2>4 DEF Lists
<1> HIDE DEF L
<1>3. L \in Seq(S) /\ Range(L) = S /\ Ordered(L, BeforeRel)
  BY <1>1, <1>2, ListsFacts
<1>4. L \in Seq(Recs)
  BY <1>3
<1> QED
  BY <1>3, <1>4 DEF L

\* A sorted sequence of records, position by position.
LEMMA OrderedFacts ==
    ASSUME NEW s \in Seq(Recs), Ordered(s, BeforeRel)
    PROVE  \A i, j \in DOMAIN s :
             /\ i < j => Before(s[i], s[j])
             /\ i <= j => s[i].key <= s[j].key
             /\ i <= j /\ s[i].key = s[j].key => s[i].ver >= s[j].ver
             /\ i <= j /\ SameSlot(s[i], s[j]) => s[i].n >= s[j].n
<1>1. \A i \in DOMAIN s : s[i] \in Recs /\ i \in Nat
  BY SeqBasics
<1>2. ASSUME NEW i \in DOMAIN s, NEW j \in DOMAIN s, i < j PROVE Before(s[i], s[j])
  BY <1>2 DEF Ordered, BeforeRel
<1>3. ASSUME NEW i \in DOMAIN s, NEW j \in DOMAIN s, i <= j
      PROVE  /\ s[i].key <= s[j].key
             /\ s[i].key = s[j].key => s[i].ver >= s[j].ver
             /\ SameSlot(s[i], s[j]) => s[i].n >= s[j].n
  <2>1. PICK a, b : a = s[i] /\ b = s[j] /\ a \in Recs /\ b \in Recs
    BY <1>1
  <2>2. a.key \in Nat /\ a.ver \in Nat /\ a.n \in Nat /\ b.key \in Nat /\ b.ver \in Nat /\ b.n \in Nat
    BY <2>1, RecFields
  <2>3. CASE i = j
    BY <2>1, <2>2, <2>3
  <2>4. CASE i < j
    <3>1. Before(a, b)
      BY <1>2, <2>1, <2>4
    <3>2. /\ a.key <= b.key /\ (a.key = b.key => a.ver >= b.ver)
          /\ (SameSlot(a, b) => a.n > b.n)
      BY <2>1, <3>1, RecOrders
    <3> QED
      BY <2>1, <2>2, <3>2
  <2> QED
    BY <1>1, <1>3, <2>3, <2>4
<1> QED
  BY <1>2, <1>3

-----------------------------------------------------------------------------
(* Blocks, files and levels.                                                *)

KeysBelow(A, B) == \A r \in A, s \in B : r.key < s.key

\* Some blocks, none of them empty, in the order of their records, no key in two.
FileOk(f) ==
    /\ f \in Seq(Seq(Recs)) /\ f # <<>>
    /\ \A i \in DOMAIN f : f[i] # <<>> /\ Ordered(f[i], BeforeRel)
    /\ \A i, j \in DOMAIN f : i < j => KeysBelow(Range(f[i]), Range(f[j]))

\* Cutting a sorted sequence where the key changes.
LEMMA SplitFacts ==
    ASSUME NEW s \in Seq(Recs), Ordered(s, BeforeRel), s # <<>>, NEW C, C \subseteq Boundaries(s)
    PROVE  /\ FileOk(Split(s, C))
           /\ UNION {Range(Split(s, C)[j]) : j \in DOMAIN Split(s, C)} = Range(s)
<1> DEFINE n == Len(s)
           D == C \cup {n}
           e == InOrder(D, <)
           m == Len(e)
           lo(j) == IF j = 1 THEN 0 ELSE e[j - 1]
           part(j) == SubSeq(s, lo(j) + 1, e[j])
           f == Split(s, C)
<1>1. n \in Nat /\ n > 0 /\ DOMAIN s = 1..n /\ \A i \in 1..n : s[i] \in Recs
  BY SeqBasics
<1>2. \A i \in C : i \in 1..(n - 1) /\ s[i].key # s[i + 1].key
  BY DEF Boundaries
<1>3. D \subseteq 1..n /\ D \subseteq Nat /\ n \in D /\ \A d \in D : d # n => d \in C
  BY <1>1, <1>2
<1>4. IsFiniteSet(D)
  <2>1. IsFiniteSet(1..n)
    <3>1. 1 \in Int /\ n \in Int
      BY <1>1
    <3> HIDE DEF n
    <3> QED
      BY <3>1, FS_Interval
  <2> HIDE DEF D
  <2> QED
    BY <1>3, <2>1, FS_Subset
<1>5. e \in Seq(Nat) /\ Range(e) = D /\ \A p, r \in DOMAIN e : p < r => e[p] < e[r]
  <2> HIDE DEF D
  <2> QED
    BY <1>3, <1>4, ListedUp
<1> HIDE DEF e
<1>6. m \in Nat /\ DOMAIN e = 1..m
  BY <1>5, SeqBasics
<1>7. f = [j \in 1..m |-> part(j)]
  <2>1. f = [j \in DOMAIN e |-> SubSeq(s, IF j = 1 THEN 1 ELSE e[j - 1] + 1, e[j])]
    BY DEF Split, e
  <2>2. ASSUME NEW j \in 1..m PROVE (IF j = 1 THEN 1 ELSE e[j - 1] + 1) = lo(j) + 1
    OBVIOUS
  <2> HIDE DEF m, lo
  <2> QED
    BY <1>6, <2>1, <2>2
<1> HIDE DEF n, D, m, f
<1>8. ASSUME NEW j \in 1..m
      PROVE  /\ e[j] \in D /\ e[j] \in 1..n
             /\ lo(j) \in Nat /\ lo(j) < e[j]
             /\ \A i \in 1..m : i < j => e[i] < e[j] /\ e[i] <= lo(j)
  <2>1. \A i \in 1..m : e[i] \in D /\ e[i] \in 1..n
    BY <1>3, <1>5, <1>6 DEF Range
  <2>2. CASE j = 1
    <3>1. lo(j) = 0 /\ \A i \in 1..m : ~(i < j)
      BY <1>6, <2>2
    <3> QED
      BY <1>1, <2>1, <3>1
  <2>3. CASE j # 1
    <3>1. j - 1 \in 1..m /\ j - 1 < j /\ lo(j) = e[j - 1]
      BY <1>6, <2>3
    <3>2. e[j - 1] < e[j]
      BY <1>5, <1>6, <3>1
    <3>3. ASSUME NEW i \in 1..m, i < j PROVE e[i] < e[j] /\ e[i] <= e[j - 1]
      <4>1. i = j - 1 \/ i < j - 1
        BY <1>6, <3>3
      <4>2. e[i] < e[j] /\ (i < j - 1 => e[i] < e[j - 1])
        BY <1>5, <1>6, <3>1, <3>3
      <4>3. e[i] \in 1..n /\ e[j - 1] \in 1..n
        BY <2>1, <3>1
      <4> QED
        BY <4>1, <4>2, <4>3
    <3>4. e[j - 1] \in Nat
      BY <1>1, <2>1, <3>1
    <3> QED
      BY <2>1, <3>1, <3>2, <3>3, <3>4
  <2> QED
    BY <2>2, <2>3
<1>9. ASSUME NEW j \in 1..m
      PROVE  /\ part(j) \in Seq(Recs) /\ Len(part(j)) = e[j] - lo(j)
             /\ DOMAIN part(j) = 1..(e[j] - lo(j))
             /\ \A i \in 1..(e[j] - lo(j)) : part(j)[i] = s[lo(j) + i]
  <2>1. PICK a, b : a = lo(j) /\ b = e[j] /\ a \in Nat /\ b \in 1..n /\ a < b
    BY <1>8
  <2>2. a \in Nat /\ b \in 0..Len(s)
    BY <1>1, <2>1 DEF n
  <2>3. /\ SubSeq(s, a + 1, b) \in Seq(Recs)
        /\ Len(SubSeq(s, a + 1, b)) = IF a < b THEN b - a ELSE 0
        /\ \A i \in 1..(b - a) : SubSeq(s, a + 1, b)[i] = s[a + i]
    BY <2>2, CutFacts
  <2>4. part(j) = SubSeq(s, a + 1, b)
    BY <2>1
  <2> HIDE DEF part, lo
  <2>5. part(j) \in Seq(Recs) /\ Len(part(j)) = b - a
    BY <2>1, <2>3, <2>4
  <2>6. DOMAIN part(j) = 1..(b - a)
    BY <2>5, SeqBasics
  <2> QED
    BY <2>1, <2>3, <2>4, <2>5, <2>6
<1> HIDE DEF part, lo
<1>10. ASSUME NEW j \in 1..m
       PROVE  /\ \A x \in Range(part(j)) : \E i \in 1..n : lo(j) < i /\ i <= e[j] /\ x = s[i]
              /\ \A i \in 1..n : lo(j) < i /\ i <= e[j] => s[i] \in Range(part(j))
  <2>1. PICK a, b : a = lo(j) /\ b = e[j] /\ a \in Nat /\ b \in 1..n /\ a < b
    BY <1>8
  <2>2. DOMAIN part(j) = 1..(b - a) /\ \A i \in 1..(b - a) : part(j)[i] = s[a + i]
    BY <1>9, <2>1
  <2>3. ASSUME NEW x \in Range(part(j)) PROVE \E i \in 1..n : a < i /\ i <= b /\ x = s[i]
    <3>1. PICK i \in 1..(b - a) : x = part(j)[i]
      BY <2>2 DEF Range
    <3>2. a + i \in 1..n /\ a < a + i /\ a + i <= b
      BY <1>1, <2>1
    <3> QED
      BY <2>2, <3>1, <3>2
  <2>4. ASSUME NEW i \in 1..n, a < i, i <= b PROVE s[i] \in Range(part(j))
    <3>1. i - a \in 1..(b - a) /\ a + (i - a) = i
      BY <1>1, <2>1, <2>4
    <3>2. part(j)[i - a] = s[i]
      BY <2>2, <3>1
    <3> QED
      BY <2>2, <3>1, <3>2 DEF Range
  <2> QED
    BY <2>1, <2>3, <2>4
<1>11. ASSUME NEW j \in 1..m PROVE part(j) # <<>> /\ Ordered(part(j), BeforeRel)
  <2>1. PICK a, b : a = lo(j) /\ b = e[j] /\ a \in Nat /\ b \in 1..n /\ a < b
    BY <1>8
  <2>2. /\ part(j) \in Seq(Recs) /\ Len(part(j)) = b - a /\ DOMAIN part(j) = 1..(b - a)
        /\ \A i \in 1..(b - a) : part(j)[i] = s[a + i]
    BY <1>9, <2>1
  <2>3. part(j) # <<>>
    <3>1. b - a > 0
      BY <1>1, <2>1
    <3> HIDE DEF part
    <3>2. PICK p : p = part(j)
      OBVIOUS
    <3>3. p \in Seq(Recs) /\ Len(p) = b - a
      BY <2>2, <3>2
    <3>4. p # <<>>
      BY <3>1, <3>3
    <3> QED
      BY <3>2, <3>4
  <2>4. ASSUME NEW p \in 1..(b - a), NEW r \in 1..(b - a), p < r
        PROVE  <<part(j)[p], part(j)[r]>> \in BeforeRel
    <3>1. a + p \in 1..n /\ a + r \in 1..n /\ a + p < a + r
      BY <1>1, <2>1, <2>4, SMTT(20)
    <3>2. <<s[a + p], s[a + r]>> \in BeforeRel
      BY <1>1, <3>1 DEF Ordered
    <3> QED
      BY <2>2, <3>2
  <2> QED
    BY <2>2, <2>3, <2>4 DEF Ordered
<1>12. ASSUME NEW i \in 1..m, NEW j \in 1..m, i < j PROVE KeysBelow(Range(part(i)), Range(part(j)))
  <2>1. ASSUME NEW x \in Range(part(i)), NEW y \in Range(part(j)) PROVE x.key < y.key
    <3>1. PICK p \in 1..n : p <= e[i] /\ x = s[p]
      BY <1>10
    <3>2. PICK r \in 1..n : lo(j) < r /\ y = s[r]
      BY <1>10
    <3>3. PICK c : c = e[i] /\ c \in D /\ c \in 1..n /\ c < r /\ c # n
      <4>1. e[i] \in D /\ e[i] \in 1..n /\ e[i] <= lo(j) /\ e[i] < e[j] /\ e[j] \in 1..n /\ lo(j) \in Nat
        BY <1>8, <1>12
      <4> QED
        BY <1>1, <3>2, <4>1
    <3>4. c \in 1..(n - 1) /\ s[c].key # s[c + 1].key
      BY <1>2, <1>3, <3>3
    <3>5. c + 1 \in 1..n /\ c <= c + 1 /\ p <= c /\ c + 1 <= r
      BY <1>1, <3>1, <3>2, <3>3, <3>4
    <3>6. s[p].key <= s[c].key /\ s[c].key <= s[c + 1].key /\ s[c + 1].key <= s[r].key
      BY <1>1, <3>3, <3>5, OrderedFacts
    <3>7. s[p].key \in Nat /\ s[c].key \in Nat /\ s[c + 1].key \in Nat /\ s[r].key \in Nat
      BY <1>1, <3>3, <3>5, RecFields
    <3>8. PICK k1, k2, k3, k4 : /\ k1 = s[p].key /\ k2 = s[c].key /\ k3 = s[c + 1].key
                                /\ k4 = s[r].key
      OBVIOUS
    <3>9. /\ k1 \in Nat /\ k2 \in Nat /\ k3 \in Nat /\ k4 \in Nat /\ k2 # k3
          /\ k1 <= k2 /\ k2 <= k3 /\ k3 <= k4
      BY <3>4, <3>6, <3>7, <3>8
    <3>10. k1 < k4
      BY <3>9
    <3> QED
      BY <3>1, <3>2, <3>8, <3>10
  <2> QED
    BY <2>1 DEF KeysBelow
<1>13. ASSUME NEW i \in 1..n PROVE \E j \in 1..m : s[i] \in Range(part(j))
  <2> DEFINE J == {j \in 1..m : i <= e[j]}
  <2>1. PICK j0 \in 1..m : e[j0] = n
    BY <1>3, <1>5, <1>6 DEF Range
  <2>2. J \subseteq Nat /\ J # {}
    <3>1. i <= n
      BY <1>1
    <3> QED
      BY <1>6, <2>1, <3>1
  <2>3. PICK j : j \in J /\ \A k \in J : j <= k
    <3> HIDE DEF J
    <3> QED
      BY <2>2, MinNat
  <2>4. j \in 1..m /\ i <= e[j]
    BY <2>3
  <2>5. lo(j) < i
    <3>1. CASE j = 1
      BY <1>1, <3>1 DEF lo
    <3>2. CASE j # 1
      <4>1. j - 1 \in 1..m /\ ~(j <= j - 1) /\ lo(j) = e[j - 1]
        BY <1>6, <2>4, <3>2 DEF lo
      <4>2. ~(i <= e[j - 1])
        BY <2>3, <4>1
      <4>3. e[j - 1] \in Nat /\ i \in Nat
        BY <1>1, <1>8, <4>1
      <4> QED
        BY <4>1, <4>2, <4>3
    <3> QED
      BY <3>1, <3>2
  <2> QED
    BY <1>10, <2>4, <2>5
<1>14. DOMAIN f = 1..m /\ \A j \in 1..m : f[j] = part(j)
  BY <1>7
<1>15. f \in Seq(Seq(Recs))
  <2>1. f \in [1..m -> Seq(Recs)]
    BY <1>7, <1>9
  <2> QED
    BY <1>6, <2>1
<1>16. f # <<>>
  <2>1. PICK j \in 1..m : s[n] \in Range(part(j))
    <3>1. n \in 1..n
      BY <1>1
    <3> QED
      BY <1>13, <3>1
  <2>2. m > 0
    BY <1>6, <2>1
  <2>3. Len(f) = m
    BY <1>6, <1>14, <1>15, LenProperties
  <2> QED
    BY <1>15, <2>2, <2>3, SeqBasics
<1>17. FileOk(f)
  BY <1>11, <1>12, <1>14, <1>15, <1>16 DEF FileOk
<1>18. UNION {Range(f[j]) : j \in DOMAIN f} \subseteq Range(s)
  <2>1. ASSUME NEW j \in 1..m PROVE Range(part(j)) \subseteq Range(s)
    BY <1>1, <1>10 DEF Range
  <2> QED
    BY <1>14, <2>1
<1>19. Range(s) \subseteq UNION {Range(f[j]) : j \in DOMAIN f}
  <2>1. ASSUME NEW x \in Range(s) PROVE \E j \in 1..m : x \in Range(part(j))
    BY <1>1, <1>13 DEF Range
  <2> QED
    BY <1>14, <2>1
<1> QED
  BY <1>17, <1>18, <1>19 DEF f

\* The records of a file, one block after the other.
LEMMA FileRecords ==
    ASSUME NEW f, FileOk(f)
    PROVE  /\ Records(f) \in Seq(Recs) /\ Ordered(Records(f), BeforeRel)
           /\ Range(Records(f)) = UNION {Range(f[i]) : i \in DOMAIN f}
           /\ Range(Records(f)) # {}
<1>1. f \in Seq(Seq(Recs)) /\ f # <<>> /\ \A i \in DOMAIN f : f[i] # <<>> /\ Ordered(f[i], BeforeRel)
  BY DEF FileOk
<1>2. \A i \in DOMAIN f : f[i] \in Seq(Recs) /\ Range(f[i]) \subseteq Recs
  BY <1>1, SeqBasics, FiniteElements
<1>3. \A i, j \in DOMAIN f : i < j => AllBefore(Range(f[i]), Range(f[j]), BeforeRel)
  <2>1. ASSUME NEW i \in DOMAIN f, NEW j \in DOMAIN f, i < j,
               NEW x \in Range(f[i]), NEW y \in Range(f[j])
        PROVE  <<x, y>> \in BeforeRel
    <3>1. x \in Recs /\ y \in Recs
      BY <1>2
    <3>2. x.key < y.key
      BY <2>1 DEF FileOk, KeysBelow
    <3> QED
      BY <3>1, <3>2 DEF BeforeRel, Before
  <2> QED
    BY <2>1 DEF AllBefore
<1>4. /\ FlattenSeq(f) \in Seq(Recs)
      /\ Range(FlattenSeq(f)) = UNION {Range(f[i]) : i \in DOMAIN f}
      /\ Ordered(FlattenSeq(f), BeforeRel)
  BY <1>1, <1>3, FlattenFacts
<1>5. UNION {Range(f[i]) : i \in DOMAIN f} # {}
  <2>1. 1 \in DOMAIN f
    BY <1>1, SeqBasics
  <2>2. f[1] # <<>> /\ f[1] \in Seq(Recs)
    BY <1>1, <1>2, <2>1
  <2>3. 1 \in DOMAIN f[1]
    <3>1. Len(f[1]) \in Nat /\ Len(f[1]) > 0 /\ DOMAIN f[1] = 1..Len(f[1])
      BY <2>2, SeqBasics
    <3> QED
      BY <3>1
  <2>4. f[1][1] \in Range(f[1])
    BY <2>3 DEF Range
  <2> QED
    BY <2>1, <2>4
<1> QED
  BY <1>4, <1>5 DEF Records

FileRecs(f) == Range(Records(f))

\* The records of several files: in order if no key is in two of them.
LEMMA LevelFacts ==
    ASSUME NEW fs \in Seq(Seq(Seq(Recs))), \A i \in DOMAIN fs : FileOk(fs[i])
    PROVE  /\ LevelRecords(fs) \in Seq(Recs)
           /\ Range(LevelRecords(fs)) = UNION {FileRecs(fs[i]) : i \in DOMAIN fs}
           /\ (\A i, j \in DOMAIN fs : i < j => KeysBelow(FileRecs(fs[i]), FileRecs(fs[j])))
              => Ordered(LevelRecords(fs), BeforeRel)
<1> DEFINE s == [i \in DOMAIN fs |-> Records(fs[i])]
<1>1. Len(fs) \in Nat /\ DOMAIN fs = 1..Len(fs)
  BY SeqBasics
<1>2. \A i \in DOMAIN fs : /\ Records(fs[i]) \in Seq(Recs) /\ Ordered(Records(fs[i]), BeforeRel)
                          /\ FileRecs(fs[i]) \subseteq Recs
  BY FileRecords, FiniteElements DEF FileRecs
<1>3. DOMAIN s = DOMAIN fs /\ \A i \in DOMAIN fs : s[i] = Records(fs[i])
  OBVIOUS
<1>4. s \in Seq(Seq(Recs))
  <2>1. s \in [1..Len(fs) -> Seq(Recs)]
    BY <1>1, <1>2
  <2> QED
    BY <1>1, <2>1
<1>5. LevelRecords(fs) = FlattenSeq(s)
  BY DEF LevelRecords
<1> HIDE DEF s
<1>6. /\ FlattenSeq(s) \in Seq(Recs)
      /\ Range(FlattenSeq(s)) = UNION {Range(s[i]) : i \in DOMAIN s}
      /\ (\A i \in DOMAIN s : Ordered(s[i], BeforeRel))
           /\ (\A i, j \in DOMAIN s : i < j => AllBefore(Range(s[i]), Range(s[j]), BeforeRel))
         => Ordered(FlattenSeq(s), BeforeRel)
  BY <1>4, FlattenFacts
<1>7. \A i \in DOMAIN fs : Range(s[i]) = FileRecs(fs[i])
  BY <1>3 DEF FileRecs
<1>8. UNION {Range(s[i]) : i \in DOMAIN s} = UNION {FileRecs(fs[i]) : i \in DOMAIN fs}
  BY <1>3, <1>7
<1>9. ASSUME \A i, j \in DOMAIN fs : i < j => KeysBelow(FileRecs(fs[i]), FileRecs(fs[j]))
      PROVE  Ordered(FlattenSeq(s), BeforeRel)
  <2>1. ASSUME NEW i \in DOMAIN s, NEW j \in DOMAIN s, i < j
        PROVE  AllBefore(Range(s[i]), Range(s[j]), BeforeRel)
    <3>1. KeysBelow(FileRecs(fs[i]), FileRecs(fs[j]))
      BY <1>3, <1>9, <2>1
    <3>2. Range(s[i]) = FileRecs(fs[i]) /\ Range(s[j]) = FileRecs(fs[j])
          /\ FileRecs(fs[i]) \subseteq Recs /\ FileRecs(fs[j]) \subseteq Recs
      BY <1>2, <1>3, <1>7
    <3>3. ASSUME NEW x \in FileRecs(fs[i]), NEW y \in FileRecs(fs[j]) PROVE <<x, y>> \in BeforeRel
      BY <3>1, <3>2 DEF KeysBelow, BeforeRel, Before
    <3> QED
      BY <3>2, <3>3 DEF AllBefore
  <2> QED
    BY <1>2, <1>3, <1>6, <2>1
<1> QED
  BY <1>5, <1>6, <1>8, <1>9

LevelOk(fs) ==
    /\ fs \in Seq(Seq(Seq(Recs)))
    /\ \A i \in DOMAIN fs : FileOk(fs[i])
    /\ \A i, j \in DOMAIN fs : i < j => KeysBelow(FileRecs(fs[i]), FileRecs(fs[j]))

\* What a compaction writes is a level with all its records.
LEMMA LevelMade ==
    ASSUME NEW s \in Seq(Recs), Ordered(s, BeforeRel), s # <<>>, NEW F, F \subseteq Boundaries(s), NEW B
    PROVE  LevelOk(Level(s, F, B)) /\ Range(LevelRecords(Level(s, F, B))) = Range(s)
<1> DEFINE f == Split(s, F)
           C(j) == {i \in Boundaries(f[j]) : f[j][i] \in B}
           fs == Level(s, F, B)
<1>1. FileOk(f) /\ UNION {Range(f[j]) : j \in DOMAIN f} = Range(s)
  BY SplitFacts
<1>2. fs = [j \in DOMAIN f |-> Split(f[j], C(j))]
  BY DEF Level
<1> HIDE DEF f
<1>3. /\ Len(f) \in Nat /\ DOMAIN f = 1..Len(f)
      /\ \A j \in DOMAIN f : f[j] \in Seq(Recs) /\ f[j] # <<>> /\ Ordered(f[j], BeforeRel)
  <2>1. f \in Seq(Seq(Recs))
    BY <1>1 DEF FileOk
  <2> QED
    BY <1>1, <2>1, SeqBasics DEF FileOk
<1>4. ASSUME NEW j \in DOMAIN f
      PROVE  FileOk(Split(f[j], C(j))) /\ FileRecs(Split(f[j], C(j))) = Range(f[j])
  <2>1. C(j) \subseteq Boundaries(f[j])
    OBVIOUS
  <2> HIDE DEF C
  <2>2. /\ FileOk(Split(f[j], C(j)))
        /\ UNION {Range(Split(f[j], C(j))[i]) : i \in DOMAIN Split(f[j], C(j))} = Range(f[j])
    BY <1>3, <2>1, SplitFacts
  <2>3. Range(Records(Split(f[j], C(j)))) =
          UNION {Range(Split(f[j], C(j))[i]) : i \in DOMAIN Split(f[j], C(j))}
    BY <2>2, FileRecords
  <2> QED
    BY <2>2, <2>3 DEF FileRecs
<1> HIDE DEF fs, C
<1>5. DOMAIN fs = DOMAIN f /\ \A j \in DOMAIN f : FileOk(fs[j]) /\ FileRecs(fs[j]) = Range(f[j])
  BY <1>2, <1>4
<1>6. fs \in Seq(Seq(Seq(Recs)))
  <2>1. \A j \in DOMAIN f : Split(f[j], C(j)) \in Seq(Seq(Recs))
    BY <1>4 DEF FileOk
  <2>2. fs \in [1..Len(f) -> Seq(Seq(Recs))]
    BY <1>2, <1>3, <2>1
  <2> QED
    BY <1>3, <2>2
<1>7. LevelOk(fs)
  BY <1>1, <1>5, <1>6 DEF LevelOk, FileOk
<1>8. Range(LevelRecords(fs)) = UNION {FileRecs(fs[i]) : i \in DOMAIN fs}
  BY <1>5, <1>6, LevelFacts
<1>9. UNION {FileRecs(fs[i]) : i \in DOMAIN fs} = UNION {Range(f[j]) : j \in DOMAIN f}
  BY <1>5
<1> QED
  BY <1>1, <1>7, <1>8, <1>9 DEF fs

-----------------------------------------------------------------------------
(* The data: what flush and the writers keep.                               *)

\* Every record of A was written before every one of B.
Older(A, B) == \A r \in A, s \in B : r.n < s.n
OneEach(T) == \A r, s \in T : SameSlot(r, s) => r = s

Mem == cur \cup UNION Range(frozen)
Disk0 == UNION {FileRecs(l0[i]) : i \in DOMAIN l0}
Disk1 == Range(LevelRecords(l1))
Stored == Mem \cup Disk0 \cup Disk1

TablesOk ==
    /\ cur \subseteq Recs /\ IsFiniteSet(cur) /\ OneEach(cur)
    /\ frozen \in Seq(SUBSET Recs)
    /\ \A i \in DOMAIN frozen : frozen[i] # {} /\ IsFiniteSet(frozen[i]) /\ OneEach(frozen[i])
FilesOk == l0 \in Seq(Seq(Seq(Recs))) /\ (\A i \in DOMAIN l0 : FileOk(l0[i])) /\ LevelOk(l1)

\* Newer tables and files have the later writes.
TableOrder ==
    /\ \A i \in DOMAIN frozen : Older(frozen[i], cur)
    /\ \A i, j \in DOMAIN frozen : i < j => Older(frozen[j], frozen[i])
DiskOrder ==
    /\ \A i, j \in DOMAIN l0 : i < j => Older(FileRecs(l0[j]), FileRecs(l0[i]))
    /\ Older(Disk1, Disk0) /\ Older(Disk0 \cup Disk1, Mem)
Numbers ==
    /\ writes \in Nat
    /\ Numbered(Stored) /\ \A r \in Stored : r.n <= writes
DataInv == TablesOk /\ FilesOk /\ TableOrder /\ DiskOrder /\ Numbers

\* All records are records.
LEMMA StoredRecs ==
    ASSUME TablesOk, FilesOk
    PROVE  /\ Mem \subseteq Recs /\ Disk0 \subseteq Recs /\ Disk1 \subseteq Recs
           /\ \A i \in DOMAIN frozen : frozen[i] \subseteq Recs /\ frozen[i] \subseteq Mem
           /\ \A i \in DOMAIN l0 : FileRecs(l0[i]) \subseteq Recs /\ FileRecs(l0[i]) \subseteq Disk0
           /\ LevelRecords(l1) \in Seq(Recs) /\ Ordered(LevelRecords(l1), BeforeRel)
<1>1. \A i \in DOMAIN frozen : frozen[i] \subseteq Recs /\ frozen[i] \subseteq Mem
  <2>1. \A i \in DOMAIN frozen : frozen[i] \in SUBSET Recs /\ frozen[i] \in Range(frozen)
    BY SeqBasics DEF TablesOk, Range
  <2> QED
    BY <2>1 DEF Mem
<1>2. Mem \subseteq Recs
  <2>1. \A T \in Range(frozen) : T \subseteq Recs
    BY <1>1 DEF Range
  <2> QED
    BY <2>1 DEF Mem, TablesOk
<1>3. \A i \in DOMAIN l0 : FileRecs(l0[i]) \subseteq Recs
  BY FileRecords, FiniteElements DEF FilesOk, FileRecs
<1>4. LevelRecords(l1) \in Seq(Recs) /\ Ordered(LevelRecords(l1), BeforeRel)
  <2>1. l1 \in Seq(Seq(Seq(Recs))) /\ \A i \in DOMAIN l1 : FileOk(l1[i])
    BY DEF FilesOk, LevelOk
  <2>2. \A i, j \in DOMAIN l1 : i < j => KeysBelow(FileRecs(l1[i]), FileRecs(l1[j]))
    BY DEF FilesOk, LevelOk
  <2> QED
    BY <2>1, <2>2, LevelFacts
<1>5. Disk1 \subseteq Recs
  BY <1>4, FiniteElements DEF Disk1
<1>6. \A i \in DOMAIN l0 : FileRecs(l0[i]) \subseteq Disk0
  BY DEF Disk0
<1>7. Disk0 \subseteq Recs
  BY <1>3 DEF Disk0
<1> QED
  BY <1>1, <1>2, <1>3, <1>4, <1>5, <1>6, <1>7

\* All files of the engine, newest first.
LEMMA FilesFacts ==
    ASSUME FilesOk
    PROVE  /\ Files \in Seq(Seq(Seq(Recs))) /\ Len(Files) = Len(l0) + Len(l1)
           /\ Len(l0) \in Nat /\ Len(l1) \in Nat
           /\ \A i \in DOMAIN Files : FileOk(Files[i])
           /\ \A i \in DOMAIN l0 : i \in DOMAIN Files /\ Files[i] = l0[i]
           /\ \A i \in DOMAIN l1 : Len(l0) + i \in DOMAIN Files /\ Files[Len(l0) + i] = l1[i]
           /\ \A i \in DOMAIN Files : i \in DOMAIN l0 \/ i - Len(l0) \in DOMAIN l1
           /\ LevelRecords(Files) \in Seq(Recs)
           /\ Range(LevelRecords(Files)) = Disk0 \cup Disk1
           /\ Disk1 = UNION {FileRecs(l1[i]) : i \in DOMAIN l1}
<1>1. /\ l0 \in Seq(Seq(Seq(Recs))) /\ l1 \in Seq(Seq(Seq(Recs)))
      /\ \A i \in DOMAIN l0 : FileOk(l0[i])
      /\ \A i \in DOMAIN l1 : FileOk(l1[i])
  BY DEF FilesOk, LevelOk
<1>2. /\ Len(l0) \in Nat /\ DOMAIN l0 = 1..Len(l0) /\ Len(l1) \in Nat /\ DOMAIN l1 = 1..Len(l1)
  BY <1>1, SeqBasics
<1>3. /\ l0 \o l1 \in Seq(Seq(Seq(Recs))) /\ Len(l0 \o l1) = Len(l0) + Len(l1)
      /\ \A i \in DOMAIN l0 : (l0 \o l1)[i] = l0[i]
      /\ \A i \in DOMAIN l1 : (l0 \o l1)[Len(l0) + i] = l1[i]
  BY <1>1, ConcatFacts
<1>4. PICK F : F = Files /\ F = l0 \o l1
  BY DEF Files
<1>5. DOMAIN F = 1..(Len(l0) + Len(l1))
  BY <1>3, <1>4, SeqBasics
<1>6. \A i \in DOMAIN F : i \in DOMAIN l0 \/ (i - Len(l0) \in DOMAIN l1 /\ Len(l0) + (i - Len(l0)) = i)
  BY <1>2, <1>5
<1>7. /\ \A i \in DOMAIN l0 : i \in DOMAIN F /\ F[i] = l0[i]
      /\ \A i \in DOMAIN l1 : Len(l0) + i \in DOMAIN F /\ F[Len(l0) + i] = l1[i]
  BY <1>2, <1>3, <1>4, <1>5
<1>8. \A i \in DOMAIN F : FileOk(F[i])
  BY <1>1, <1>6, <1>7
<1>9. /\ LevelRecords(F) \in Seq(Recs)
      /\ Range(LevelRecords(F)) = UNION {FileRecs(F[i]) : i \in DOMAIN F}
  BY <1>3, <1>4, <1>8, LevelFacts
<1>10. Disk1 = UNION {FileRecs(l1[i]) : i \in DOMAIN l1}
  BY <1>1, LevelFacts DEF Disk1
<1>11. UNION {FileRecs(F[i]) : i \in DOMAIN F} = Disk0 \cup Disk1
  <2>1. ASSUME NEW i \in DOMAIN F PROVE FileRecs(F[i]) \subseteq Disk0 \cup Disk1
    <3>1. CASE i \in DOMAIN l0
      BY <1>7, <3>1 DEF Disk0
    <3>2. CASE i - Len(l0) \in DOMAIN l1 /\ Len(l0) + (i - Len(l0)) = i
      <4>1. F[i] = l1[i - Len(l0)]
        BY <1>7, <3>2
      <4> QED
        BY <1>10, <3>2, <4>1
    <3> QED
      BY <1>6, <3>1, <3>2
  <2>2. \A i \in DOMAIN l0 : FileRecs(l0[i]) \subseteq UNION {FileRecs(F[j]) : j \in DOMAIN F}
    BY <1>7
  <2>3. \A i \in DOMAIN l1 : FileRecs(l1[i]) \subseteq UNION {FileRecs(F[j]) : j \in DOMAIN F}
    BY <1>7
  <2> QED
    BY <1>10, <2>1, <2>2, <2>3 DEF Disk0
<1> QED
  BY <1>2, <1>3, <1>4, <1>6, <1>7, <1>8, <1>9, <1>10, <1>11

\* A write into the active table, which may be frozen then.
LEMMA StoreKeeps ==
    ASSUME DataInv, NEW r \in Recs, r.n = writes + 1, Store(r), writes' = writes + 1,
           UNCHANGED <<l0, l1>>
    PROVE  DataInv'
<1> DEFINE T == PutRec(cur, r)
<1>1. /\ T \subseteq cur \cup {r} /\ T # {} /\ OneEach(T) /\ T \subseteq Recs /\ IsFiniteSet(T)
  <2>1. T \subseteq cur \cup {r} /\ T # {}
    BY DEF PutRec
  <2>2. OneEach(T)
    BY DEF PutRec, OneEach, SameSlot, DataInv, TablesOk
  <2>3. IsFiniteSet(cur \cup {r}) /\ cur \cup {r} \subseteq Recs
    BY FS_AddElement DEF DataInv, TablesOk
  <2> HIDE DEF T
  <2> QED
    BY <2>1, <2>2, <2>3, FS_Subset
<1>2. \A s \in Stored : s.n \in Nat /\ s.n < r.n
  <2>1. \A s \in Stored : s \in Recs /\ s.n <= writes
    BY StoredRecs DEF DataInv, Stored, Numbers
  <2>2. writes \in Nat
    BY DEF DataInv, Numbers
  <2> QED
    BY <2>1, <2>2, RecFields
<1>3. Disk0' = Disk0 /\ Disk1' = Disk1
  BY DEF Disk0, Disk1
<1>4. /\ frozen \in Seq(SUBSET Recs) /\ Len(frozen) \in Nat /\ DOMAIN frozen = 1..Len(frozen)
      /\ \A i \in DOMAIN frozen : /\ frozen[i] # {} /\ IsFiniteSet(frozen[i]) /\ OneEach(frozen[i])
                                 /\ Older(frozen[i], cur) /\ frozen[i] \subseteq Mem
  BY SeqBasics, StoredRecs DEF DataInv, TablesOk, TableOrder
<1>5. \A i \in DOMAIN frozen : Older(frozen[i], T)
  <2>1. ASSUME NEW i \in DOMAIN frozen, NEW x \in frozen[i], NEW y \in T PROVE x.n < y.n
    <3>1. x \in Stored /\ (y \in cur \/ y = r)
      BY <1>1, <1>4 DEF Stored
    <3> QED
      BY <1>2, <1>4, <3>1 DEF Older
  <2> QED
    BY <2>1 DEF Older
<1> HIDE DEF T
<1>6. /\ Mem' \subseteq Mem \cup {r} /\ TablesOk' /\ TableOrder'
  <2>1. CASE cur' = T /\ UNCHANGED frozen
    <3>1. Mem' \subseteq Mem \cup {r}
      BY <1>1, <2>1 DEF Mem
    <3>2. TablesOk'
      BY <1>1, <2>1 DEF TablesOk, DataInv
    <3>3. TableOrder'
      BY <1>5, <2>1 DEF TableOrder, DataInv
    <3> QED
      BY <3>1, <3>2, <3>3
  <2>2. CASE cur' = {} /\ frozen' = <<T>> \o frozen
    <3>1. PICK F : F = frozen' /\ F = <<T>> \o frozen
      BY <2>2
    <3>2. /\ F \in Seq(SUBSET Recs) /\ Len(F) = Len(frozen) + 1 /\ F[1] = T
          /\ \A i \in DOMAIN frozen : F[i + 1] = frozen[i]
          /\ Range(F) = Range(frozen) \cup {T}
      <4>1. T \in SUBSET Recs
        BY <1>1
      <4> QED
        BY <1>4, <3>1, <4>1, PushFacts, EndRanges
    <3>3. DOMAIN F = 1..(Len(frozen) + 1)
      BY <3>2, SeqBasics
    <3>4. ASSUME NEW i \in DOMAIN F
          PROVE  (i = 1 /\ F[i] = T) \/ (i - 1 \in DOMAIN frozen /\ F[i] = frozen[i - 1])
      <4>1. i = 1 \/ (i - 1 \in DOMAIN frozen /\ (i - 1) + 1 = i)
        BY <1>4, <3>3
      <4> QED
        BY <3>2, <4>1
    <3>5. Mem' \subseteq Mem \cup {r}
      BY <1>1, <2>2, <3>1, <3>2 DEF Mem
    <3>6. IsFiniteSet({}) /\ OneEach({})
      BY FS_EmptySet DEF OneEach
    <3>7. TablesOk'
      BY <1>1, <1>4, <2>2, <3>1, <3>2, <3>4, <3>6 DEF TablesOk
    <3>8. ASSUME NEW i \in DOMAIN F, NEW j \in DOMAIN F, i < j PROVE Older(F[j], F[i])
      <4>1. j - 1 \in DOMAIN frozen /\ F[j] = frozen[j - 1]
        <5>1. j # 1
          BY <3>3, <3>8
        <5> QED
          BY <3>4, <5>1
      <4>2. CASE i = 1 /\ F[i] = T
        BY <1>5, <4>1, <4>2
      <4>3. CASE i - 1 \in DOMAIN frozen /\ F[i] = frozen[i - 1]
        <5>1. i - 1 < j - 1
          BY <3>3, <3>8
        <5> QED
          BY <4>1, <4>3, <5>1 DEF DataInv, TableOrder
      <4> QED
        BY <3>4, <4>2, <4>3
    <3>9. TableOrder'
      BY <2>2, <3>1, <3>8 DEF TableOrder, Older
    <3> QED
      BY <3>5, <3>7, <3>9
  <2> QED
    BY <2>1, <2>2 DEF Store, T
<1>7. FilesOk'
  BY DEF DataInv, FilesOk
<1>8. DiskOrder'
  <2>1. Older(Disk0 \cup Disk1, Mem')
    BY <1>2, <1>6 DEF DataInv, DiskOrder, Older, Stored
  <2> QED
    BY <1>3, <2>1 DEF DataInv, DiskOrder
<1>9. Numbers'
  <2>1. Stored' \subseteq Stored \cup {r}
    BY <1>3, <1>6 DEF Stored
  <2>2. Numbered(Stored \cup {r})
    BY <1>2 DEF Numbered, DataInv, Numbers
  <2>3. writes \in Nat /\ \A s \in Stored \cup {r} : s.n \in Nat /\ s.n <= writes + 1
    <3>1. writes \in Nat /\ r.n \in Nat
      BY RecFields DEF DataInv, Numbers
    <3> QED
      BY <1>2, <3>1
  <2> QED
    BY <2>1, <2>2, <2>3 DEF Numbers, Numbered
<1> QED
  BY <1>6, <1>7, <1>8, <1>9 DEF DataInv

\* The memory part of a flush: the oldest table leaves, the others stay.
LEMMA OldestTable ==
    ASSUME DataInv, NEW tables, tables = IF frozen = <<>> THEN <<cur>> ELSE frozen,
           frozen # <<>> \/ cur # {},
           frozen' = Front(tables), cur' = IF frozen = <<>> THEN {} ELSE cur
    PROVE  /\ Last(tables) \subseteq Recs /\ IsFiniteSet(Last(tables)) /\ Last(tables) # {}
           /\ Mem = Mem' \cup Last(tables) /\ Older(Last(tables), Mem')
           /\ TablesOk' /\ TableOrder'
<1>1. CASE frozen = <<>>
  <2>1. tables = <<cur>> /\ cur # {} /\ cur' = {}
    BY <1>1
  <2>2. Last(<<cur>>) = cur /\ Front(<<cur>>) = <<>>
    <3>1. <<cur>> \in Seq({cur}) /\ <<cur>> # <<>> /\ Len(<<cur>>) = 1
      OBVIOUS
    <3>2. PICK t : t = <<cur>>
      OBVIOUS
    <3>3. t \in Seq({cur}) /\ t # <<>> /\ Len(t) = 1 /\ t[1] = cur
      BY <3>1, <3>2
    <3>4. Last(t) = t[Len(t)] /\ Front(t) \in Seq({cur}) /\ Len(Front(t)) = Len(t) - 1
      BY <3>3, EndFacts
    <3>5. Front(t) = <<>>
      BY <3>3, <3>4, SeqBasics
    <3> QED
      BY <3>2, <3>3, <3>4, <3>5
  <2>3. frozen' = <<>> /\ Last(tables) = cur
    BY <2>1, <2>2
  <2>4. Range(<<>>) = {} /\ DOMAIN <<>> = {} /\ <<>> \in Seq(SUBSET Recs)
    BY DEF Range
  <2>5. Mem' = {} /\ Mem = cur
    BY <1>1, <2>1, <2>3, <2>4 DEF Mem
  <2>6. TablesOk' /\ TableOrder'
    <3>1. IsFiniteSet({}) /\ OneEach({})
      BY FS_EmptySet DEF OneEach
    <3> QED
      BY <2>1, <2>3, <2>4, <3>1 DEF TablesOk, TableOrder
  <2> QED
    BY <2>1, <2>3, <2>5, <2>6 DEF DataInv, TablesOk, Older
<1>2. CASE frozen # <<>>
  <2>1. tables = frozen /\ cur' = cur
    BY <1>2
  <2>2. frozen \in Seq(SUBSET Recs)
    BY DEF DataInv, TablesOk
  <2>3. PICK n, T, F : n = Len(frozen) /\ T = Last(frozen) /\ F = Front(frozen)
    OBVIOUS
  <2>4. /\ n \in Nat /\ n > 0 /\ DOMAIN frozen = 1..n /\ T = frozen[n] /\ n \in DOMAIN frozen
        /\ F \in Seq(SUBSET Recs) /\ Len(F) = n - 1
        /\ \A i \in DOMAIN F : F[i] = frozen[i]
    <3>1. /\ Len(frozen) \in Nat /\ Len(frozen) > 0 /\ DOMAIN frozen = 1..Len(frozen)
      BY <1>2, <2>2, SeqBasics
    <3>2. /\ Last(frozen) = frozen[Len(frozen)] /\ Front(frozen) \in Seq(SUBSET Recs)
          /\ Len(Front(frozen)) = Len(frozen) - 1
          /\ \A i \in DOMAIN Front(frozen) : Front(frozen)[i] = frozen[i]
      BY <1>2, <2>2, EndFacts
    <3> QED
      BY <2>3, <3>1, <3>2
  <2>5. DOMAIN F = 1..(n - 1)
    BY <2>4, SeqBasics
  <2>6. frozen' = F /\ Last(tables) = T
    BY <2>1, <2>3
  <2>7. Range(frozen) = Range(F) \cup {T}
    <3>1. ASSUME NEW i \in 1..n PROVE frozen[i] \in Range(F) \cup {T}
      <4>1. i = n \/ i \in DOMAIN F
        BY <2>4, <2>5
      <4> QED
        BY <2>4, <4>1 DEF Range
    <3>2. \A i \in DOMAIN F : i \in DOMAIN frozen
      BY <2>4, <2>5
    <3>3. Range(F) \subseteq Range(frozen) /\ T \in Range(frozen)
      BY <2>4, <3>2 DEF Range
    <3>4. Range(frozen) \subseteq Range(F) \cup {T}
      BY <2>4, <3>1 DEF Range
    <3> QED
      BY <3>3, <3>4
  <2>8. Mem = Mem' \cup T
    BY <2>1, <2>6, <2>7 DEF Mem
  <2>9. Older(T, Mem')
    <3>1. Older(T, cur)
      BY <2>4 DEF DataInv, TableOrder
    <3>2. ASSUME NEW i \in DOMAIN F PROVE Older(T, F[i])
      <4>1. i \in DOMAIN frozen /\ i < n
        BY <2>4, <2>5
      <4> QED
        BY <2>4, <4>1 DEF DataInv, TableOrder
    <3>3. \A U \in Range(F) : Older(T, U)
      BY <3>2 DEF Range
    <3> QED
      BY <2>1, <2>6, <3>1, <3>3 DEF Mem, Older
  <2>10. \A i \in DOMAIN F : i \in DOMAIN frozen /\ F[i] = frozen[i]
    BY <2>4, <2>5
  <2>11. TablesOk'
    BY <2>1, <2>4, <2>6, <2>10 DEF DataInv, TablesOk
  <2>12. TableOrder'
    BY <2>1, <2>6, <2>10 DEF DataInv, TableOrder
  <2>13. T \subseteq Recs /\ IsFiniteSet(T) /\ T # {}
    BY <2>4, StoredRecs DEF DataInv, TablesOk
  <2> QED
    BY <2>6, <2>8, <2>9, <2>11, <2>12, <2>13
<1> QED
  BY <1>1, <1>2

\* A flush, with the compaction of a full level 0.
LEMMA FlushKeeps ==
    ASSUME DataInv, Flush
    PROVE  DataInv'
<1>1. PICK tables : tables = IF frozen = <<>> THEN <<cur>> ELSE frozen
  OBVIOUS
<1>2. PICK T : T = Last(tables)
  OBVIOUS
<1>3. PICK M : M = Range(LevelRecords(l0 \o l1))
  OBVIOUS
<1>4. /\ frozen # <<>> \/ cur # {}
      /\ frozen' = Front(tables) /\ cur' = IF frozen = <<>> THEN {} ELSE cur
      /\ writes' = writes
  BY <1>1 DEF Flush
<1>5. PICK C \in SUBSET Boundaries(Sorted(T)) :
         l0' = <<Split(Sorted(T), C)>> \o (IF Len(l0) >= Ratio THEN <<>> ELSE l0)
  BY <1>1, <1>2 DEF Flush
<1>6. \/ ~(Len(l0) >= Ratio) /\ l1' = l1
      \/ /\ Len(l0) >= Ratio
         /\ \E F \in SUBSET Boundaries(Sorted(M)), B \in SUBSET {Sorted(M)[i] : i \in Boundaries(Sorted(M))} :
              l1' = Level(Sorted(M), F, B)
  BY <1>3 DEF Flush
<1>7. /\ T \subseteq Recs /\ IsFiniteSet(T) /\ T # {} /\ Mem = Mem' \cup T /\ Older(T, Mem')
      /\ TablesOk' /\ TableOrder'
  BY <1>1, <1>2, <1>4, OldestTable
<1>8. TablesOk /\ FilesOk /\ Numbered(Stored) /\ Older(Disk1, Disk0) /\ Older(Disk0 \cup Disk1, Mem)
  BY DEF DataInv, Numbers, DiskOrder
<1>9. PICK f : f = Split(Sorted(T), C) /\ FileOk(f) /\ FileRecs(f) = T
  <2>1. Numbered(T)
    BY <1>7, <1>8 DEF Numbered, Stored
  <2>2. /\ Sorted(T) \in Seq(Recs) /\ Range(Sorted(T)) = T /\ Ordered(Sorted(T), BeforeRel)
    BY <1>7, <2>1, SortedFacts
  <2>3. Sorted(T) # <<>>
    BY <1>7, <2>2 DEF Range
  <2>4. /\ FileOk(Split(Sorted(T), C))
        /\ UNION {Range(Split(Sorted(T), C)[j]) : j \in DOMAIN Split(Sorted(T), C)} = Range(Sorted(T))
    BY <2>2, <2>3, SplitFacts
  <2>5. FileRecs(Split(Sorted(T), C)) = T
    BY <2>2, <2>4, FileRecords DEF FileRecs
  <2> QED
    BY <2>4, <2>5
<1>10. f \in Seq(Seq(Recs)) /\ l0 \in Seq(Seq(Seq(Recs))) /\ Len(l0) \in Nat /\ DOMAIN l0 = 1..Len(l0)
  BY <1>8, <1>9, SeqBasics DEF FileOk, FilesOk
<1>11. CASE ~(Len(l0) >= Ratio)
  <2>1. PICK L : L = l0' /\ L = <<f>> \o l0
    BY <1>5, <1>9, <1>11
  <2>2. l1' = l1
    BY <1>6, <1>11
  <2>3. /\ L \in Seq(Seq(Seq(Recs))) /\ Len(L) = Len(l0) + 1 /\ L[1] = f
        /\ \A i \in DOMAIN l0 : L[i + 1] = l0[i]
    BY <1>10, <2>1, PushFacts
  <2>4. DOMAIN L = 1..(Len(l0) + 1)
    BY <2>3, SeqBasics
  <2>5. ASSUME NEW i \in DOMAIN L
        PROVE  (i = 1 /\ L[i] = f) \/ (i - 1 \in DOMAIN l0 /\ L[i] = l0[i - 1])
    <3>1. i = 1 \/ (i - 1 \in DOMAIN l0 /\ (i - 1) + 1 = i)
      BY <1>10, <2>4
    <3> QED
      BY <2>3, <3>1
  <2>6. \A i \in DOMAIN l0 : i + 1 \in DOMAIN L /\ L[i + 1] = l0[i]
    BY <1>10, <2>3, <2>4
  <2>7. Disk0' = Disk0 \cup T
    <3>1. Disk0' = UNION {FileRecs(L[i]) : i \in DOMAIN L}
      BY <2>1 DEF Disk0
    <3>2. \A i \in DOMAIN L : FileRecs(L[i]) \subseteq Disk0 \cup T
      BY <1>9, <2>5 DEF Disk0
    <3>3. \A i \in DOMAIN l0 : FileRecs(l0[i]) \subseteq UNION {FileRecs(L[j]) : j \in DOMAIN L}
      BY <2>6
    <3>4. 1 \in DOMAIN L
      BY <1>10, <2>4
    <3>5. T \subseteq UNION {FileRecs(L[j]) : j \in DOMAIN L}
      BY <1>9, <2>3, <3>4
    <3> QED
      BY <3>1, <3>2, <3>3, <3>5 DEF Disk0
  <2>8. Disk1' = Disk1
    BY <2>2 DEF Disk1
  <2>9. FilesOk'
    BY <1>8, <1>9, <2>1, <2>2, <2>3, <2>5 DEF FilesOk
  <2>10. ASSUME NEW i \in DOMAIN L, NEW j \in DOMAIN L, i < j
         PROVE  Older(FileRecs(L[j]), FileRecs(L[i]))
    <3>1. j - 1 \in DOMAIN l0 /\ L[j] = l0[j - 1]
      <4>1. j # 1
        BY <2>4, <2>10
      <4> QED
        BY <2>5, <4>1
    <3>2. CASE i = 1 /\ L[i] = f
      <4>1. FileRecs(l0[j - 1]) \subseteq Disk0
        BY <3>1 DEF Disk0
      <4> QED
        BY <1>7, <1>8, <1>9, <3>1, <3>2, <4>1 DEF Older
    <3>3. CASE i - 1 \in DOMAIN l0 /\ L[i] = l0[i - 1]
      <4>1. i - 1 < j - 1
        BY <2>4, <2>10
      <4> QED
        BY <3>1, <3>3, <4>1 DEF DataInv, DiskOrder
    <3> QED
      BY <2>5, <3>2, <3>3
  <2>11. DiskOrder'
    <3>1. Older(Disk1, Disk0 \cup T) /\ Older(Disk0 \cup T \cup Disk1, Mem')
      BY <1>7, <1>8 DEF Older
    <3> QED
      BY <2>1, <2>7, <2>8, <2>10, <3>1 DEF DiskOrder
  <2>12. Stored' = Stored
    BY <1>7, <2>7, <2>8 DEF Stored
  <2>13. Numbers'
    BY <1>4, <2>12 DEF Numbers, DataInv
  <2> QED
    BY <1>7, <2>9, <2>11, <2>13 DEF DataInv
<1>12. CASE Len(l0) >= Ratio
  <2>1. l0' = <<f>> /\ <<f>> \in Seq(Seq(Seq(Recs))) /\ DOMAIN <<f>> = {1} /\ <<f>>[1] = f
    <3>1. <<f>> \o <<>> = <<f>>
      BY <1>10
    <3>2. <<f>> \in Seq(Seq(Seq(Recs))) /\ DOMAIN <<f>> = {1} /\ <<f>>[1] = f
      BY <1>10
    <3> QED
      BY <1>5, <1>9, <1>12, <3>1, <3>2
  <2>2. PICK F, B : F \in SUBSET Boundaries(Sorted(M)) /\ l1' = Level(Sorted(M), F, B)
    BY <1>6, <1>12
  <2>3. M = Disk0 \cup Disk1 /\ IsFiniteSet(M) /\ M \subseteq Recs
    <3>1. LevelRecords(Files) \in Seq(Recs) /\ Range(LevelRecords(Files)) = Disk0 \cup Disk1
      BY <1>8, FilesFacts
    <3>2. LevelRecords(Files) = LevelRecords(l0 \o l1)
      BY DEF Files
    <3> QED
      BY <1>3, <3>1, <3>2, FiniteElements
  <2>4. M # {}
    <3>1. 1 \in DOMAIN l0
      BY <1>10, <1>12, RatioAssumption
    <3>2. FileOk(l0[1])
      BY <1>8, <3>1 DEF FilesOk
    <3>3. FileRecs(l0[1]) # {}
      BY <3>2, FileRecords DEF FileRecs
    <3> QED
      BY <2>3, <3>1, <3>3 DEF Disk0
  <2>5. Numbered(M)
    BY <1>8, <2>3 DEF Numbered, Stored
  <2>6. /\ Sorted(M) \in Seq(Recs) /\ Range(Sorted(M)) = M /\ Ordered(Sorted(M), BeforeRel)
    BY <2>3, <2>5, SortedFacts
  <2>7. Sorted(M) # <<>>
    BY <2>4, <2>6 DEF Range
  <2>8. LevelOk(Level(Sorted(M), F, B)) /\ Range(LevelRecords(Level(Sorted(M), F, B))) = M
    BY <2>2, <2>6, <2>7, LevelMade
  <2>9. LevelOk(l1') /\ Disk1' = M
    BY <2>2, <2>8 DEF Disk1
  <2>10. Disk0' = T
    BY <1>9, <2>1 DEF Disk0
  <2>11. FilesOk'
    BY <1>9, <2>1, <2>9 DEF FilesOk
  <2>12. DiskOrder'
    <3>1. Older(M, T) /\ Older(T \cup M, Mem')
      BY <1>7, <1>8, <2>3 DEF Older
    <3>2. \A i, j \in DOMAIN l0' : ~(i < j)
      BY <2>1
    <3> QED
      BY <2>9, <2>10, <3>1, <3>2 DEF DiskOrder
  <2>13. Stored' = Stored
    BY <1>7, <2>3, <2>9, <2>10 DEF Stored
  <2>14. Numbers'
    BY <1>4, <2>13 DEF Numbers, DataInv
  <2> QED
    BY <1>7, <2>11, <2>12, <2>14 DEF DataInv
<1> QED
  BY <1>11, <1>12

\* Writing, committing and flushing keep the data in order; nothing else
\* changes it.
LEMMA DataStep ==
    ASSUME DataInv, [RNext]_rvars
    PROVE  DataInv'
<1>1. ASSUME UNCHANGED <<data, writes>> PROVE DataInv'
  BY <1>1 DEF data, DataInv, TablesOk, FilesOk, TableOrder, DiskOrder, Numbers, Mem, Disk0, Disk1, Stored
<1>2. ASSUME NEW k \in Keys, NEW v \in Vers, NEW del \in BOOLEAN, Write(k, v, del) PROVE DataInv'
  <2>1. PICK r : r = [key |-> k, ver |-> v, del |-> del, n |-> writes + 1]
    OBVIOUS
  <2>2. writes + 1 \in Nat
    BY DEF DataInv, Numbers
  <2>3. r \in Recs /\ r.n = writes + 1
    BY <2>1, <2>2 DEF Recs
  <2>4. Store(r) /\ writes' = writes + 1 /\ UNCHANGED <<l0, l1>>
    BY <1>2, <2>1 DEF Write
  <2> QED
    BY <2>3, <2>4, StoreKeeps
<1>3. ASSUME NEW v \in Vers, Commit(v) PROVE DataInv'
  <2>1. PICK r : r = [key |-> 0, ver |-> v, del |-> TRUE, n |-> writes + 1]
    OBVIOUS
  <2>2. writes + 1 \in Nat
    BY DEF DataInv, Numbers
  <2>3. r \in Recs /\ r.n = writes + 1
    BY <2>1, <2>2 DEF Recs
  <2>4. Store(r) /\ writes' = writes + 1 /\ UNCHANGED <<l0, l1>>
    BY <1>3, <2>1 DEF Commit
  <2> QED
    BY <2>3, <2>4, StoreKeeps
<1>4. CASE Flush
  BY <1>4, FlushKeeps
<1>5. CASE UNCHANGED rvars
  BY <1>1, <1>5 DEF rvars
<1>6. ASSUME NEW v \in Vers, Abort(v) PROVE DataInv'
  BY <1>1, <1>6 DEF Abort
<1>7. ASSUME NEW cap \in Caps, ScanBegin(cap) PROVE DataInv'
  BY <1>1, <1>7 DEF ScanBegin
<1>8. ASSUME ScanL0 \/ ScanLevels \/ ScanStep \/ ScanNext \/ ScanDrop PROVE DataInv'
  BY <1>1, <1>8 DEF ScanL0, ScanLevels, ScanStep, ScanNext, ScanDrop
<1>9. ASSUME NEW cap \in Caps, NEW lo \in Keys, NEW hi \in Keys, RangeBegin(cap, lo, hi) PROVE DataInv'
  BY <1>1, <1>9 DEF RangeBegin
<1>10. ASSUME RangeFile \/ RangeReturn PROVE DataInv'
  BY <1>1, <1>10 DEF RangeFile, RangeReturn
<1> QED
  BY <1>2, <1>3, <1>4, <1>5, <1>6, <1>7, <1>8, <1>9, <1>10 DEF RNext

-----------------------------------------------------------------------------
(* What reading a set of records means.                                     *)

InCap(cap, r) == cap = 0 \/ r.ver <= cap

\* y is a better answer for its key than z.
Beats(y, z) == y.key = z.key /\ (y.ver > z.ver \/ (y.ver = z.ver /\ y.n > z.n))

\* Of one key and version the records of A are older than those of B.
SlotOlder(A, B) == \A r \in A, s \in B : SameSlot(r, s) => r.n < s.n

\* Y are the candidates that were read from X by now: none was hidden when the
\* read began, one that X has a later write for is beaten, and a record of X
\* without a candidate as good has been rolled back since.
Reads(cap, bef, ab, X, Y) ==
    /\ Y \subseteq X
    /\ \A y \in Y : InCap(cap, y) /\ y.ver \notin bef
    /\ \A y \in Y, x \in X : SameSlot(x, y) /\ x.n > y.n => \E z \in Y : Beats(z, y)
    /\ \A x \in X : InCap(cap, x) =>
         x.ver \in ab \/ \E y \in Y : y.key = x.key /\ y.ver >= x.ver

\* Z holds as good an answer as Y for every key.
Covers(Z, Y) == Z \subseteq Y /\ \A y \in Y : \E z \in Z : z = y \/ Beats(z, y)

\* The best record of each key.
Best(Y) == {r \in Y : \A s \in Y : s.key = r.key => s = r \/ Beats(r, s)}

\* Better is a strict order on the records of a key.
LEMMA BeatsFacts ==
    /\ \A r, s, t \in Recs : Beats(r, s) /\ Beats(s, t) => Beats(r, t)
    /\ \A r, s \in Recs : Beats(r, s) => ~Beats(s, r) /\ r # s /\ r.key = s.key /\ r.ver >= s.ver
    /\ \A r, s \in Recs : Before(r, s) /\ r.key = s.key => Beats(r, s)
<1>1. \A r \in Recs : r.key \in Nat /\ r.ver \in Nat /\ r.n \in Nat
  BY RecFields
<1>2. ASSUME NEW r \in Recs, NEW s \in Recs, NEW t \in Recs
      PROVE  Beats(r, s) /\ Beats(s, t) => Beats(r, t)
  BY <1>1 DEF Beats
<1>3. ASSUME NEW r \in Recs, NEW s \in Recs
      PROVE  /\ Beats(r, s) => ~Beats(s, r) /\ r # s /\ r.key = s.key /\ r.ver >= s.ver
             /\ Before(r, s) /\ r.key = s.key => Beats(r, s)
  BY <1>1 DEF Beats, Before, SameSlot
<1> QED
  BY <1>2, <1>3

\* Versions that are rolled back later leave a reading right.
LEMMA ReadsLater ==
    ASSUME NEW cap, NEW bef, NEW ab, NEW ab2, ab \subseteq ab2, NEW X, NEW Y,
           Reads(cap, bef, ab, X, Y)
    PROVE  Reads(cap, bef, ab2, X, Y)
BY DEF Reads

\* A newer source that was read before, and an older one that is read now.
LEMMA ReadsJoin ==
    ASSUME NEW cap, NEW bef, NEW ab, NEW X1, NEW Y1, NEW X2, NEW Y2,
           X1 \subseteq Recs, X2 \subseteq Recs,
           Reads(cap, bef, ab, X1, Y1), Reads(cap, bef, ab, X2, Y2),
           SlotOlder(X2, X1), \A y \in Y2 : y.ver \notin ab
    PROVE  Reads(cap, bef, ab, X1 \cup X2, Y1 \cup Y2)
<1> DEFINE X == X1 \cup X2
           Y == Y1 \cup Y2
<1>1. \A r \in Recs : r.key \in Nat /\ r.ver \in Nat /\ r.n \in Nat
  BY RecFields
<1>2. Y \subseteq X /\ \A y \in Y : InCap(cap, y) /\ y.ver \notin bef
  BY DEF Reads
<1>3. ASSUME NEW y \in Y, NEW x \in X, SameSlot(x, y), x.n > y.n
      PROVE  \E z \in Y : Beats(z, y)
  <2>1. x \in Recs /\ y \in Recs /\ SameSlot(y, x)
    BY <1>2, <1>3 DEF SameSlot
  <2>2. CASE y \in Y1 /\ x \in X1
    BY <1>3, <2>2 DEF Reads
  <2>3. CASE y \in Y2 /\ x \in X2
    BY <1>3, <2>3 DEF Reads
  <2>4. CASE y \in Y1 /\ x \in X2
    <3>1. x.n < y.n
      BY <1>3, <2>4 DEF Reads, SlotOlder
    <3> QED
      BY <1>1, <1>3, <2>1, <3>1
  <2>5. CASE y \in Y2 /\ x \in X1
    <3>1. x.ver = y.ver /\ x.key = y.key
      BY <1>3 DEF SameSlot
    <3>2. InCap(cap, x) /\ x.ver \notin ab
      BY <1>2, <2>5, <3>1 DEF InCap
    <3>3. PICK z \in Y1 : z.key = x.key /\ z.ver >= x.ver
      BY <2>5, <3>2 DEF Reads
    <3>4. z \in X1 /\ z \in Recs /\ y \in X2
      BY <2>5 DEF Reads
    <3>5. z.ver = y.ver => z.n > y.n
      <4>1. SUFFICES ASSUME z.ver = y.ver PROVE z.n > y.n
        OBVIOUS
      <4>2. SameSlot(y, z)
        BY <3>1, <3>3, <4>1 DEF SameSlot
      <4>3. y.n < z.n
        BY <3>4, <4>2 DEF SlotOlder
      <4> QED
        BY <1>1, <2>1, <3>4, <4>3
    <3>6. z.ver > y.ver \/ z.ver = y.ver
      BY <1>1, <2>1, <3>1, <3>3, <3>4
    <3>7. Beats(z, y)
      BY <3>1, <3>3, <3>5, <3>6 DEF Beats
    <3> QED
      BY <3>7
  <2> QED
    BY <2>2, <2>3, <2>4, <2>5
<1>4. ASSUME NEW x \in X, InCap(cap, x)
      PROVE  x.ver \in ab \/ \E y \in Y : y.key = x.key /\ y.ver >= x.ver
  BY <1>4 DEF Reads
<1> QED
  BY <1>2, <1>3, <1>4 DEF Reads

\* Candidates that are beaten may be dropped.
LEMMA ReadsCovered ==
    ASSUME NEW cap, NEW bef, NEW ab, NEW X, NEW Y, NEW Z, X \subseteq Recs,
           Reads(cap, bef, ab, X, Y), Covers(Z, Y)
    PROVE  Reads(cap, bef, ab, X, Z)
<1>1. Y \subseteq Recs /\ Z \subseteq Recs /\ Z \subseteq Y /\ Z \subseteq X
  BY DEF Reads, Covers
<1>2. \A y \in Z : InCap(cap, y) /\ y.ver \notin bef
  BY <1>1 DEF Reads
<1>3. ASSUME NEW y \in Z, NEW x \in X, SameSlot(x, y), x.n > y.n
      PROVE  \E z \in Z : Beats(z, y)
  <2>1. PICK z \in Y : Beats(z, y)
    BY <1>1, <1>3 DEF Reads
  <2>2. PICK t \in Z : t = z \/ Beats(t, z)
    BY DEF Covers
  <2>3. Beats(t, y)
    <3>1. t \in Recs /\ z \in Recs /\ y \in Recs
      BY <1>1
    <3> QED
      BY <2>1, <2>2, <3>1, BeatsFacts
  <2> QED
    BY <2>3
<1>4. ASSUME NEW x \in X, InCap(cap, x), x.ver \notin ab
      PROVE  \E y \in Z : y.key = x.key /\ y.ver >= x.ver
  <2>1. PICK y \in Y : y.key = x.key /\ y.ver >= x.ver
    BY <1>4 DEF Reads
  <2>2. PICK z \in Z : z = y \/ Beats(z, y)
    BY DEF Covers
  <2>3. z \in Recs /\ y \in Recs /\ x \in Recs
    BY <1>1
  <2>4. z = y \/ (z.key = y.key /\ z.ver >= y.ver)
    BY <2>2, <2>3, BeatsFacts
  <2>5. z.ver \in Nat /\ y.ver \in Nat /\ x.ver \in Nat
    BY <2>3, RecFields
  <2>6. z.key = x.key /\ z.ver >= x.ver
    BY <2>1, <2>4, <2>5
  <2> QED
    BY <2>6
<1> QED
  BY <1>1, <1>2, <1>3, <1>4 DEF Reads

\* A reading seen for some keys only.
LEMMA ReadsKeys ==
    ASSUME NEW cap, NEW bef, NEW ab, NEW X, NEW Y, NEW X2, NEW Y2, NEW U,
           Reads(cap, bef, ab, X, Y),
           X2 \subseteq X, \A x \in X : x \in X2 <=> x.key \in U,
           Y2 \subseteq Y, \A y \in Y : y \in Y2 <=> y.key \in U
    PROVE  Reads(cap, bef, ab, X2, Y2)
<1>1. Y2 \subseteq X2 /\ \A y \in Y2 : InCap(cap, y) /\ y.ver \notin bef
  BY DEF Reads
<1>2. ASSUME NEW y \in Y2, NEW x \in X2, SameSlot(x, y), x.n > y.n
      PROVE  \E z \in Y2 : Beats(z, y)
  <2>1. PICK z \in Y : Beats(z, y)
    BY <1>2 DEF Reads
  <2>2. z \in Y2
    BY <2>1 DEF Beats
  <2> QED
    BY <2>1, <2>2
<1>3. ASSUME NEW x \in X2, InCap(cap, x), x.ver \notin ab
      PROVE  \E y \in Y2 : y.key = x.key /\ y.ver >= x.ver
  <2>1. PICK y \in Y : y.key = x.key /\ y.ver >= x.ver
    BY <1>3 DEF Reads
  <2>2. y \in Y2
    BY <2>1
  <2> QED
    BY <2>1, <2>2
<1> QED
  BY <1>1, <1>2, <1>3 DEF Reads

\* Some records, all of them looked at in one moment.
LEMMA VisibleReads ==
    ASSUME NEW cap, NEW bef, bef \subseteq aborted, NEW X, X \subseteq Recs
    PROVE  Reads(cap, bef, aborted, X, {x \in X : Visible(x, cap)})
<1> DEFINE Y == {x \in X : Visible(x, cap)}
<1>1. \A x \in X : x \in Y <=> InCap(cap, x) /\ x.ver \notin aborted
  BY DEF Visible, InCap
<1>2. Y \subseteq X /\ \A y \in Y : InCap(cap, y) /\ y.ver \notin bef
  BY <1>1
<1>3. ASSUME NEW y \in Y, NEW x \in X, SameSlot(x, y), x.n > y.n PROVE \E z \in Y : Beats(z, y)
  <2>1. x \in Y /\ Beats(x, y)
    BY <1>1, <1>3 DEF SameSlot, Beats, InCap
  <2> QED
    BY <2>1
<1>4. ASSUME NEW x \in X, InCap(cap, x), x.ver \notin aborted
      PROVE  \E y \in Y : y.key = x.key /\ y.ver >= x.ver
  <2>1. x \in Y /\ x.ver >= x.ver
    BY <1>1, <1>4, RecFields
  <2> QED
    BY <2>1
<1> QED
  BY <1>2, <1>3, <1>4 DEF Reads

\* Every key that has records has a best one, and only one.
LEMMA BestCovers ==
    ASSUME NEW Y, Y \subseteq Recs, Numbered(Y), NEW b \in Nat, \A y \in Y : y.n <= b
    PROVE  /\ Covers(Best(Y), Y)
           /\ \A r, s \in Best(Y) : r.key = s.key => r = s
<1>1. \A r \in Y : r.key \in Nat /\ r.ver \in 0..MaxVer /\ r.ver \in Nat /\ r.n \in 0..b /\ r.n \in Nat
  <2>1. ASSUME NEW r \in Y PROVE r.n \in 0..b
    BY RecFields
  <2> QED
    BY <2>1, RecFields
<1>2. ASSUME NEW y \in Y PROVE \E z \in Best(Y) : z = y \/ Beats(z, y)
  <2> DEFINE A == {s \in Y : s.key = y.key}
             V == {s.ver : s \in A}
             v == Max(V)
             B == {s \in A : s.ver = v}
             N == {s.n : s \in B}
             m == Max(N)
  <2>1. V \subseteq 0..MaxVer /\ V # {}
    BY <1>1
  <2>2. v \in V /\ \A u \in V : u <= v
    <3> HIDE DEF V
    <3> QED
      BY <2>1, BoundsAssumption, MaxBounded
  <2>3. B # {} /\ \A s \in A : s.ver <= v
    <3> HIDE DEF v
    <3> QED
      BY <2>2
  <2> HIDE DEF v
  <2>4. N \subseteq 0..b /\ N # {}
    BY <1>1, <2>3
  <2>5. m \in N /\ \A u \in N : u <= m
    <3> HIDE DEF N
    <3> QED
      BY <2>4, MaxBounded
  <2> HIDE DEF m
  <2>6. PICK z \in B : z.n = m
    BY <2>5
  <2>7. z \in Y /\ z.key = y.key /\ z.ver = v
    OBVIOUS
  <2>8. \A s \in B : s.n <= z.n
    BY <2>5, <2>6
  <2>9. ASSUME NEW s \in Y, s.key = z.key, s # z PROVE Beats(z, s)
    <3>1. s \in A /\ s.ver <= z.ver
      BY <2>3, <2>7, <2>9
    <3>2. s.ver = z.ver => s.n <= z.n /\ s.n # z.n
      BY <2>7, <2>8, <2>9, <3>1 DEF Numbered
    <3>3. s.ver \in Nat /\ z.ver \in Nat /\ s.n \in Nat /\ z.n \in Nat
      BY <1>1, <2>7
    <3>4. z.ver > s.ver \/ (z.ver = s.ver /\ z.n > s.n)
      BY <3>1, <3>2, <3>3
    <3> QED
      BY <2>9, <3>4 DEF Beats
  <2>10. z \in Best(Y)
    BY <2>7, <2>9 DEF Best
  <2>11. z = y \/ Beats(z, y)
    BY <2>7, <2>9
  <2> QED
    BY <2>10, <2>11
<1>3. ASSUME NEW r \in Best(Y), NEW s \in Best(Y), r.key = s.key PROVE r = s
  <2>1. r \in Recs /\ s \in Recs /\ (s = r \/ Beats(r, s)) /\ (r = s \/ Beats(s, r))
    BY <1>3 DEF Best
  <2> QED
    BY <2>1, BeatsFacts
<1>4. Best(Y) \subseteq Y
  BY DEF Best
<1> QED
  BY <1>2, <1>3, <1>4 DEF Covers

\* What is known of a record that no candidate beats.
LEMMA Unbeaten ==
    ASSUME NEW cap, NEW bef, NEW ab, NEW X, NEW Y, X \subseteq Recs,
           Reads(cap, bef, ab, X, Y), NEW r \in Y,
           \A y \in Y : y.key = r.key => y.ver < r.ver \/ (y.ver = r.ver /\ y.n <= r.n)
    PROVE  /\ r \in X /\ InCap(cap, r) /\ r.ver \notin bef
           /\ \A x \in X : SameSlot(r, x) => x.n <= r.n
           /\ \A x \in X : x.key = r.key /\ InCap(cap, x) /\ x.ver > r.ver => x.ver \in ab
<1>1. \A x \in X : x.key \in Nat /\ x.ver \in Nat /\ x.n \in Nat
  BY RecFields
<1>2. Y \subseteq X /\ r \in X /\ InCap(cap, r) /\ r.ver \notin bef
  BY DEF Reads
<1>3. ASSUME NEW x \in X, SameSlot(r, x) PROVE x.n <= r.n
  <2>1. SUFFICES ASSUME x.n > r.n PROVE FALSE
    BY <1>1, <1>2
  <2>2. SameSlot(x, r)
    BY <1>3 DEF SameSlot
  <2>3. PICK z \in Y : Beats(z, r)
    BY <2>1, <2>2 DEF Reads
  <2>4. z.key = r.key /\ (z.ver > r.ver \/ (z.ver = r.ver /\ z.n > r.n))
    BY <2>3 DEF Beats
  <2>5. z.ver < r.ver \/ (z.ver = r.ver /\ z.n <= r.n)
    BY <2>4
  <2>6. z \in X
    BY <1>2
  <2> QED
    BY <1>1, <1>2, <2>4, <2>5, <2>6
<1>4. ASSUME NEW x \in X, x.key = r.key, InCap(cap, x), x.ver > r.ver, x.ver \notin ab PROVE FALSE
  <2>1. PICK y \in Y : y.key = x.key /\ y.ver >= x.ver
    BY <1>4 DEF Reads
  <2>2. y \in X /\ (y.ver < r.ver \/ y.ver = r.ver)
    BY <1>2, <1>4, <2>1
  <2> QED
    BY <1>1, <1>2, <1>4, <2>1, <2>2
<1> QED
  BY <1>2, <1>3, <1>4

-----------------------------------------------------------------------------
(* Heaps.                                                                   *)

\* Of one key and version a source has one item, and the newer source the
\* later write.
PriOk(items) ==
    /\ \A a \in items : a.r \in Recs /\ a.pri \in Int
    /\ \A a, b \in items : SameSlot(a.r, b.r) =>
         /\ a.pri > b.pri => a.r.n > b.r.n
         /\ a.pri = b.pri => a = b

Candidates(items) == {a.r : a \in items}

\* The heap keeps the best candidate of each key.
LEMMA WinnersBest ==
    ASSUME NEW items, PriOk(items)
    PROVE  Winners(items) = Best(Candidates(items))
<1>1. \A a \in items : a.r \in Recs /\ a.pri \in Int
                       /\ a.r.key \in Nat /\ a.r.ver \in Nat /\ a.r.n \in Nat
  BY RecFields DEF PriOk
<1>2. ASSUME NEW a \in items, \A y \in items : y.r.key = a.r.key => y = a \/ Wins(a, y)
      PROVE  a.r \in Best(Candidates(items))
  <2>1. ASSUME NEW y \in items, y.r.key = a.r.key PROVE y.r = a.r \/ Beats(a.r, y.r)
    <3>1. SUFFICES ASSUME y # a PROVE Beats(a.r, y.r)
      OBVIOUS
    <3>2. Wins(a, y)
      BY <1>2, <2>1, <3>1
    <3>3. a.r.ver = y.r.ver => SameSlot(a.r, y.r)
      BY <2>1 DEF SameSlot
    <3> QED
      BY <2>1, <3>2, <3>3 DEF Wins, Beats, PriOk
  <2> QED
    BY <2>1 DEF Best, Candidates
<1>3. ASSUME NEW r \in Best(Candidates(items)) PROVE r \in Winners(items)
  <2>1. PICK a \in items : r = a.r
    BY DEF Best, Candidates
  <2>2. ASSUME NEW y \in items, y.r.key = a.r.key, y # a PROVE Wins(a, y)
    <3>1. y.r = a.r \/ Beats(a.r, y.r)
      BY <2>1, <2>2 DEF Best, Candidates
    <3>2. SameSlot(a.r, y.r) => a.pri # y.pri /\ (a.pri > y.pri => a.r.n > y.r.n)
                                              /\ (y.pri > a.pri => y.r.n > a.r.n)
      <4>1. SameSlot(a.r, y.r) => SameSlot(y.r, a.r)
        BY DEF SameSlot
      <4> QED
        BY <2>2, <4>1 DEF PriOk
    <3>3. a.r.ver = y.r.ver => SameSlot(a.r, y.r)
      BY <2>2 DEF SameSlot
    <3>4. PICK p, q1, n1, n2, v1, v2 : p = a.pri /\ q1 = y.pri /\ n1 = a.r.n /\ n2 = y.r.n
                                       /\ v1 = a.r.ver /\ v2 = y.r.ver
      OBVIOUS
    <3>5. /\ p \in Int /\ q1 \in Int /\ n1 \in Nat /\ n2 \in Nat /\ v1 \in Nat /\ v2 \in Nat
          /\ v1 = v2 => p # q1 /\ (p > q1 => n1 > n2) /\ (q1 > p => n2 > n1)
          /\ (v1 = v2 /\ n1 = n2) \/ v1 > v2 \/ (v1 = v2 /\ n1 > n2)
      BY <1>1, <3>1, <3>2, <3>3, <3>4 DEF Beats
    <3>6. v1 > v2 \/ (v1 = v2 /\ p > q1)
      BY <3>5
    <3> QED
      BY <3>4, <3>6 DEF Wins
  <2> QED
    BY <2>1, <2>2 DEF Winners
<1>4. \A r \in Winners(items) : r \in Best(Candidates(items))
  BY <1>2 DEF Winners
<1> QED
  BY <1>3, <1>4

\* One record a key, in the order of the keys.
HeapSeq(s) == s \in Seq(Recs) /\ \A i, j \in DOMAIN s : i < j => s[i].key < s[j].key

\* What a heap that was filled with some of the records S holds.
LEMMA HeapFacts ==
    ASSUME NEW S, S \subseteq Recs, IsFiniteSet(S), Numbered(S), NEW b \in Nat, \A r \in S : r.n <= b,
           NEW items, PriOk(items), Candidates(items) \subseteq S
    PROVE  /\ HeapSeq(Heap(items)) /\ Range(Heap(items)) = Winners(items)
           /\ Covers(Winners(items), Candidates(items))
<1> DEFINE Y == Candidates(items)
           W == Winners(items)
<1>1. W = Best(Y)
  BY WinnersBest
<1>2. Y \subseteq Recs /\ Numbered(Y) /\ \A y \in Y : y.n <= b
  <2>1. Y \subseteq S
    OBVIOUS
  <2> HIDE DEF Y
  <2> QED
    BY <2>1 DEF Numbered
<1>3. Covers(W, Y) /\ \A r, s \in W : r.key = s.key => r = s
  <2> HIDE DEF Y, W
  <2> QED
    BY <1>1, <1>2, BestCovers
<1>4. W \subseteq Recs /\ IsFiniteSet(W) /\ Numbered(W)
  <2>1. W \subseteq S
    BY <1>3 DEF Covers
  <2> HIDE DEF W
  <2> QED
    BY <2>1, FS_Subset DEF Numbered
<1> HIDE DEF Y, W
<1>5. PICK s : s = Sorted(W)
  OBVIOUS
<1>6. s \in Seq(Recs) /\ Range(s) = W /\ Ordered(s, BeforeRel)
  BY <1>4, <1>5, SortedFacts
<1>7. ASSUME NEW i \in DOMAIN s, NEW j \in DOMAIN s, i < j PROVE s[i].key < s[j].key
  <2>1. Before(s[i], s[j]) /\ s[i].key <= s[j].key
    <3>1. i <= j
      BY <1>6, <1>7, SeqBasics
    <3> QED
      BY <1>6, <1>7, <3>1, OrderedFacts
  <2>2. s[i] \in W /\ s[j] \in W
    BY <1>6 DEF Range
  <2>3. s[i] # s[j]
    BY <1>4, <2>1, <2>2, RecOrders
  <2>4. s[i].key # s[j].key
    BY <1>3, <2>2, <2>3
  <2>5. s[i].key \in Nat /\ s[j].key \in Nat
    BY <1>4, <2>2, RecFields
  <2> QED
    BY <2>1, <2>4, <2>5
<1>8. Heap(items) = s
  BY <1>5 DEF Heap, W
<1> QED
  BY <1>3, <1>6, <1>7, <1>8 DEF HeapSeq, W, Y

-----------------------------------------------------------------------------
(* Files.                                                                   *)

\* An SST iterator shows a best visible record of each key, and one a key.
LEMMA HeadsFacts ==
    ASSUME NEW s \in Seq(Recs), Ordered(s, BeforeRel), NEW cap
    PROVE  /\ Covers(Heads(s, cap), {x \in Range(s) : Visible(x, cap)})
           /\ \A r, t \in Heads(s, cap) : r.key = t.key => r = t
<1> DEFINE First(i) == /\ Visible(s[i], cap)
                       /\ \A j \in 1..(i - 1) : s[j].key = s[i].key => ~Visible(s[j], cap)
           Y == {x \in Range(s) : Visible(x, cap)}
<1>1. Heads(s, cap) = {s[i] : i \in {k \in DOMAIN s : First(k)}}
  BY DEF Heads
<1>2. Len(s) \in Nat /\ DOMAIN s = 1..Len(s) /\ \A i \in DOMAIN s : s[i] \in Recs
  BY SeqBasics
<1>3. ASSUME NEW i \in DOMAIN s, Visible(s[i], cap)
      PROVE  \E j \in DOMAIN s : First(j) /\ (s[j] = s[i] \/ Beats(s[j], s[i]))
  <2> DEFINE K == {j \in DOMAIN s : s[j].key = s[i].key /\ Visible(s[j], cap)}
             m == Min(K)
  <2>1. K \subseteq Nat /\ i \in K
    BY <1>2, <1>3
  <2>2. m \in K /\ \A j \in K : m <= j
    <3> HIDE DEF K
    <3> QED
      BY <2>1, MinNat
  <2> HIDE DEF m
  <2>3. m \in 1..Len(s) /\ m <= i /\ s[m].key = s[i].key /\ Visible(s[m], cap)
    BY <1>2, <2>1, <2>2
  <2>4. ASSUME NEW j \in 1..(m - 1), s[j].key = s[m].key, Visible(s[j], cap) PROVE FALSE
    <3>1. j \in DOMAIN s /\ j < m
      BY <1>2, <2>3
    <3>2. j \in K
      BY <2>3, <2>4, <3>1
    <3>3. m <= j
      BY <2>2, <3>2
    <3> QED
      BY <1>2, <2>3, <3>1, <3>3
  <2>5. First(m)
    BY <2>3, <2>4
  <2>6. s[m] = s[i] \/ Beats(s[m], s[i])
    <3>1. CASE m = i
      BY <3>1
    <3>2. CASE m < i
      <4>1. Before(s[m], s[i])
        BY <1>2, <2>3, <3>2, OrderedFacts
      <4> QED
        BY <1>2, <2>3, <4>1, BeatsFacts
    <3> QED
      BY <1>2, <2>3, <3>1, <3>2
  <2> QED
    BY <1>2, <2>3, <2>5, <2>6
<1>4. ASSUME NEW i \in DOMAIN s, NEW j \in DOMAIN s, First(i), First(j), s[i].key = s[j].key
      PROVE  i = j
  <2>1. ~(i < j)
    <3>1. i < j => i \in 1..(j - 1)
      BY <1>2
    <3> QED
      BY <1>4, <3>1
  <2>2. ~(j < i)
    <3>1. j < i => j \in 1..(i - 1)
      BY <1>2
    <3> QED
      BY <1>4, <3>1
  <2> QED
    BY <1>2, <2>1, <2>2
<1>5. Heads(s, cap) \subseteq Y
  BY <1>1 DEF Range
<1>6. ASSUME NEW y \in Y PROVE \E z \in Heads(s, cap) : z = y \/ Beats(z, y)
  <2>1. PICK i \in DOMAIN s : y = s[i] /\ Visible(s[i], cap)
    BY DEF Range
  <2>2. PICK j \in DOMAIN s : First(j) /\ (s[j] = s[i] \/ Beats(s[j], s[i]))
    BY <1>3, <2>1
  <2>3. s[j] \in Heads(s, cap)
    BY <1>1, <2>2
  <2> QED
    BY <2>1, <2>2, <2>3
<1>7. ASSUME NEW r \in Heads(s, cap), NEW t \in Heads(s, cap), r.key = t.key PROVE r = t
  <2>1. PICK i \in DOMAIN s : r = s[i] /\ First(i)
    BY <1>1
  <2>2. PICK j \in DOMAIN s : t = s[j] /\ First(j)
    BY <1>1
  <2> HIDE DEF First
  <2> QED
    BY <1>4, <1>7, <2>1, <2>2
<1> QED
  BY <1>5, <1>6, <1>7 DEF Covers

\* Some blocks of a file in a row are a file.
LEMMA FilePart ==
    ASSUME NEW f, FileOk(f), NEW a \in DOMAIN f, NEW b \in DOMAIN f, a <= b
    PROVE  /\ FileOk(SubSeq(f, a, b))
           /\ \A i \in DOMAIN f : a <= i /\ i <= b => Range(f[i]) \subseteq FileRecs(SubSeq(f, a, b))
           /\ FileRecs(SubSeq(f, a, b)) \subseteq FileRecs(f)
<1>1. f \in Seq(Seq(Recs)) /\ Len(f) \in Nat /\ DOMAIN f = 1..Len(f)
  BY SeqBasics DEF FileOk
<1>2. PICK m, g : m = a - 1 /\ g = SubSeq(f, a, b)
  OBVIOUS
<1>3. m \in Nat /\ m + 1 = a /\ b \in 0..Len(f) /\ m < b /\ b \in Nat
  BY <1>1, <1>2
<1>4. g = SubSeq(f, m + 1, b)
  BY <1>2, <1>3
<1>5. g \in Seq(Seq(Recs)) /\ Len(g) = b - m /\ \A i \in 1..(b - m) : g[i] = f[m + i]
  BY <1>1, <1>3, <1>4, CutFacts
<1>6. DOMAIN g = 1..(b - m) /\ g # <<>>
  <2>1. DOMAIN g = 1..Len(g) /\ (g # <<>> <=> Len(g) > 0)
    BY <1>5, SeqBasics
  <2> QED
    BY <1>3, <1>5, <2>1
<1>7. ASSUME NEW i \in DOMAIN g PROVE m + i \in DOMAIN f /\ g[i] = f[m + i]
  <2>1. PICK n : n = Len(f)
    OBVIOUS
  <2>2. n \in Nat /\ b \in 0..n /\ i \in 1..(b - m) /\ m \in Nat
    BY <1>1, <1>3, <1>6, <2>1
  <2>3. m + i \in 1..n
    BY <2>2
  <2> QED
    BY <1>1, <1>5, <2>1, <2>2, <2>3
<1>8. FileOk(g)
  <2>1. \A i \in DOMAIN g : g[i] # <<>> /\ Ordered(g[i], BeforeRel)
    BY <1>7 DEF FileOk
  <2>2. ASSUME NEW i \in DOMAIN g, NEW j \in DOMAIN g, i < j
        PROVE  KeysBelow(Range(g[i]), Range(g[j]))
    <3>1. m + i < m + j
      BY <1>3, <1>6, <2>2
    <3>2. PICK i1, j1 : i1 = m + i /\ j1 = m + j
      OBVIOUS
    <3>3. i1 \in DOMAIN f /\ j1 \in DOMAIN f /\ i1 < j1 /\ g[i] = f[i1] /\ g[j] = f[j1]
      BY <1>7, <3>1, <3>2
    <3> QED
      BY <3>3 DEF FileOk
  <2> QED
    BY <1>5, <1>6, <2>1, <2>2 DEF FileOk
<1>9. FileRecs(g) = UNION {Range(g[i]) : i \in DOMAIN g} /\ FileRecs(f) = UNION {Range(f[i]) : i \in DOMAIN f}
  BY <1>8, FileRecords DEF FileRecs
<1>10. ASSUME NEW i \in DOMAIN f, a <= i, i <= b PROVE Range(f[i]) \subseteq FileRecs(g)
  <2>1. i - m \in DOMAIN g /\ m + (i - m) = i
    BY <1>1, <1>3, <1>6, <1>10
  <2>2. g[i - m] = f[i]
    BY <1>7, <2>1
  <2> QED
    BY <1>9, <2>1, <2>2
<1>11. FileRecs(g) \subseteq FileRecs(f)
  BY <1>7, <1>9
<1> QED
  BY <1>2, <1>8, <1>10, <1>11

InKeys(lo, hi) == {k \in Nat : k # 0 /\ lo <= k /\ k <= hi}

\* The predicate holds in the interval, is positive left of it and negative
\* right of it.
LEMMA PredicateFacts ==
    ASSUME NEW k \in Nat, NEW lo \in Nat, NEW hi \in Nat
    PROVE  /\ Predicate(k, lo, hi) = 0 <=> k \in InKeys(lo, hi)
           /\ k <= hi => Predicate(k, lo, hi) >= 0
           /\ k # 0 /\ lo <= k => Predicate(k, lo, hi) <= 0
BY DEF Predicate, InKeys

\* Pruning loses no visible record of the interval.
LEMMA FileRangeFacts ==
    ASSUME NEW f, FileOk(f), NEW cap, NEW lo \in Nat, NEW hi \in Nat
    PROVE  /\ Covers(FileRange(f, cap, lo, hi),
                     {x \in FileRecs(f) : x.key \in InKeys(lo, hi) /\ Visible(x, cap)})
           /\ \A r, t \in FileRange(f, cap, lo, hi) : r.key = t.key => r = t
<1> DEFINE hits == {b \in DOMAIN f : Meets(f[b], lo, hi) /\ Hits(f[b], cap, lo, hi) # {}}
           Y == {x \in FileRecs(f) : x.key \in InKeys(lo, hi) /\ Visible(x, cap)}
           Z == FileRange(f, cap, lo, hi)
<1>1. /\ f \in Seq(Seq(Recs)) /\ Len(f) \in Nat /\ DOMAIN f = 1..Len(f)
      /\ \A i \in DOMAIN f : f[i] \in Seq(Recs) /\ f[i] # <<>> /\ Ordered(f[i], BeforeRel)
  BY SeqBasics DEF FileOk
<1>2. FileRecs(f) = UNION {Range(f[i]) : i \in DOMAIN f} /\ FileRecs(f) \subseteq Recs
  <2>1. Records(f) \in Seq(Recs) /\ FileRecs(f) = UNION {Range(f[i]) : i \in DOMAIN f}
    BY FileRecords DEF FileRecs
  <2> QED
    BY <2>1, FiniteElements DEF FileRecs
<1>3. ASSUME NEW b \in DOMAIN f, NEW x \in Range(f[b]), x.key \in InKeys(lo, hi), Visible(x, cap)
      PROVE  b \in hits
  <2>1. PICK s : s = f[b]
    OBVIOUS
  <2>2. s \in Seq(Recs) /\ s # <<>> /\ Ordered(s, BeforeRel)
    BY <1>1, <2>1
  <2>3. PICK i \in DOMAIN s : x = s[i]
    BY <2>1 DEF Range
  <2>4. PICK n : n = Len(s)
    OBVIOUS
  <2>5. n \in Nat /\ n > 0 /\ DOMAIN s = 1..n /\ Head(s) = s[1] /\ Last(s) = s[n]
    BY <2>2, <2>4, SeqBasics, EndFacts
  <2>6. 1 \in DOMAIN s /\ n \in DOMAIN s /\ 1 <= i /\ i <= n
    BY <2>5
  <2>7. s[1].key <= s[i].key /\ s[i].key <= s[n].key
    BY <2>2, <2>6, OrderedFacts
  <2>8. s[1].key \in Nat /\ s[i].key \in Nat /\ s[n].key \in Nat /\ x \in Recs
    BY <2>2, <2>3, <2>6, SeqBasics, RecFields
  <2>9. PICK k1, k, kn : k1 = s[1].key /\ k = s[i].key /\ kn = s[n].key
    OBVIOUS
  <2>10. k1 \in Nat /\ k \in Nat /\ kn \in Nat /\ k1 <= k /\ k <= kn /\ k # 0 /\ lo <= k /\ k <= hi
    BY <1>3, <2>3, <2>7, <2>8, <2>9 DEF InKeys
  <2>11. k1 <= hi /\ kn # 0 /\ lo <= kn
    BY <2>10
  <2>12. Predicate(k1, lo, hi) >= 0 /\ Predicate(kn, lo, hi) <= 0 /\ Predicate(k, lo, hi) = 0
    BY <1>3, <2>3, <2>9, <2>10, <2>11, PredicateFacts
  <2>13. Meets(f[b], lo, hi)
    BY <2>1, <2>5, <2>9, <2>12 DEF Meets
  <2>14. x \in Hits(f[b], cap, lo, hi)
    BY <1>3, <2>3, <2>9, <2>12 DEF Hits, InRange
  <2> QED
    BY <2>13, <2>14
<1>4. CASE hits = {}
  <2>1. Y = {}
    BY <1>2, <1>3, <1>4
  <2>2. Z = {}
    BY <1>4 DEF FileRange
  <2> QED
    BY <2>1, <2>2 DEF Covers
<1>5. CASE hits # {}
  <2> DEFINE a == Min(hits)
             b == Max(hits)
             g == SubSeq(f, a, b)
             H == Heads(Records(g), cap)
  <2>1. hits \subseteq 0..Len(f) /\ hits \subseteq Nat
    BY <1>1
  <2>2. a \in hits /\ b \in hits /\ \A i \in hits : a <= i /\ i <= b
    <3> HIDE DEF hits
    <3> QED
      BY <1>1, <1>5, <2>1, MinNat, MaxBounded
  <2>3. Z = {r \in H : Predicate(r.key, lo, hi) = 0}
    BY <1>5 DEF FileRange, InRange
  <2>4. a \in DOMAIN f /\ b \in DOMAIN f /\ a <= b
    <3> HIDE DEF a, b
    <3> QED
      BY <2>2
  <2> HIDE DEF a, b
  <2>5. /\ FileOk(g) /\ FileRecs(g) \subseteq FileRecs(f)
        /\ \A i \in DOMAIN f : a <= i /\ i <= b => Range(f[i]) \subseteq FileRecs(g)
    BY <2>4, FilePart
  <2> HIDE DEF g
  <2>6. Records(g) \in Seq(Recs) /\ Ordered(Records(g), BeforeRel)
    BY <2>5, FileRecords
  <2>7. /\ Covers(H, {x \in FileRecs(g) : Visible(x, cap)})
        /\ \A r, t \in H : r.key = t.key => r = t
    BY <2>6, HeadsFacts DEF FileRecs
  <2> HIDE DEF H
  <2>8. \A r \in H : r \in FileRecs(f) /\ r \in Recs /\ Visible(r, cap) /\ r.key \in Nat
    BY <1>2, <2>5, <2>7, RecFields DEF Covers
  <2>9. \A r \in H : r \in Z <=> r.key \in InKeys(lo, hi)
    <3>1. ASSUME NEW r \in H PROVE Predicate(r.key, lo, hi) = 0 <=> r.key \in InKeys(lo, hi)
      BY <2>8, PredicateFacts
    <3> QED
      BY <2>3, <3>1
  <2>10. Z \subseteq H
    BY <2>3
  <2> HIDE DEF Z
  <2>11. Z \subseteq Y
    BY <2>8, <2>9, <2>10
  <2>12. ASSUME NEW y \in Y PROVE \E z \in Z : z = y \/ Beats(z, y)
    <3>1. PICK i \in DOMAIN f : y \in Range(f[i])
      BY <1>2
    <3>2. i \in hits
      BY <1>3, <3>1
    <3>3. y \in FileRecs(g) /\ Visible(y, cap)
      <4> HIDE DEF hits
      <4> QED
        BY <2>2, <2>5, <3>1, <3>2
    <3>4. PICK z \in H : z = y \/ Beats(z, y)
      BY <2>7, <3>3 DEF Covers
    <3>5. z.key = y.key
      BY <3>4 DEF Beats
    <3> QED
      BY <2>9, <3>4, <3>5
  <2> QED
    BY <2>7, <2>10, <2>11, <2>12 DEF Covers, Z
<1> QED
  BY <1>4, <1>5

-----------------------------------------------------------------------------
(* The level that is read lazily.                                           *)

HeadSet(t) == IF t = <<>> THEN {} ELSE {Head(t)}

\* t is what lies ahead among the records D of the level, all right of key g.
LevelRest(t, D, g) ==
    /\ t \in Seq(Recs) /\ Ordered(t, BeforeRel) /\ Range(t) \subseteq D
    /\ \A r \in Range(t) : r.key > g
    /\ \A z \in D : t # <<>> /\ z.key > Head(t).key => z \in Range(t)

\* The records right of g for which the head of t speaks.
Reach(D, g, t) == {z \in D : z.key > g /\ (t # <<>> => z.key <= Head(t).key)}

\* From key g the iterator goes to the next key with a visible record.
LEMMA LevelMoves ==
    ASSUME NEW cap, NEW bef, bef \subseteq aborted, NEW D, D \subseteq Recs,
           NEW s \in Seq(Recs), Ordered(s, BeforeRel), Range(s) \subseteq D, NEW g \in Int,
           \A r \in Range(s) : r.key >= g, \A z \in D : z.key > g => z \in Range(s),
           NEW I, I \subseteq DOMAIN s,
           \A i \in DOMAIN s : i \in I <=> s[i].key # g /\ Visible(s[i], cap),
           NEW t, t = From(s, I)
    PROVE  /\ LevelRest(t, D, g)
           /\ Reads(cap, bef, aborted, Reach(D, g, t), HeadSet(t))
           /\ \A y \in HeadSet(t) : y.ver \notin aborted
<1> DEFINE n == Len(s)
           m == Min(I)
<1>1. n \in Nat /\ DOMAIN s = 1..n /\ \A i \in 1..n : s[i] \in Recs
  BY SeqBasics
<1>2. \A i \in 1..n : s[i].key \in Nat /\ s[i].ver \in Nat /\ s[i].n \in Nat
  BY <1>1, RecFields
<1>3. \A i \in 1..n : s[i] \in Range(s) /\ s[i].key >= g
  BY <1>1 DEF Range
<1>4. \A x \in Reach(D, g, t) : x.key > g /\ \E j \in 1..n : x = s[j]
  BY <1>1 DEF Reach, Range
<1>5. ASSUME NEW j \in 1..n, s[j].key > g, InCap(cap, s[j]), j \notin I PROVE s[j].ver \in aborted
  <2>1. s[j].key # g
    BY <1>2, <1>5
  <2> QED
    BY <1>1, <1>5, <2>1 DEF Visible, InCap
<1>6. CASE I = {}
  <2>1. t = <<>>
    BY <1>6 DEF From
  <2>2. HeadSet(t) = {} /\ Range(t) = {} /\ t \in Seq(Recs) /\ DOMAIN t = {}
    <3>1. Range(<<>>) = {} /\ <<>> \in Seq(Recs) /\ DOMAIN <<>> = {}
      BY DEF Range
    <3> QED
      BY <2>1, <3>1 DEF HeadSet
  <2>3. LevelRest(t, D, g)
    BY <2>1, <2>2 DEF LevelRest, Ordered
  <2>4. \A x \in Reach(D, g, t) : InCap(cap, x) => x.ver \in aborted
    BY <1>4, <1>5, <1>6
  <2>5. Reads(cap, bef, aborted, Reach(D, g, t), HeadSet(t))
    BY <2>2, <2>4 DEF Reads
  <2> QED
    BY <2>2, <2>3, <2>5
<1>7. CASE I # {}
  <2>1. I \subseteq Nat
    BY <1>1
  <2>2. m \in I /\ \A i \in I : m <= i
    <3> QED
      BY <1>7, <2>1, MinNat
  <2>3. t = SubSeq(s, m, n)
    BY <1>7 DEF From
  <2> HIDE DEF m
  <2>4. m \in 1..n /\ s[m].key # g /\ Visible(s[m], cap)
    BY <1>1, <2>2
  <2>5. \A j \in 1..n : j < m => j \notin I
    BY <1>1, <2>2, <2>4
  <2>6. s[m].key > g
    <3>1. PICK k : k = s[m].key
      OBVIOUS
    <3>2. k \in Nat /\ k >= g /\ k # g
      BY <1>2, <1>3, <2>4, <3>1
    <3> QED
      BY <3>1, <3>2
  <2>7. PICK p : p = m - 1
    OBVIOUS
  <2>8. p \in Nat /\ p + 1 = m /\ p < n /\ n \in 0..n
    BY <1>1, <2>4, <2>7
  <2>9. t \in Seq(Recs) /\ Len(t) = n - p /\ \A i \in 1..(n - p) : t[i] = s[p + i]
    <3>1. t = SubSeq(s, p + 1, n)
      BY <2>3, <2>8
    <3> HIDE DEF n
    <3>2. n \in 0..Len(s)
      BY <2>8 DEF n
    <3>3. /\ SubSeq(s, p + 1, n) \in Seq(Recs)
          /\ Len(SubSeq(s, p + 1, n)) = IF p < n THEN n - p ELSE 0
          /\ \A i \in 1..(n - p) : SubSeq(s, p + 1, n)[i] = s[p + i]
      BY <2>8, <3>2, CutFacts
    <3> QED
      BY <2>8, <3>1, <3>3
  <2>10. DOMAIN t = 1..(n - p) /\ t # <<>> /\ Head(t) = s[m]
    <3>1. DOMAIN t = 1..Len(t) /\ (t # <<>> <=> Len(t) > 0)
      BY <2>9, SeqBasics
    <3>2. Len(t) > 0 /\ 1 \in 1..(n - p)
      <4> HIDE DEF n
      <4>1. Len(t) = n - p /\ n \in Nat /\ p \in Nat /\ p < n
        BY <1>1, <2>8, <2>9
      <4> QED
        BY <4>1
    <3>3. Head(t) = t[1]
      BY <2>9, <3>1, <3>2, EndFacts
    <3> QED
      BY <2>8, <2>9, <3>1, <3>2, <3>3
  <2> HIDE DEF n
  <2>11. ASSUME NEW i \in DOMAIN t PROVE p + i \in 1..n /\ p + i >= m /\ t[i] = s[p + i]
    BY <1>1, <2>8, <2>9, <2>10
  <2>12. ASSUME NEW j \in 1..n, j >= m PROVE s[j] \in Range(t)
    <3>1. j - p \in DOMAIN t /\ p + (j - p) = j
      BY <1>1, <2>8, <2>10, <2>12
    <3>2. t[j - p] = s[j]
      BY <2>9, <2>10, <3>1
    <3> QED
      BY <3>1, <3>2 DEF Range
  <2>13. \A r \in Range(t) : \E j \in 1..n : j >= m /\ r = s[j]
    BY <2>11 DEF Range
  <2>14. Range(t) \subseteq D /\ \A r \in Range(t) : r.key > g
    <3>1. ASSUME NEW r \in Range(t) PROVE r \in D /\ r.key > g
      <4>1. PICK j \in 1..n : j >= m /\ r = s[j]
        BY <2>13
      <4>2. s[m].key <= s[j].key
        BY <1>1, <2>4, <4>1, OrderedFacts
      <4>3. s[m].key \in Nat /\ s[j].key \in Nat
        BY <1>2, <2>4
      <4>4. r.key > g
        BY <2>6, <4>1, <4>2, <4>3
      <4> QED
        BY <1>3, <4>1, <4>4
    <3> QED
      BY <3>1
  <2>15. Ordered(t, BeforeRel)
    <3>1. ASSUME NEW i \in DOMAIN t, NEW j \in DOMAIN t, i < j PROVE <<t[i], t[j]>> \in BeforeRel
      <4>1. PICK i1, j1 : i1 = p + i /\ j1 = p + j
        OBVIOUS
      <4>2. i1 \in 1..n /\ j1 \in 1..n /\ t[i] = s[i1] /\ t[j] = s[j1]
        BY <2>11, <4>1
      <4>3. i1 < j1
        BY <2>8, <2>10, <3>1, <4>1
      <4> QED
        BY <1>1, <4>2, <4>3 DEF Ordered
    <3> QED
      BY <3>1 DEF Ordered
  <2>16. ASSUME NEW z \in D, z.key > s[m].key PROVE z \in Range(t)
    <3>1. s[m].key \in Nat /\ z.key \in Nat
      BY <1>2, <2>4, RecFields
    <3>2. z.key > g
      BY <2>6, <2>16, <3>1
    <3>3. PICK j \in 1..n : z = s[j]
      BY <1>1, <3>2 DEF Range
    <3>4. j <= m => s[j].key <= s[m].key
      BY <1>1, <2>4, OrderedFacts
    <3>5. j >= m
      BY <1>1, <2>4, <2>16, <3>1, <3>3, <3>4
    <3> QED
      BY <2>12, <3>3, <3>5
  <2>17. LevelRest(t, D, g)
    BY <2>9, <2>10, <2>14, <2>15, <2>16 DEF LevelRest
  <2>18. HeadSet(t) = {s[m]}
    BY <2>10 DEF HeadSet
  <2>19. InCap(cap, s[m]) /\ s[m].ver \notin aborted
    BY <2>4 DEF Visible, InCap
  <2>20. s[m] \in Reach(D, g, t)
    <3>1. s[m].key <= s[m].key
      BY <1>2, <2>4
    <3> QED
      BY <1>3, <2>4, <2>6, <2>10, <3>1 DEF Reach
  <2>21. ASSUME NEW x \in Reach(D, g, t), SameSlot(x, s[m]), x.n > s[m].n PROVE FALSE
    <3>1. PICK j \in 1..n : x = s[j]
      BY <1>4 DEF n
    <3>2. x.key = s[m].key /\ x.ver = s[m].ver
      BY <2>21 DEF SameSlot
    <3>3. InCap(cap, x) /\ x.ver \notin aborted
      BY <2>19, <3>2 DEF InCap
    <3>4. ~(j < m)
      <4>1. SUFFICES ASSUME j < m PROVE FALSE
        OBVIOUS
      <4>2. j \notin I /\ s[j].key > g
        BY <2>5, <2>6, <3>1, <3>2, <4>1
      <4> QED
        BY <1>5, <3>1, <3>3, <4>2 DEF n
    <3>5. m <= j
      BY <1>1, <2>4, <3>4
    <3>6. SameSlot(s[m], s[j])
      BY <2>21, <3>1 DEF SameSlot
    <3>7. s[m].n >= s[j].n
      BY <1>1, <2>4, <3>5, <3>6, OrderedFacts
    <3>8. s[m].n \in Nat /\ s[j].n \in Nat
      BY <1>2, <2>4
    <3> QED
      BY <2>21, <3>1, <3>7, <3>8
  <2>22. ASSUME NEW x \in Reach(D, g, t), InCap(cap, x), x.ver \notin aborted
         PROVE  s[m].key = x.key /\ s[m].ver >= x.ver
    <3>1. PICK j \in 1..n : x = s[j]
      BY <1>4 DEF n
    <3>2. x.key > g /\ x.key <= s[m].key
      BY <2>10 DEF Reach
    <3>3. ~(j < m)
      BY <1>5, <2>5, <2>22, <3>1, <3>2 DEF n
    <3>4. m <= j
      BY <1>1, <2>4, <3>3
    <3>5. s[m].key <= s[j].key /\ (s[m].key = s[j].key => s[m].ver >= s[j].ver)
      BY <1>1, <2>4, <3>4, OrderedFacts
    <3>6. s[m].key \in Nat /\ s[j].key \in Nat
      BY <1>2, <2>4
    <3> QED
      BY <3>1, <3>2, <3>5, <3>6
  <2>23. Reads(cap, bef, aborted, Reach(D, g, t), HeadSet(t))
    <3>1. s[m].ver \notin bef
      BY <2>19
    <3> QED
      BY <2>18, <2>19, <2>20, <2>21, <2>22, <3>1 DEF Reads
  <2> QED
    BY <2>17, <2>18, <2>19, <2>23
<1> QED
  BY <1>6, <1>7

\* A heap leaves the key it is at.
LEMMA HeapSkips ==
    ASSUME NEW s, HeapSeq(s), NEW g \in Int, \A r \in Range(s) : r.key >= g
    PROVE  /\ HeapSeq(HeapSkip(s, g))
           /\ Range(HeapSkip(s, g)) = {r \in Range(s) : r.key > g}
<1>1. s \in Seq(Recs) /\ Len(s) \in Nat /\ DOMAIN s = 1..Len(s) /\ \A i \in DOMAIN s : s[i] \in Recs
  BY SeqBasics DEF HeapSeq
<1>2. \A i \in DOMAIN s : s[i].key \in Nat /\ s[i].key >= g
  BY <1>1, RecFields DEF Range
<1>3. CASE s # <<>> /\ Head(s).key = g
  <2>1. PICK u : u = Tail(s)
    OBVIOUS
  <2>2. HeapSkip(s, g) = u
    BY <1>3, <2>1 DEF HeapSkip
  <2>3. /\ Len(s) > 0 /\ Head(s) = s[1] /\ u \in Seq(Recs) /\ Len(u) = Len(s) - 1
        /\ \A i \in DOMAIN u : u[i] = s[i + 1]
    BY <1>1, <1>3, <2>1, EndFacts
  <2>4. DOMAIN u = 1..(Len(s) - 1)
    BY <2>3, SeqBasics
  <2>5. \A i \in DOMAIN u : i + 1 \in DOMAIN s /\ 1 < i + 1 /\ 1 \in DOMAIN s
    BY <1>1, <2>3, <2>4
  <2>6. ASSUME NEW i \in DOMAIN u, NEW j \in DOMAIN u, i < j PROVE u[i].key < u[j].key
    <3>1. i + 1 < j + 1
      BY <1>1, <2>4, <2>6
    <3> QED
      BY <2>3, <2>5, <3>1 DEF HeapSeq
  <2>7. ASSUME NEW i \in DOMAIN u PROVE u[i] \in Range(s) /\ u[i].key > g
    <3>1. s[1].key < s[i + 1].key /\ s[i + 1] = u[i] /\ s[1].key = g
      BY <1>3, <2>3, <2>5 DEF HeapSeq
    <3>2. s[i + 1].key \in Nat
      BY <1>2, <2>5
    <3> QED
      BY <2>5, <3>1, <3>2 DEF Range
  <2>8. ASSUME NEW r \in Range(s), r.key > g PROVE r \in Range(u)
    <3>1. PICK j \in DOMAIN s : r = s[j]
      BY DEF Range
    <3>2. j # 1
      BY <1>3, <2>3, <2>8, <3>1
    <3>3. j - 1 \in DOMAIN u /\ (j - 1) + 1 = j
      BY <1>1, <2>3, <2>4, <3>2
    <3>4. u[j - 1] = s[j]
      BY <2>3, <3>3
    <3> QED
      BY <3>1, <3>3, <3>4 DEF Range
  <2>9. Range(u) = {r \in Range(s) : r.key > g}
    <3>1. \A r \in Range(u) : r \in Range(s) /\ r.key > g
      BY <2>7 DEF Range
    <3> QED
      BY <2>8, <3>1
  <2> QED
    BY <2>2, <2>3, <2>6, <2>9 DEF HeapSeq
<1>4. CASE ~(s # <<>> /\ Head(s).key = g)
  <2>1. HeapSkip(s, g) = s
    BY <1>4 DEF HeapSkip
  <2>2. ASSUME NEW i \in DOMAIN s PROVE s[i].key > g
    <3>1. s # <<>> /\ 1 \in DOMAIN s /\ 1 <= i
      BY <1>1, SeqBasics
    <3>2. Head(s) = s[1]
      BY <1>1, <3>1, EndFacts
    <3>3. s[1].key # g /\ s[1].key >= g /\ s[1].key \in Nat /\ s[i].key \in Nat
      BY <1>2, <1>4, <3>1, <3>2
    <3>4. i = 1 \/ s[1].key < s[i].key
      <4>1. i = 1 \/ 1 < i
        BY <1>1, <3>1
      <4> QED
        BY <3>1, <4>1 DEF HeapSeq
    <3>5. PICK k1, k : k1 = s[1].key /\ k = s[i].key
      OBVIOUS
    <3>6. k1 \in Nat /\ k \in Nat /\ k1 # g /\ k1 >= g /\ (k = k1 \/ k1 < k)
      BY <3>3, <3>4, <3>5
    <3> QED
      BY <3>5, <3>6
  <2>3. Range(s) = {r \in Range(s) : r.key > g}
    BY <2>2 DEF Range
  <2> QED
    BY <2>1, <2>3
<1> QED
  BY <1>3, <1>4

-----------------------------------------------------------------------------
(* Items, and the order of the sources.                                     *)

\* One more source is read: older than those before, with one record a key.
LEMMA ItemsGrow ==
    ASSUME NEW items, PriOk(items), NEW H, H \subseteq Recs, \A r, t \in H : r.key = t.key => r = t,
           NEW p \in Int, \A a \in items : a.pri > p, SlotOlder(H, Candidates(items))
    PROVE  /\ PriOk(items \cup Items(H, p))
           /\ Candidates(items \cup Items(H, p)) = Candidates(items) \cup H
           /\ \A a \in items \cup Items(H, p) : a.pri >= p
<1> DEFINE new == Items(H, p)
           all == items \cup new
<1>1. /\ \A a \in new : a.r \in H /\ a.pri = p /\ a = [r |-> a.r, pri |-> p]
      /\ \A r \in H : [r |-> r, pri |-> p] \in new
  BY DEF Items
<1>2. \A a \in items : a.r \in Recs /\ a.pri \in Int /\ a.pri > p
  BY DEF PriOk
<1>3. \A a \in items, b \in new : SameSlot(a.r, b.r) \/ SameSlot(b.r, a.r) => a.r.n > b.r.n
  <2>1. ASSUME NEW a \in items, NEW b \in new, SameSlot(a.r, b.r) \/ SameSlot(b.r, a.r)
        PROVE  a.r.n > b.r.n
    <3>1. a.r \in Candidates(items) /\ b.r \in H /\ SameSlot(b.r, a.r)
      BY <1>1, <2>1 DEF Candidates, SameSlot
    <3>2. b.r.n < a.r.n
      BY <3>1 DEF SlotOlder
    <3>3. b.r.n \in Nat /\ a.r.n \in Nat
      BY <1>2, <3>1, RecFields
    <3> QED
      BY <3>2, <3>3
  <2> QED
    BY <2>1
<1>4. ASSUME NEW a \in all, NEW b \in all, SameSlot(a.r, b.r)
      PROVE  (a.pri > b.pri => a.r.n > b.r.n) /\ (a.pri = b.pri => a = b)
  <2>1. CASE a \in items /\ b \in items
    BY <1>4, <2>1 DEF PriOk
  <2>2. CASE a \in items /\ b \in new
    <3>1. a.pri # b.pri /\ a.r.n > b.r.n
      BY <1>1, <1>2, <1>3, <1>4, <2>2
    <3> QED
      BY <3>1
  <2>3. CASE a \in new /\ b \in items
    <3>1. a.pri = p /\ b.pri \in Int /\ b.pri > p
      BY <1>1, <1>2, <2>3
    <3>2. ~(a.pri > b.pri) /\ a.pri # b.pri
      BY <3>1
    <3> QED
      BY <3>2
  <2>4. CASE a \in new /\ b \in new
    <3>1. a.pri = p /\ b.pri = p /\ a.r = b.r
      BY <1>1, <1>4, <2>4 DEF SameSlot
    <3>2. a = b
      BY <1>1, <2>4, <3>1
    <3> QED
      BY <3>1, <3>2
  <2> QED
    BY <2>1, <2>2, <2>3, <2>4
<1>5. \A a \in all : a.r \in Recs /\ a.pri \in Int /\ a.pri >= p
  BY <1>1, <1>2
<1>6. Candidates(all) = Candidates(items) \cup H
  <2>1. Candidates(new) = H
    <3>1. \A r \in H : [r |-> r, pri |-> p].r = r
      OBVIOUS
    <3> HIDE DEF new
    <3> QED
      BY <1>1, <3>1 DEF Candidates
  <2>2. Candidates(all) = Candidates(items) \cup Candidates(new)
    <3> HIDE DEF new
    <3> QED
      BY DEF Candidates
  <2> QED
    BY <2>1, <2>2
<1> QED
  BY <1>4, <1>5, <1>6 DEF PriOk

\* The records of the files before file nx.
FileSet(fs, nx) == UNION {FileRecs(fs[i]) : i \in 1..(nx - 1)}

\* Files in the order in which they are read.
LEMMA FileSlots ==
    ASSUME DataInv
    PROVE  /\ \A i, j \in DOMAIN Files : j < i => SlotOlder(FileRecs(Files[i]), FileRecs(Files[j]))
           /\ \A i \in DOMAIN Files : FileRecs(Files[i]) \subseteq Disk0 \cup Disk1
           /\ FileSet(Files, Len(l0) + 1) = Disk0
           /\ FileSet(Files, Len(Files) + 1) = Disk0 \cup Disk1
<1> DEFINE n == Len(l0)
           m == Len(l1)
<1>1. /\ Files \in Seq(Seq(Seq(Recs))) /\ Len(Files) = n + m /\ n \in Nat /\ m \in Nat
      /\ \A i \in DOMAIN l0 : i \in DOMAIN Files /\ Files[i] = l0[i]
      /\ \A i \in DOMAIN l1 : n + i \in DOMAIN Files /\ Files[n + i] = l1[i]
      /\ \A i \in DOMAIN Files : i \in DOMAIN l0 \/ i - n \in DOMAIN l1
      /\ Disk1 = UNION {FileRecs(l1[i]) : i \in DOMAIN l1}
  BY FilesFacts DEF DataInv
<1>2. DOMAIN l0 = 1..n /\ DOMAIN l1 = 1..m /\ DOMAIN Files = 1..(n + m)
  <2>1. DOMAIN Files = 1..Len(Files)
    BY <1>1, SeqBasics
  <2> QED
    BY <1>1, <2>1, SeqBasics DEF DataInv, FilesOk, LevelOk
<1> HIDE DEF n, m
<1>3. ASSUME NEW i \in DOMAIN Files, i \notin DOMAIN l0
      PROVE  i - n \in DOMAIN l1 /\ Files[i] = l1[i - n] /\ FileRecs(Files[i]) \subseteq Disk1
  <2>1. i - n \in DOMAIN l1 /\ n + (i - n) = i
    BY <1>1, <1>2, <1>3
  <2>2. Files[i] = l1[i - n]
    BY <1>1, <2>1
  <2> QED
    BY <1>1, <2>1, <2>2
<1>4. \A i \in DOMAIN l0 : FileRecs(Files[i]) \subseteq Disk0 /\ Files[i] = l0[i]
  BY <1>1 DEF Disk0
<1>5. \A r \in Disk0 \cup Disk1 : r.n \in Nat /\ r.key \in Nat
  BY StoredRecs, RecFields DEF DataInv
<1>6. ASSUME NEW i \in DOMAIN Files, NEW j \in DOMAIN Files, j < i
      PROVE  SlotOlder(FileRecs(Files[i]), FileRecs(Files[j]))
  <2>1. CASE i \in DOMAIN l0
    <3>1. j \in DOMAIN l0
      BY <1>1, <1>2, <1>6, <2>1
    <3>2. Older(FileRecs(l0[i]), FileRecs(l0[j]))
      BY <1>6, <2>1, <3>1 DEF DataInv, DiskOrder
    <3> QED
      BY <1>4, <2>1, <3>1, <3>2 DEF SlotOlder, Older
  <2>2. CASE i \notin DOMAIN l0 /\ j \in DOMAIN l0
    <3>1. FileRecs(Files[i]) \subseteq Disk1 /\ FileRecs(Files[j]) \subseteq Disk0
      BY <1>3, <1>4, <2>2
    <3>2. Older(Disk1, Disk0)
      BY DEF DataInv, DiskOrder
    <3> QED
      BY <3>1, <3>2 DEF SlotOlder, Older
  <2>3. CASE i \notin DOMAIN l0 /\ j \notin DOMAIN l0
    <3>1. PICK i1, j1 : i1 = i - n /\ j1 = j - n
      OBVIOUS
    <3>2. /\ i1 \in DOMAIN l1 /\ j1 \in DOMAIN l1 /\ Files[i] = l1[i1] /\ Files[j] = l1[j1]
          /\ FileRecs(Files[i]) \subseteq Disk1 /\ FileRecs(Files[j]) \subseteq Disk1
      BY <1>3, <2>3, <3>1
    <3>3. j1 < i1
      BY <1>1, <1>2, <1>6, <3>1
    <3>4. KeysBelow(FileRecs(Files[j]), FileRecs(Files[i]))
      BY <3>2, <3>3 DEF DataInv, FilesOk, LevelOk
    <3>5. ASSUME NEW r \in FileRecs(Files[i]), NEW s \in FileRecs(Files[j]) PROVE ~SameSlot(r, s)
      <4>1. s.key < r.key /\ r.key \in Nat /\ s.key \in Nat
        BY <1>5, <3>2, <3>4 DEF KeysBelow
      <4> QED
        BY <4>1 DEF SameSlot
    <3> QED
      BY <3>5 DEF SlotOlder
  <2> QED
    BY <2>1, <2>2, <2>3
<1>7. \A i \in DOMAIN Files : FileRecs(Files[i]) \subseteq Disk0 \cup Disk1
  BY <1>3, <1>4
<1>8. FileSet(Files, n + 1) = Disk0
  <2>1. (n + 1) - 1 = n
    BY <1>1
  <2>2. FileSet(Files, n + 1) = UNION {FileRecs(Files[i]) : i \in DOMAIN l0}
    BY <1>2, <2>1 DEF FileSet
  <2> QED
    BY <1>4, <2>2 DEF Disk0
<1>9. FileSet(Files, Len(Files) + 1) = Disk0 \cup Disk1
  <2>1. (Len(Files) + 1) - 1 = n + m
    BY <1>1
  <2>2. FileSet(Files, Len(Files) + 1) = UNION {FileRecs(Files[i]) : i \in DOMAIN Files}
    BY <1>2, <2>1 DEF FileSet
  <2>3. \A x \in Disk0 : \E i \in DOMAIN Files : x \in FileRecs(Files[i])
    BY <1>1, <1>4 DEF Disk0
  <2>4. \A x \in Disk1 : \E i \in DOMAIN Files : x \in FileRecs(Files[i])
    <3>1. ASSUME NEW i \in DOMAIN l1 PROVE \A x \in FileRecs(l1[i]) : \E k \in DOMAIN Files : x \in FileRecs(Files[k])
      BY <1>1
    <3> QED
      BY <1>1, <3>1
  <2> QED
    BY <1>7, <2>2, <2>3, <2>4
<1> QED
  BY <1>6, <1>7, <1>8, <1>9 DEF n

\* Reading one more file.
LEMMA FileSetGrows ==
    ASSUME NEW fs, NEW i \in Nat, i > 0
    PROVE  FileSet(fs, i + 1) = FileSet(fs, i) \cup FileRecs(fs[i])
<1>1. 1..((i + 1) - 1) = (1..(i - 1)) \cup {i}
  OBVIOUS
<1> QED
  BY <1>1 DEF FileSet

-----------------------------------------------------------------------------
(* A read begins.                                                           *)

\* What is in memory, but for the end markers.
MemPart(snap, d0, d1) == {x \in snap \ (d0 \cup d1) : x.key # 0}

SnapOk(snap, d0, d1, w) ==
    /\ snap \subseteq Recs /\ IsFiniteSet(snap) /\ Numbered(snap)
    /\ w \in Nat /\ \A r \in snap : r.n <= w
    /\ d0 \cup d1 \subseteq snap /\ Older(d0 \cup d1, snap \ (d0 \cup d1)) /\ Older(d1, d0)

AllRecords == cur \cup (UNION Range(frozen)) \cup Range(LevelRecords(Files))

\* The records at the start of a read.
LEMMA SnapMade ==
    ASSUME DataInv
    PROVE  SnapOk(AllRecords, Disk0, Disk1, writes) /\ AllRecords \ (Disk0 \cup Disk1) = Mem
<1>1. AllRecords = Stored /\ Range(LevelRecords(Files)) = Disk0 \cup Disk1 /\ LevelRecords(Files) \in Seq(Recs)
  BY FilesFacts DEF AllRecords, Stored, Mem, DataInv
<1>2. Stored \subseteq Recs
  BY StoredRecs DEF DataInv, Stored
<1>3. IsFiniteSet(AllRecords)
  <2>1. IsFiniteSet(Range(frozen))
    BY FiniteElements DEF DataInv, TablesOk
  <2>2. \A T \in Range(frozen) : IsFiniteSet(T)
    BY DEF DataInv, TablesOk, Range
  <2>3. IsFiniteSet(UNION Range(frozen))
    BY <2>1, <2>2, FS_UNION
  <2>4. IsFiniteSet(Range(LevelRecords(Files)))
    BY <1>1, FiniteElements
  <2>5. IsFiniteSet(cur)
    BY DEF DataInv, TablesOk
  <2>6. IsFiniteSet(cur \cup UNION Range(frozen))
    BY <2>3, <2>5, FS_Union
  <2> QED
    BY <2>4, <2>6, FS_Union DEF AllRecords
<1>4. Older(Disk0 \cup Disk1, Mem) /\ Older(Disk1, Disk0)
  BY DEF DataInv, DiskOrder
<1>5. AllRecords \ (Disk0 \cup Disk1) = Mem
  <2>1. ASSUME NEW x \in Mem, x \in Disk0 \cup Disk1 PROVE FALSE
    <3>1. x.n < x.n
      BY <1>4, <2>1 DEF Older
    <3>2. x.n \in Nat
      BY <1>2, RecFields DEF Stored
    <3> QED
      BY <3>1, <3>2
  <2> QED
    BY <1>1, <2>1 DEF Stored
<1>6. Numbered(Stored) /\ writes \in Nat /\ \A r \in Stored : r.n <= writes
  BY DEF DataInv, Numbers
<1>7. Disk0 \cup Disk1 \subseteq Stored
  BY DEF Stored
<1> QED
  BY <1>1, <1>2, <1>3, <1>4, <1>5, <1>6, <1>7 DEF SnapOk

\* MemTable::begin copies what is visible in memory, newer tables first.
LEMMA MemItemsFacts ==
    ASSUME DataInv, NEW cap
    PROVE  /\ PriOk(MemItems(cap))
           /\ Candidates(MemItems(cap)) = {x \in {y \in Mem : y.key # 0} : Visible(x, cap)}
           /\ \A a \in MemItems(cap) : a.pri > Len(Files) - 1
<1> DEFINE tables == <<cur>> \o frozen
           m == Len(tables)
           base == Len(l0) + Len(l1)
           Part(i) == {r \in tables[i] : r.key # 0 /\ Visible(r, cap)}
           P(i) == base + m - i
           A == MemItems(cap)
<1>1. /\ tables \in Seq(SUBSET Recs) /\ Len(tables) = Len(frozen) + 1 /\ tables[1] = cur
      /\ \A i \in DOMAIN frozen : tables[i + 1] = frozen[i]
  <2>1. cur \in SUBSET Recs /\ frozen \in Seq(SUBSET Recs)
    BY DEF DataInv, TablesOk
  <2> QED
    BY <2>1, PushFacts
<1>2. base \in Nat /\ Len(Files) = base
  BY FilesFacts DEF DataInv
<1>3. Len(frozen) \in Nat /\ DOMAIN frozen = 1..Len(frozen)
  BY SeqBasics DEF DataInv, TablesOk
<1>4. m \in Nat /\ DOMAIN tables = 1..m
  BY <1>1, SeqBasics
<1>5. A = UNION {Items(Part(i), P(i)) : i \in DOMAIN tables}
  BY DEF MemItems
<1>6. \A i \in DOMAIN tables : i = 1 \/ (i - 1 \in DOMAIN frozen /\ tables[i] = frozen[i - 1])
  <2>1. ASSUME NEW i \in DOMAIN tables, i # 1 PROVE i - 1 \in DOMAIN frozen /\ (i - 1) + 1 = i
    <3> HIDE DEF tables
    <3>1. PICK n : n = Len(frozen)
      OBVIOUS
    <3>2. n \in Nat /\ m = n + 1 /\ i \in 1..m
      BY <1>1, <1>3, <1>4, <3>1
    <3>3. i - 1 \in 1..n /\ (i - 1) + 1 = i
      BY <2>1, <3>2
    <3> QED
      BY <1>3, <3>1, <3>3
  <2> HIDE DEF tables
  <2> QED
    BY <1>1, <2>1
<1> HIDE DEF tables
<1>7. \A i \in DOMAIN tables : tables[i] \subseteq Recs /\ OneEach(tables[i]) /\ tables[i] \subseteq Mem
  <2>1. cur \subseteq Recs /\ OneEach(cur) /\ cur \subseteq Mem
    BY DEF DataInv, TablesOk, Mem
  <2>2. \A i \in DOMAIN frozen : frozen[i] \subseteq Recs /\ OneEach(frozen[i]) /\ frozen[i] \subseteq Mem
    BY StoredRecs DEF DataInv, TablesOk
  <2> QED
    BY <1>1, <1>6, <2>1, <2>2
<1>8. ASSUME NEW i \in DOMAIN tables, NEW j \in DOMAIN tables, i < j
      PROVE  Older(tables[j], tables[i])
  <2>1. j # 1 /\ (i # 1 => i - 1 < j - 1)
    BY <1>4, <1>8
  <2>2. j - 1 \in DOMAIN frozen /\ tables[j] = frozen[j - 1]
    BY <1>6, <2>1
  <2>3. CASE i = 1
    BY <1>1, <2>2, <2>3 DEF DataInv, TableOrder
  <2>4. CASE i # 1
    <3>1. i - 1 \in DOMAIN frozen /\ tables[i] = frozen[i - 1]
      BY <1>6, <2>4
    <3>2. PICK i1, j1 : i1 = i - 1 /\ j1 = j - 1
      OBVIOUS
    <3>3. i1 \in DOMAIN frozen /\ j1 \in DOMAIN frozen /\ i1 < j1
      BY <2>1, <2>2, <2>4, <3>1, <3>2
    <3>4. Older(frozen[j1], frozen[i1])
      BY <3>3 DEF DataInv, TableOrder
    <3> QED
      BY <2>2, <3>1, <3>2, <3>4
  <2> QED
    BY <2>3, <2>4
<1>9. \A a \in A : \E i \in DOMAIN tables : a.r \in Part(i) /\ a = [r |-> a.r, pri |-> P(i)]
  <2>1. \A i \in DOMAIN tables : \A a \in Items(Part(i), P(i)) :
          a.r \in Part(i) /\ a = [r |-> a.r, pri |-> P(i)]
    BY DEF Items
  <2> HIDE DEF A, P, Part
  <2> QED
    BY <1>5, <2>1
<1>10. \A i \in DOMAIN tables : P(i) \in Int /\ P(i) > base - 1
  <2> HIDE DEF m, base
  <2> QED
    BY <1>2, <1>4
<1>11. \A a \in A : a.r \in Recs /\ a.pri \in Int /\ a.pri > Len(Files) - 1
  <2>1. ASSUME NEW a \in A PROVE a.r \in Recs /\ a.pri \in Int /\ a.pri > Len(Files) - 1
    <3>1. PICK i \in DOMAIN tables : a.r \in Part(i) /\ a = [r |-> a.r, pri |-> P(i)]
      BY <1>9
    <3>2. a.pri = P(i) /\ a.r \in Recs
      BY <1>7, <3>1
    <3> HIDE DEF P
    <3> QED
      BY <1>2, <1>10, <3>2
  <2> QED
    BY <2>1
<1>12. ASSUME NEW a \in A, NEW b \in A, SameSlot(a.r, b.r)
       PROVE  (a.pri > b.pri => a.r.n > b.r.n) /\ (a.pri = b.pri => a = b)
  <2>1. PICK i \in DOMAIN tables : a.r \in Part(i) /\ a = [r |-> a.r, pri |-> P(i)]
    BY <1>9
  <2>2. PICK j \in DOMAIN tables : b.r \in Part(j) /\ b = [r |-> b.r, pri |-> P(j)]
    BY <1>9
  <2>3. a.pri = P(i) /\ b.pri = P(j) /\ a.r \in tables[i] /\ b.r \in tables[j]
    BY <2>1, <2>2
  <2>4. (P(i) > P(j) => i < j) /\ (P(i) = P(j) => i = j)
    <3> HIDE DEF m, base
    <3> QED
      BY <1>2, <1>4
  <2> HIDE DEF P, A
  <2>5. i < j => a.r.n > b.r.n
    <3>1. SUFFICES ASSUME i < j PROVE a.r.n > b.r.n
      OBVIOUS
    <3>2. b.r.n < a.r.n
      BY <1>8, <2>3, <3>1 DEF Older
    <3>3. b.r.n \in Nat /\ a.r.n \in Nat
      BY <1>7, <2>3, RecFields
    <3> QED
      BY <3>2, <3>3
  <2>6. i = j => a.r = b.r
    BY <1>7, <1>12, <2>3 DEF OneEach
  <2>7. i = j => a = b
    BY <2>1, <2>2, <2>6
  <2> QED
    BY <2>3, <2>4, <2>5, <2>7
<1>13. PriOk(A)
  BY <1>11, <1>12 DEF PriOk
<1>14. Candidates(A) = {x \in {y \in Mem : y.key # 0} : Visible(x, cap)}
  <2>1. ASSUME NEW r \in Candidates(A) PROVE r \in Mem /\ r.key # 0 /\ Visible(r, cap)
    <3>1. PICK a \in A : r = a.r
      BY DEF Candidates
    <3>2. PICK i \in DOMAIN tables : a.r \in Part(i)
      BY <1>9
    <3> QED
      BY <1>7, <3>1, <3>2
  <2>2. ASSUME NEW r \in Mem, r.key # 0, Visible(r, cap) PROVE r \in Candidates(A)
    <3>1. PICK i \in DOMAIN tables : r \in tables[i]
      <4>1. CASE r \in cur
        <5>1. 1 \in DOMAIN tables
          BY <1>1, <1>3, <1>4
        <5> QED
          BY <1>1, <4>1, <5>1
      <4>2. CASE r \in UNION Range(frozen)
        <5>1. PICK k \in DOMAIN frozen : r \in frozen[k]
          BY <4>2 DEF Range
        <5>2. k + 1 \in DOMAIN tables
          BY <1>1, <1>3, <1>4
        <5> QED
          BY <1>1, <5>1, <5>2
      <4> QED
        BY <4>1, <4>2 DEF Mem
    <3>2. PICK a : a = [r |-> r, pri |-> P(i)]
      OBVIOUS
    <3>3. a \in Items(Part(i), P(i)) /\ a.r = r
      BY <2>2, <3>1, <3>2 DEF Items
    <3>4. a \in A
      <4> HIDE DEF A, P, Part
      <4> QED
        BY <1>5, <3>3
    <3> QED
      BY <3>3, <3>4 DEF Candidates
  <2> HIDE DEF A
  <2> QED
    BY <2>1, <2>2
<1> QED
  BY <1>11, <1>13, <1>14

-----------------------------------------------------------------------------
(* Walking over the sources of a scan.                                      *)

Above(m, d0, f) == {x \in m \cup d0 : x.key > f}
Heaps(src) == Range(src[1]) \cup Range(src[2])

\* The sources stand right of key f: m is the memory, d0 and d1 are the levels.
WalkOk(cap, bef, ab, m, d0, d1, f, src) ==
    /\ src = <<src[1], src[2], src[3]>>
    /\ HeapSeq(src[1]) /\ Range(src[1]) \subseteq m
    /\ HeapSeq(src[2]) /\ Range(src[2]) \subseteq d0
    /\ LevelRest(src[3], d1, f)
    /\ Reads(cap, bef, ab, Above(m, d0, f), Heaps(src))
    /\ Reads(cap, bef, ab, Above(m, d0, f) \cup Reach(d1, f, src[3]), Heaps(src) \cup HeadSet(src[3]))

\* No source is left of key g.
HeadsAt(src, g) == \A r \in Heaps(src) \cup HeadSet(src[3]) : r.key >= g

\* Of a sequence in order the head has the smallest key.
LEMMA HeadLeast ==
    ASSUME NEW s \in Seq(Recs), Ordered(s, BeforeRel), s # <<>>
    PROVE  Head(s) \in Range(s) /\ \A r \in Range(s) : Head(s).key <= r.key
<1>1. Len(s) \in Nat /\ Len(s) > 0 /\ DOMAIN s = 1..Len(s) /\ Head(s) = s[1]
  BY SeqBasics, EndFacts
<1>2. \A i \in DOMAIN s : s[1].key <= s[i].key
  <2>1. ASSUME NEW i \in DOMAIN s PROVE 1 \in DOMAIN s /\ 1 <= i
    BY <1>1
  <2> QED
    BY <2>1, OrderedFacts
<1>3. 1 \in DOMAIN s
  BY <1>1
<1> QED
  BY <1>1, <1>2, <1>3 DEF Range

\* skip_key moves all sources right of key g.
LEMMA SkipKeeps ==
    ASSUME NEW bef, bef \subseteq aborted, NEW m, NEW d0, NEW d1,
           m \subseteq Recs, d0 \subseteq Recs, d1 \subseteq Recs, SlotOlder(d1, m \cup d0),
           NEW f \in Int, NEW g \in Int, f < g, NEW src,
           WalkOk(q.cap, bef, aborted, m, d0, d1, f, src), HeadsAt(src, g)
    PROVE  WalkOk(q.cap, bef, aborted, m, d0, d1, g, SkipKey(src, g))
<1>1. PICK s1, s2, s3 : s1 = src[1] /\ s2 = src[2] /\ s3 = src[3]
  OBVIOUS
<1>2. PICK t1, t2, t3 : t1 = HeapSkip(s1, g) /\ t2 = HeapSkip(s2, g) /\ t3 = LevelSkip(s3, g)
  OBVIOUS
<1>3. PICK t : t = SkipKey(src, g)
  OBVIOUS
<1>4. t = <<t1, t2, t3>> /\ t[1] = t1 /\ t[2] = t2 /\ t[3] = t3
  BY <1>1, <1>2, <1>3 DEF SkipKey
<1>5. /\ HeapSeq(s1) /\ Range(s1) \subseteq m /\ HeapSeq(s2) /\ Range(s2) \subseteq d0
      /\ LevelRest(s3, d1, f)
  BY <1>1 DEF WalkOk
<1>6. /\ HeapSeq(t1) /\ Range(t1) = {r \in Range(s1) : r.key > g}
      /\ HeapSeq(t2) /\ Range(t2) = {r \in Range(s2) : r.key > g}
  <2>1. \A r \in Range(s1) \cup Range(s2) : r.key >= g
    BY <1>1 DEF HeadsAt, Heaps
  <2> QED
    BY <1>2, <1>5, <2>1, HeapSkips
<1> DEFINE A == Above(m, d0, f)
           B == Above(m, d0, g)
           U == {k \in Nat : k > g}
           Y == Heaps(src)
           Z == Heaps(t)
<1>7. Z = {y \in Y : y.key \in U} /\ B = {x \in A : x.key \in U}
  <2>1. \A x \in m \cup d0 : x.key \in Nat
    BY RecFields
  <2>2. \A y \in Range(s1) \cup Range(s2) : y.key \in Nat
    BY <1>5, <2>1
  <2>3. Y = Range(s1) \cup Range(s2) /\ Z = Range(t1) \cup Range(t2)
    BY <1>1, <1>4 DEF Heaps
  <2>4. Z = {y \in Y : y.key \in U}
    BY <1>6, <2>2, <2>3
  <2>5. \A x \in m \cup d0 : x.key > g => x.key > f
    BY <2>1
  <2> QED
    BY <2>1, <2>4, <2>5 DEF Above
<1>8. Reads(q.cap, bef, aborted, B, Z)
  <2>1. Reads(q.cap, bef, aborted, A, Y)
    BY DEF WalkOk
  <2> HIDE DEF A, B, U, Y, Z
  <2> QED
    BY <1>7, <2>1, ReadsKeys
<1>9. LevelRest(t3, d1, g) /\ Reads(q.cap, bef, aborted, B \cup Reach(d1, g, t3), Z \cup HeadSet(t3))
  <2>1. CASE s3 # <<>> /\ Head(s3).key = g
    <3>1. PICK I : I = {i \in DOMAIN s3 : s3[i].key # g /\ Visible(s3[i], q.cap)}
      OBVIOUS
    <3>2. /\ t3 = From(s3, I) /\ I \subseteq DOMAIN s3
          /\ \A i \in DOMAIN s3 : i \in I <=> s3[i].key # g /\ Visible(s3[i], q.cap)
      BY <1>2, <2>1, <3>1 DEF LevelSkip
    <3>3. /\ s3 \in Seq(Recs) /\ Ordered(s3, BeforeRel) /\ Range(s3) \subseteq d1
          /\ \A z \in d1 : z.key > g => z \in Range(s3)
      BY <1>5, <2>1 DEF LevelRest
    <3>4. \A r \in Range(s3) : r.key >= g
      <4>1. \A r \in Range(s3) : g <= r.key
        BY <2>1, <3>3, HeadLeast
      <4>2. \A r \in Range(s3) : r.key \in Nat
        BY <3>3, RecFields
      <4> QED
        BY <4>1, <4>2
    <3>5. /\ LevelRest(t3, d1, g)
          /\ Reads(q.cap, bef, aborted, Reach(d1, g, t3), HeadSet(t3))
          /\ \A y \in HeadSet(t3) : y.ver \notin aborted
      BY <3>2, <3>3, <3>4, LevelMoves
    <3>6. B \subseteq Recs /\ Reach(d1, g, t3) \subseteq Recs /\ SlotOlder(Reach(d1, g, t3), B)
      BY DEF Above, Reach, SlotOlder
    <3> HIDE DEF B, Z
    <3> QED
      BY <1>8, <3>5, <3>6, ReadsJoin
  <2>2. CASE ~(s3 # <<>> /\ Head(s3).key = g)
    <3>1. t3 = s3
      BY <1>2, <2>2 DEF LevelSkip
    <3>2. /\ s3 \in Seq(Recs) /\ Ordered(s3, BeforeRel) /\ Range(s3) \subseteq d1
          /\ \A z \in d1 : s3 # <<>> /\ z.key > Head(s3).key => z \in Range(s3)
      BY <1>5 DEF LevelRest
    <3>3. s3 # <<>> => Head(s3) \in Recs /\ Head(s3).key \in Nat /\ Head(s3).key > g
      <4>1. SUFFICES ASSUME s3 # <<>> PROVE Head(s3) \in Recs /\ Head(s3).key \in Nat /\ Head(s3).key > g
        OBVIOUS
      <4>2. Head(s3) \in Recs
        BY <3>2, <4>1, HeadLeast
      <4>3. Head(s3).key >= g
        BY <1>1, <4>1 DEF HeadsAt, HeadSet
      <4>4. PICK k : k = Head(s3).key
        OBVIOUS
      <4>5. k \in Nat /\ k >= g /\ k # g
        BY <2>2, <4>1, <4>2, <4>3, <4>4, RecFields
      <4> QED
        BY <4>2, <4>4, <4>5
    <3>4. ASSUME NEW r \in Range(s3) PROVE r.key > g
      <4>1. s3 # <<>>
        BY DEF Range
      <4>2. Head(s3).key <= r.key /\ r \in Recs
        BY <3>2, <4>1, HeadLeast
      <4>3. r.key \in Nat
        BY <4>2, RecFields
      <4> QED
        BY <3>3, <4>1, <4>2, <4>3
    <3>5. LevelRest(s3, d1, g)
      BY <3>2, <3>4 DEF LevelRest
    <3>6. HeadSet(s3) = {y \in HeadSet(s3) : y.key \in U}
      BY <3>3 DEF HeadSet
    <3>7. Reach(d1, g, s3) = {z \in Reach(d1, f, s3) : z.key \in U}
      <4>1. \A z \in d1 : z.key \in Nat /\ (z.key > g => z.key > f)
        BY RecFields
      <4> QED
        BY <4>1 DEF Reach
    <3>8. Reads(q.cap, bef, aborted, A \cup Reach(d1, f, s3), Y \cup HeadSet(s3))
      BY <1>1 DEF WalkOk
    <3> HIDE DEF A, B, U, Y, Z
    <3>9. PICK X, X2, Y1, Y2 :
            /\ X = A \cup Reach(d1, f, s3) /\ X2 = B \cup Reach(d1, g, s3)
            /\ Y1 = Y \cup HeadSet(s3) /\ Y2 = Z \cup HeadSet(s3)
      OBVIOUS
    <3>10. /\ Reads(q.cap, bef, aborted, X, Y1)
           /\ X2 \subseteq X /\ \A x \in X : x \in X2 <=> x.key \in U
           /\ Y2 \subseteq Y1 /\ \A y \in Y1 : y \in Y2 <=> y.key \in U
      BY <1>7, <3>6, <3>7, <3>8, <3>9
    <3>11. Reads(q.cap, bef, aborted, X2, Y2)
      BY <3>10, ReadsKeys
    <3> QED
      BY <3>1, <3>5, <3>9, <3>11
  <2> QED
    BY <2>1, <2>2
<1>10. Range(t1) \subseteq m /\ Range(t2) \subseteq d0
  BY <1>5, <1>6
<1>11. WalkOk(q.cap, bef, aborted, m, d0, d1, g, t)
  BY <1>4, <1>6, <1>8, <1>9, <1>10 DEF WalkOk
<1> QED
  BY <1>3, <1>11

\* Right of key 0 there are no end markers to skip.
LEMMA SkipNothing ==
    ASSUME NEW cap, NEW bef, NEW ab, NEW m, NEW d0, NEW d1, NEW f \in Nat, NEW src,
           m \subseteq Recs, d0 \subseteq Recs, d1 \subseteq Recs,
           WalkOk(cap, bef, ab, m, d0, d1, f, src)
    PROVE  SkipKey(src, 0) = src
<1>1. \A r \in Heaps(src) \cup HeadSet(src[3]) : r.key > f /\ r \in Recs
  <2>1. Heaps(src) \subseteq Above(m, d0, f)
    BY DEF WalkOk, Reads
  <2>2. HeadSet(src[3]) \subseteq Range(src[3])
    <3>1. src[3] \in Seq(Recs) /\ Ordered(src[3], BeforeRel)
      BY DEF WalkOk, LevelRest
    <3> QED
      BY <3>1, HeadLeast DEF HeadSet
  <2>3. \A r \in Range(src[3]) : r.key > f /\ r \in d1
    BY DEF WalkOk, LevelRest
  <2> QED
    BY <2>1, <2>2, <2>3 DEF Above
<1>2. \A r \in Heaps(src) \cup HeadSet(src[3]) : r.key # 0
  BY <1>1, RecFields
<1>3. ASSUME NEW s, HeapSeq(s), Range(s) \subseteq Heaps(src) PROVE HeapSkip(s, 0) = s
  <2>1. s # <<>> => Head(s) \in Range(s)
    <3>1. SUFFICES ASSUME s # <<>> PROVE Head(s) \in Range(s)
      OBVIOUS
    <3>2. s \in Seq(Recs)
      BY <1>3 DEF HeapSeq
    <3>3. Range(s) = {Head(s)} \cup Range(Tail(s))
      BY <3>1, <3>2, EndRanges
    <3> QED
      BY <3>3
  <2>2. s # <<>> => Head(s).key # 0
    BY <1>2, <1>3, <2>1
  <2> QED
    BY <2>2 DEF HeapSkip
<1>4. HeapSkip(src[1], 0) = src[1] /\ HeapSkip(src[2], 0) = src[2]
  BY <1>3 DEF WalkOk, Heaps
<1>5. LevelSkip(src[3], 0) = src[3]
  BY <1>2 DEF LevelSkip, HeadSet
<1> QED
  BY <1>4, <1>5 DEF SkipKey, WalkOk

-----------------------------------------------------------------------------
(* The next record of a scan.                                               *)

\* What the property says, for given records, cap and rolled back versions.
Elig(snap, cap, bef, k) ==
    {r \in snap : /\ r.key = k /\ InCap(cap, r) /\ r.ver \notin bef
                  /\ \A s \in snap : SameSlot(r, s) => s.n <= r.n}
NewestOf(E, ab, r) == \A s \in E : s.ver > r.ver => s.ver \in ab
RightIn(E, ab, k, O) ==
    \/ \E r \in E : r \in O /\ ~r.del /\ NewestOf(E, ab, r)
    \/ /\ \A r \in O : r.key # k
       /\ \/ \E r \in E : r.del /\ NewestOf(E, ab, r)
          \/ \A r \in E : r.ver \in ab
Right(snap, cap, bef, ab, k, O) == RightIn(Elig(snap, cap, bef, k), ab, k, O)

\* The two ways to say it.
LEMMA RightSame ==
    ASSUME NEW k, NEW out
    PROVE  RightFor(k, out) <=> Right(q.snap, q.cap, q.before, aborted, k, Range(out))
<1>1. Eligible(k) = Elig(q.snap, q.cap, q.before, k)
  BY DEF Eligible, Elig, InCap
<1>2. \A r \in Eligible(k) : r.key = k
  BY DEF Eligible
<1>3. \A r \in Eligible(k) : Newest(r) <=> NewestOf(Eligible(k), aborted, r)
  BY <1>2 DEF Newest, NewestOf
<1> QED
  BY <1>1, <1>3 DEF RightFor, Right, RightIn

\* What was right stays right when more versions are rolled back.
LEMMA RightLater ==
    ASSUME NEW snap, NEW cap, NEW bef, NEW ab, NEW ab2, ab \subseteq ab2, NEW k, NEW O,
           Right(snap, cap, bef, ab, k, O)
    PROVE  Right(snap, cap, bef, ab2, k, O)
<1>1. PICK E : E = Elig(snap, cap, bef, k)
  OBVIOUS
<1>2. \A r \in E : NewestOf(E, ab, r) => NewestOf(E, ab2, r)
  BY DEF NewestOf
<1>3. RightIn(E, ab, k, O)
  BY <1>1 DEF Right
<1>4. RightIn(E, ab2, k, O)
  BY <1>2, <1>3 DEF RightIn
<1> QED
  BY <1>1, <1>4 DEF Right

\* The first of a heap is the only one with the smallest key.
LEMMA HeapHead ==
    ASSUME NEW s, HeapSeq(s), s # <<>>
    PROVE  Head(s) \in Range(s) /\ \A r \in Range(s) : r = Head(s) \/ Head(s).key < r.key
<1>1. s \in Seq(Recs)
  BY DEF HeapSeq
<1>2. Len(s) \in Nat /\ Len(s) > 0 /\ DOMAIN s = 1..Len(s) /\ Head(s) = s[1]
  BY <1>1, SeqBasics, EndFacts
<1>3. 1 \in DOMAIN s
  BY <1>2
<1>4. ASSUME NEW i \in DOMAIN s PROVE s[i] = s[1] \/ s[1].key < s[i].key
  <2>1. i = 1 \/ 1 < i
    BY <1>2
  <2> QED
    BY <1>3, <2>1 DEF HeapSeq
<1> QED
  BY <1>2, <1>3, <1>4 DEF Range

\* get_min_key_idx finds a first source.
LEMMA MinKeyIdxFacts ==
    ASSUME NEW src, src = <<src[1], src[2], src[3]>>,
           \A j \in 1..3 : src[j] # <<>> => Head(src[j]) \in Recs,
           \E j \in 1..3 : src[j] # <<>>
    PROVE  /\ MinKeyIdx(src) \in 1..3 /\ src[MinKeyIdx(src)] # <<>>
           /\ \A j \in 1..3 : src[j] # <<>> =>
                LET i == MinKeyIdx(src)
                    a == Head(src[i])
                    b == Head(src[j])
                IN  \/ a.key < b.key
                    \/ a.key = b.key /\ (a.ver > b.ver \/ (a.ver = b.ver /\ i <= j))
<1> DEFINE Leq(i, j) == \/ Head(src[i]).key < Head(src[j]).key
                        \/ /\ Head(src[i]).key = Head(src[j]).key
                           /\ \/ Head(src[i]).ver > Head(src[j]).ver
                              \/ Head(src[i]).ver = Head(src[j]).ver /\ i <= j
           N == {j \in 1..3 : src[j] # <<>>}
           M(i) == src[i] # <<>> /\ \A j \in DOMAIN src : src[j] # <<>> => Leq(i, j)
<1>1. DOMAIN src = 1..3
  <2>1. \A x, y, z : DOMAIN <<x, y, z>> = 1..3
    OBVIOUS
  <2> QED
    BY <2>1
<1>2. \A i \in N : Head(src[i]).key \in Nat /\ Head(src[i]).ver \in Nat /\ i \in Nat
  BY RecFields
<1>3. \A i, j \in N : Leq(i, j) \/ Leq(j, i)
  BY <1>2
<1>4. \A i, j, k \in N : Leq(i, j) /\ Leq(j, k) => Leq(i, k)
  <2> SUFFICES ASSUME NEW i \in N, NEW j \in N, NEW k \in N, Leq(i, j), Leq(j, k) PROVE Leq(i, k)
    OBVIOUS
  <2>1. PICK x1, x2, x3, v1, v2, v3 :
          /\ x1 = Head(src[i]).key /\ x2 = Head(src[j]).key /\ x3 = Head(src[k]).key
          /\ v1 = Head(src[i]).ver /\ v2 = Head(src[j]).ver /\ v3 = Head(src[k]).ver
    OBVIOUS
  <2>2. /\ x1 \in Nat /\ x2 \in Nat /\ x3 \in Nat /\ v1 \in Nat /\ v2 \in Nat /\ v3 \in Nat
        /\ i \in Nat /\ j \in Nat /\ k \in Nat
        /\ x1 < x2 \/ (x1 = x2 /\ (v1 > v2 \/ (v1 = v2 /\ i <= j)))
        /\ x2 < x3 \/ (x2 = x3 /\ (v2 > v3 \/ (v2 = v3 /\ j <= k)))
    BY <1>2, <2>1
  <2>3. x1 < x3 \/ (x1 = x3 /\ (v1 > v3 \/ (v1 = v3 /\ i <= k)))
    BY <2>2
  <2> QED
    BY <2>1, <2>3
<1>5. \E i \in N : \A j \in N : Leq(i, j)
  <2>1. \A i \in N : Leq(i, i)
    BY <1>3
  <2> HIDE DEF Leq
  <2>3. N # {}
    OBVIOUS
  <2>4. \A j \in N : j = 1 \/ j = 2 \/ j = 3
    OBVIOUS
  <2> HIDE DEF N
  <2>5. \A i, j \in N : \E k \in N : Leq(k, i) /\ Leq(k, j)
    BY <1>3, <2>1
  <2>6. ASSUME NEW i \in N, NEW j \in N, NEW l \in N
        PROVE  \E k \in N : Leq(k, i) /\ Leq(k, j) /\ Leq(k, l)
    <3>1. PICK a \in N : Leq(a, i) /\ Leq(a, j)
      BY <2>5
    <3>2. PICK k \in N : Leq(k, a) /\ Leq(k, l)
      BY <2>5
    <3>3. Leq(k, i) /\ Leq(k, j)
      BY <1>4, <3>1, <3>2
    <3> QED
      BY <3>2, <3>3
  <2>7. CASE 1 \in N /\ 2 \in N /\ 3 \in N
    <3>1. PICK k \in N : Leq(k, 1) /\ Leq(k, 2) /\ Leq(k, 3)
      BY <2>6, <2>7
    <3> QED
      BY <2>4, <3>1
  <2>8. CASE 1 \notin N /\ 2 \in N /\ 3 \in N
    <3>1. PICK k \in N : Leq(k, 2) /\ Leq(k, 3)
      BY <2>5, <2>8
    <3> QED
      BY <2>4, <2>8, <3>1
  <2>9. CASE 1 \in N /\ 2 \notin N /\ 3 \in N
    <3>1. PICK k \in N : Leq(k, 1) /\ Leq(k, 3)
      BY <2>5, <2>9
    <3> QED
      BY <2>4, <2>9, <3>1
  <2>10. CASE 1 \in N /\ 2 \in N /\ 3 \notin N
    <3>1. PICK k \in N : Leq(k, 1) /\ Leq(k, 2)
      BY <2>5, <2>10
    <3> QED
      BY <2>4, <2>10, <3>1
  <2>11. CASE \E i \in N : \A j \in N : j = i
    BY <2>1, <2>11
  <2> QED
    BY <2>3, <2>4, <2>7, <2>8, <2>9, <2>10, <2>11
<1>6. \E i \in DOMAIN src : M(i)
  <2> HIDE DEF Leq
  <2> QED
    BY <1>1, <1>5
<1>7. MinKeyIdx(src) = CHOOSE i \in DOMAIN src : M(i)
  BY DEF MinKeyIdx
<1>8. MinKeyIdx(src) \in DOMAIN src /\ M(MinKeyIdx(src))
  <2> HIDE DEF M
  <2> QED
    BY <1>6, <1>7
<1> QED
  BY <1>1, <1>8

\* With no source left of key g, the records of a key up to g have been read.
LEMMA InScope ==
    ASSUME NEW snap, NEW d0, NEW d1, d0 \cup d1 \subseteq snap, NEW f \in Nat, NEW src, NEW x \in snap,
           x \in Recs, x.key > f, src[3] # <<>> => x.key <= Head(src[3]).key
    PROVE  x \in Above(MemPart(snap, d0, d1), d0, f) \cup Reach(d1, f, src[3])
<1>1. x.key # 0
  BY RecFields
<1> QED
  BY <1>1 DEF Above, MemPart, Reach

SomeLeft(src) == \E j \in 1..3 : src[j] # <<>>

\* r is the best of the first records of the sources.
FirstBest(src, r) ==
    /\ r \in Heaps(src) \cup HeadSet(src[3])
    /\ HeadsAt(src, r.key)
    /\ \A y \in Heaps(src) \cup HeadSet(src[3]) :
         y.key = r.key => y.ver < r.ver \/ (y.ver = r.ver /\ y.n <= r.n)

\* The source that get_min_key_idx names has the next key and its best record.
LEMMA PickFirst ==
    ASSUME NEW cap, NEW bef, NEW ab, NEW m, NEW d0, NEW d1, NEW f \in Nat, NEW src,
           m \subseteq Recs, d0 \subseteq Recs, d1 \subseteq Recs,
           SlotOlder(d0, m), SlotOlder(d1, m \cup d0),
           WalkOk(cap, bef, ab, m, d0, d1, f, src), SomeLeft(src),
           NEW r, r = Head(src[MinKeyIdx(src)])
    PROVE  FirstBest(src, r)
<1>1. /\ src = <<src[1], src[2], src[3]>> /\ HeapSeq(src[1]) /\ HeapSeq(src[2])
      /\ Range(src[1]) \subseteq m /\ Range(src[2]) \subseteq d0
      /\ src[3] \in Seq(Recs) /\ Ordered(src[3], BeforeRel) /\ Range(src[3]) \subseteq d1
  BY DEF WalkOk, LevelRest
<1>2. /\ src[1] # <<>> => Head(src[1]) \in m
      /\ src[2] # <<>> => Head(src[2]) \in d0
      /\ src[3] # <<>> => Head(src[3]) \in d1
  BY <1>1, HeapHead, HeadLeast
<1>3. \A j \in 1..3 : j = 1 \/ j = 2 \/ j = 3
  OBVIOUS
<1>4. \A j \in 1..3 : src[j] # <<>> => Head(src[j]) \in Recs
  BY <1>2, <1>3
<1>5. PICK i : i = MinKeyIdx(src)
  OBVIOUS
<1>6. /\ i \in 1..3 /\ src[i] # <<>> /\ r = Head(src[i])
      /\ \A j \in 1..3 : src[j] # <<>> =>
           \/ r.key < Head(src[j]).key
           \/ r.key = Head(src[j]).key /\ (r.ver > Head(src[j]).ver \/ (r.ver = Head(src[j]).ver /\ i <= j))
  BY <1>1, <1>4, <1>5, MinKeyIdxFacts DEF SomeLeft
<1>7. r \in Recs /\ r.key \in Nat /\ r.ver \in Nat /\ r.n \in Nat
  BY <1>4, <1>6, RecFields
<1>8. ASSUME NEW y \in Heaps(src) \cup HeadSet(src[3])
      PROVE  \E j \in 1..3 : src[j] # <<>> /\ (y = Head(src[j]) \/ Head(src[j]).key < y.key)
  <2>1. CASE y \in Range(src[1])
    <3>1. src[1] # <<>>
      BY <2>1 DEF Range
    <3>2. y = Head(src[1]) \/ Head(src[1]).key < y.key
      BY <1>1, <2>1, <3>1, HeapHead
    <3> QED
      BY <3>1, <3>2
  <2>2. CASE y \in Range(src[2])
    <3>1. src[2] # <<>>
      BY <2>2 DEF Range
    <3>2. y = Head(src[2]) \/ Head(src[2]).key < y.key
      BY <1>1, <2>2, <3>1, HeapHead
    <3> QED
      BY <3>1, <3>2
  <2>3. CASE y \in HeadSet(src[3])
    <3>1. src[3] # <<>> /\ y = Head(src[3])
      BY <2>3 DEF HeadSet
    <3> QED
      BY <3>1
  <2> QED
    BY <2>1, <2>2, <2>3 DEF Heaps
<1>9. \A y \in Heaps(src) \cup HeadSet(src[3]) : y \in Recs /\ y.key \in Nat /\ y.ver \in Nat /\ y.n \in Nat
  <2>1. Range(src[1]) \subseteq Recs /\ Range(src[2]) \subseteq Recs /\ HeadSet(src[3]) \subseteq Recs
    BY <1>1, <1>2 DEF HeadSet
  <2> QED
    BY <2>1, RecFields DEF Heaps
<1>10. r \in Heaps(src) \cup HeadSet(src[3])
  <2>1. CASE i = 1
    BY <1>1, <1>6, <2>1, HeapHead DEF Heaps
  <2>2. CASE i = 2
    BY <1>1, <1>6, <2>2, HeapHead DEF Heaps
  <2>3. CASE i = 3
    BY <1>6, <2>3 DEF HeadSet
  <2> QED
    BY <1>3, <1>6, <2>1, <2>2, <2>3
<1>11. HeadsAt(src, r.key)
  <2>1. ASSUME NEW y \in Heaps(src) \cup HeadSet(src[3]) PROVE y.key >= r.key
    <3>1. PICK j \in 1..3 : src[j] # <<>> /\ (y = Head(src[j]) \/ Head(src[j]).key < y.key)
      BY <1>8
    <3>2. r.key < Head(src[j]).key \/ r.key = Head(src[j]).key
      BY <1>6, <3>1
    <3>3. Head(src[j]).key \in Nat
      BY <1>4, <3>1, RecFields
    <3>4. PICK a, b, c : a = r.key /\ b = Head(src[j]).key /\ c = y.key
      OBVIOUS
    <3>5. a \in Nat /\ b \in Nat /\ c \in Nat /\ (c = b \/ b < c) /\ (a < b \/ a = b)
      BY <1>7, <1>9, <3>1, <3>2, <3>3, <3>4
    <3>6. c >= a
      BY <3>5
    <3> QED
      BY <3>4, <3>6
  <2> QED
    BY <2>1 DEF HeadsAt
<1>12. ASSUME NEW i1 \in 1..3, NEW j \in 1..3, src[i1] # <<>>, src[j] # <<>>, i1 < j,
              SameSlot(Head(src[j]), Head(src[i1]))
       PROVE  Head(src[j]).n <= Head(src[i1]).n
  <2>1. Head(src[j]).n < Head(src[i1]).n
    <3>1. CASE i1 = 1 /\ j = 2
      BY <1>2, <1>12, <3>1 DEF SlotOlder
    <3>2. CASE i1 = 1 /\ j = 3
      BY <1>2, <1>12, <3>2 DEF SlotOlder
    <3>3. CASE i1 = 2 /\ j = 3
      BY <1>2, <1>12, <3>3 DEF SlotOlder
    <3> QED
      BY <1>12, <3>1, <3>2, <3>3
  <2>2. Head(src[j]).n \in Nat /\ Head(src[i1]).n \in Nat
    BY <1>4, <1>12, RecFields
  <2> QED
    BY <2>1, <2>2
<1>13. ASSUME NEW y \in Heaps(src) \cup HeadSet(src[3]), y.key = r.key
       PROVE  y.ver < r.ver \/ (y.ver = r.ver /\ y.n <= r.n)
  <2>1. PICK j \in 1..3 : src[j] # <<>> /\ (y = Head(src[j]) \/ Head(src[j]).key < y.key)
    BY <1>8
  <2>2. r.key < Head(src[j]).key \/ r.key = Head(src[j]).key
    BY <1>6, <2>1
  <2>3. Head(src[j]).key \in Nat
    BY <1>4, <2>1, RecFields
  <2>4. y = Head(src[j])
    BY <1>7, <1>13, <2>1, <2>2, <2>3
  <2>5. r.ver > y.ver \/ (r.ver = y.ver /\ i <= j)
    BY <1>6, <1>7, <1>13, <2>1, <2>4
  <2>6. r.ver = y.ver /\ i <= j => y.n <= r.n
    <3>1. SUFFICES ASSUME r.ver = y.ver, i <= j PROVE y.n <= r.n
      OBVIOUS
    <3>2. CASE i = j
      <4>1. y = r
        BY <1>6, <2>4, <3>2
      <4> QED
        BY <1>7, <4>1
    <3>3. CASE i < j
      <4>1. SameSlot(Head(src[j]), Head(src[i]))
        BY <1>6, <1>13, <2>4, <3>1 DEF SameSlot
      <4> QED
        BY <1>6, <1>12, <2>1, <2>4, <3>3, <4>1
    <3>4. i < j \/ i = j
      BY <1>6, <3>1
    <3> QED
      BY <3>2, <3>3, <3>4
  <2>7. r.ver > y.ver => y.ver < r.ver
    BY <1>7, <1>9
  <2> QED
    BY <2>5, <2>6, <2>7
<1> QED
  BY <1>10, <1>11, <1>13 DEF FirstBest

\* r lies behind f and is the right choice for its key, and the keys between
\* have none but what was rolled back.
NextRight(snap, cap, bef, ab, f, src, r) ==
    /\ r \in Recs /\ r.key > f /\ HeadsAt(src, r.key)
    /\ r \in Elig(snap, cap, bef, r.key) /\ NewestOf(Elig(snap, cap, bef, r.key), ab, r)
    /\ \A k \in Nat : f < k /\ k < r.key => \A x \in Elig(snap, cap, bef, k) : x.ver \in ab

\* The record found is the right answer for its key, and the keys passed over
\* have none but what was rolled back.
LEMMA PickRight ==
    ASSUME NEW cap, NEW bef, NEW ab, NEW snap, NEW m, NEW d0, NEW d1, NEW f \in Nat, NEW src,
           snap \subseteq Recs, d0 \cup d1 \subseteq snap, m = MemPart(snap, d0, d1),
           SlotOlder(d0, m), SlotOlder(d1, m \cup d0),
           WalkOk(cap, bef, ab, m, d0, d1, f, src), SomeLeft(src),
           NEW r, r = Head(src[MinKeyIdx(src)])
    PROVE  NextRight(snap, cap, bef, ab, f, src, r)
<1> DEFINE X == Above(m, d0, f) \cup Reach(d1, f, src[3])
           Y == Heaps(src) \cup HeadSet(src[3])
<1>1. m \subseteq Recs /\ d0 \subseteq Recs /\ d1 \subseteq Recs /\ m \subseteq snap
  BY DEF MemPart
<1>2. /\ r \in Y /\ HeadsAt(src, r.key)
      /\ \A y \in Y : y.key = r.key => y.ver < r.ver \/ (y.ver = r.ver /\ y.n <= r.n)
  <2>1. FirstBest(src, r)
    BY <1>1, PickFirst
  <2> QED
    BY <2>1 DEF FirstBest
<1>3. Reads(cap, bef, ab, X, Y)
  BY DEF WalkOk
<1>4. X \subseteq snap /\ X \subseteq Recs /\ \A x \in X : x.key > f
  BY <1>1 DEF Above, Reach
<1>5. /\ r \in X /\ InCap(cap, r) /\ r.ver \notin bef
      /\ \A x \in X : SameSlot(r, x) => x.n <= r.n
      /\ \A x \in X : x.key = r.key /\ InCap(cap, x) /\ x.ver > r.ver => x.ver \in ab
  <2> HIDE DEF X, Y
  <2> QED
    BY <1>2, <1>3, <1>4, Unbeaten
<1>6. r \in Recs /\ r.key \in Nat /\ r.key > f
  BY <1>4, <1>5, RecFields
<1>7. src[3] # <<>> => Head(src[3]).key \in Nat /\ r.key <= Head(src[3]).key
  <2>1. SUFFICES ASSUME src[3] # <<>> PROVE Head(src[3]).key \in Nat /\ r.key <= Head(src[3]).key
    OBVIOUS
  <2>2. Head(src[3]) \in d1
    BY <2>1, HeadLeast DEF WalkOk, LevelRest
  <2>3. Head(src[3]).key >= r.key
    BY <1>2, <2>1 DEF HeadsAt, HeadSet
  <2>4. Head(src[3]).key \in Nat
    BY <1>1, <2>2, RecFields
  <2> QED
    BY <1>6, <2>3, <2>4
<1>8. ASSUME NEW x \in snap, x.key > f, x.key <= r.key PROVE x \in X
  <2>1. x \in Recs /\ x.key \in Nat
    BY RecFields
  <2>2. src[3] # <<>> => x.key <= Head(src[3]).key
    BY <1>6, <1>7, <1>8, <2>1
  <2> QED
    BY <1>8, <2>1, <2>2, InScope
<1>9. r \in Elig(snap, cap, bef, r.key)
  <2>1. ASSUME NEW s \in snap, SameSlot(r, s) PROVE s.n <= r.n
    <3>1. s.key > f /\ s.key <= r.key
      BY <1>6, <2>1 DEF SameSlot
    <3> QED
      BY <1>5, <1>8, <2>1, <3>1
  <2> QED
    BY <1>4, <1>5, <2>1 DEF Elig
<1>10. NewestOf(Elig(snap, cap, bef, r.key), ab, r)
  <2>1. ASSUME NEW s \in Elig(snap, cap, bef, r.key), s.ver > r.ver PROVE s.ver \in ab
    <3>1. s \in snap /\ s.key = r.key /\ InCap(cap, s)
      BY DEF Elig
    <3>2. s \in X
      BY <1>6, <1>8, <3>1
    <3> QED
      BY <1>5, <2>1, <3>1, <3>2
  <2> QED
    BY <2>1 DEF NewestOf
<1>11. ASSUME NEW k \in Nat, f < k, k < r.key, NEW x \in Elig(snap, cap, bef, k) PROVE x.ver \in ab
  <2>1. x \in snap /\ x.key = k /\ InCap(cap, x)
    BY DEF Elig
  <2>2. x \in X
    BY <1>6, <1>8, <1>11, <2>1
  <2>3. SUFFICES ASSUME x.ver \notin ab PROVE FALSE
    OBVIOUS
  <2>4. PICK y \in Y : y.key = x.key
    BY <1>3, <2>1, <2>2, <2>3 DEF Reads
  <2>5. y.key >= r.key
    BY <1>2 DEF HeadsAt
  <2> QED
    BY <1>6, <1>11, <2>1, <2>4, <2>5
<1> QED
  BY <1>2, <1>6, <1>9, <1>10, <1>11 DEF NextRight

\* When every source is at its end, all keys have been passed.
LEMMA NothingLeft ==
    ASSUME NEW cap, NEW bef, NEW ab, NEW snap, NEW m, NEW d0, NEW d1, NEW f \in Nat, NEW src,
           snap \subseteq Recs, d0 \cup d1 \subseteq snap, m = MemPart(snap, d0, d1),
           WalkOk(cap, bef, ab, m, d0, d1, f, src), \A j \in 1..3 : src[j] = <<>>,
           NEW k \in Nat, f < k, NEW x \in Elig(snap, cap, bef, k)
    PROVE  x.ver \in ab
<1>1. x \in snap /\ x.key = k /\ InCap(cap, x) /\ x \in Recs
  BY DEF Elig
<1>2. src[1] = <<>> /\ src[2] = <<>> /\ src[3] = <<>>
  OBVIOUS
<1>3. Heaps(src) \cup HeadSet(src[3]) = {}
  BY <1>2 DEF Heaps, HeadSet, Range
<1>4. x.key > f
  BY <1>1
<1>5. x \in Above(m, d0, f) \cup Reach(d1, f, src[3])
  BY <1>1, <1>2, <1>4, InScope
<1>6. Reads(cap, bef, ab, Above(m, d0, f) \cup Reach(d1, f, src[3]), {})
  BY <1>3 DEF WalkOk
<1> QED
  BY <1>1, <1>5, <1>6 DEF Reads

-----------------------------------------------------------------------------
(* What a scan has shown.                                                   *)

\* The keys up to g have their right answers in out.
OutOk(snap, cap, bef, ab, g, out) ==
    /\ out \in Seq(Recs)
    /\ \A i \in DOMAIN out : out[i].key \in Keys /\ out[i].key <= g
    /\ \A i, j \in DOMAIN out : i < j => out[i].key < out[j].key
    /\ \A k \in Keys : k <= g => Right(snap, cap, bef, ab, k, Range(out))

\* A tombstone hides its key.
LEMMA TombstonePassed ==
    ASSUME NEW snap, NEW cap, NEW bef, NEW ab, NEW f \in Nat, NEW out, OutOk(snap, cap, bef, ab, f, out),
           NEW r \in Recs, r.key > f, r.del,
           r \in Elig(snap, cap, bef, r.key), NewestOf(Elig(snap, cap, bef, r.key), ab, r),
           \A k \in Nat : f < k /\ k < r.key => \A x \in Elig(snap, cap, bef, k) : x.ver \in ab
    PROVE  OutOk(snap, cap, bef, ab, r.key, out)
<1>1. PICK g : g = r.key
  OBVIOUS
<1>2. g \in Nat /\ g > f
  BY <1>1, RecFields
<1>3. ASSUME NEW k \in Nat, k > f, NEW s \in Range(out) PROVE s.key # k
  <2>1. PICK i \in DOMAIN out : s = out[i]
    BY DEF Range
  <2>2. s.key <= f /\ s.key \in Nat
    <3>1. out[i] \in Recs
      BY SeqBasics DEF OutOk
    <3> QED
      BY <2>1, <3>1, RecFields DEF OutOk
  <2> QED
    BY <1>3, <2>2
<1>4. ASSUME NEW k \in Keys, k <= g PROVE Right(snap, cap, bef, ab, k, Range(out))
  <2>1. k \in Nat
    BY KeysAssumption, Zenon
  <2>2. CASE k <= f
    BY <2>2 DEF OutOk
  <2>3. CASE k > f /\ k < g
    BY <1>1, <1>3, <2>1, <2>3 DEF Right, RightIn
  <2>4. CASE k = g
    BY <1>1, <1>2, <1>3, <2>1, <2>4 DEF Right, RightIn
  <2> QED
    BY <1>2, <1>4, <2>1, <2>2, <2>3, <2>4
<1>5. ASSUME NEW i \in DOMAIN out PROVE out[i].key <= g
  <2>1. out[i] \in Recs /\ out[i].key <= f
    BY SeqBasics DEF OutOk
  <2>2. out[i].key \in Nat
    BY <2>1, RecFields
  <2> QED
    BY <1>2, <2>1, <2>2
<1>6. OutOk(snap, cap, bef, ab, g, out)
  BY <1>4, <1>5 DEF OutOk
<1> QED
  BY <1>1, <1>6

\* A value is shown.
LEMMA ValuePassed ==
    ASSUME NEW snap, NEW cap, NEW bef, NEW ab, NEW f \in Nat, NEW out, OutOk(snap, cap, bef, ab, f, out),
           NEW r \in Recs, r.key > f, ~r.del,
           r \in Elig(snap, cap, bef, r.key), NewestOf(Elig(snap, cap, bef, r.key), ab, r),
           \A k \in Nat : f < k /\ k < r.key => \A x \in Elig(snap, cap, bef, k) : x.ver \in ab
    PROVE  /\ OutOk(snap, cap, bef, ab, r.key, Append(out, r))
           /\ Append(out, r) # <<>> /\ Last(Append(out, r)) = r
<1>1. PICK g, o2 : g = r.key /\ o2 = Append(out, r)
  OBVIOUS
<1>2. g \in Nat /\ g > f /\ g \in Keys
  <2>1. g \in Nat /\ g > f /\ g \in Keys \cup {0}
    BY <1>1, RecFields
  <2> QED
    BY <2>1
<1>3. PICK n : n = Len(out)
  OBVIOUS
<1>4. /\ out \in Seq(Recs) /\ n \in Nat /\ DOMAIN out = 1..n
      /\ o2 \in Seq(Recs) /\ Len(o2) = n + 1 /\ o2[n + 1] = r
      /\ \A i \in DOMAIN out : o2[i] = out[i]
  BY <1>1, <1>3, SeqBasics, AppendFacts DEF OutOk
<1>5. DOMAIN o2 = 1..(n + 1) /\ o2 # <<>>
  <2>1. DOMAIN o2 = 1..Len(o2) /\ (o2 # <<>> <=> Len(o2) > 0)
    BY <1>4, SeqBasics
  <2> QED
    BY <1>4, <2>1
<1>6. Last(o2) = r
  <2>1. Last(o2) = o2[Len(o2)]
    BY <1>4, <1>5, EndFacts
  <2> QED
    BY <1>4, <2>1
<1>7. Range(o2) = Range(out) \cup {r}
  BY <1>1, <1>4, EndRanges
<1>8. \A i \in 1..n : out[i].key \in Nat /\ out[i].key <= f /\ out[i].key \in Keys
  <2>1. \A i \in 1..n : out[i] \in Recs
    BY <1>4, SeqBasics
  <2> QED
    BY <1>4, <2>1, RecFields DEF OutOk
<1>9. ASSUME NEW k \in Nat, k > f, k # g, NEW s \in Range(o2) PROVE s.key # k
  <2>1. CASE s = r
    BY <1>1, <1>9, <2>1
  <2>2. CASE s \in Range(out)
    <3>1. PICK i \in 1..n : s = out[i]
      BY <1>4, <2>2 DEF Range
    <3> QED
      BY <1>8, <1>9, <3>1
  <2> QED
    BY <1>7, <2>1, <2>2
<1>10. ASSUME NEW k \in Keys, k <= g PROVE Right(snap, cap, bef, ab, k, Range(o2))
  <2>1. k \in Nat
    BY KeysAssumption, Zenon
  <2>2. CASE k <= f
    <3>1. Right(snap, cap, bef, ab, k, Range(out))
      BY <2>2 DEF OutOk
    <3>2. r.key # k
      BY <1>1, <1>2, <2>1, <2>2
    <3> QED
      BY <1>7, <3>1, <3>2 DEF Right, RightIn
  <2>3. CASE k > f /\ k < g
    <3>1. \A s \in Range(o2) : s.key # k
      BY <1>2, <1>9, <2>1, <2>3
    <3> QED
      BY <1>1, <2>1, <2>3, <3>1 DEF Right, RightIn
  <2>4. CASE k = g
    BY <1>1, <1>7, <2>4 DEF Right, RightIn
  <2> QED
    BY <1>2, <1>10, <2>1, <2>2, <2>3, <2>4
<1>11. ASSUME NEW i \in DOMAIN o2 PROVE o2[i].key \in Keys /\ o2[i].key <= g
  <2>1. CASE i \in 1..n
    BY <1>2, <1>4, <1>8, <2>1
  <2>2. CASE i = n + 1
    BY <1>1, <1>2, <1>4, <2>2
  <2> QED
    BY <1>4, <1>5, <2>1, <2>2
<1>12. ASSUME NEW i \in DOMAIN o2, NEW j \in DOMAIN o2, i < j PROVE o2[i].key < o2[j].key
  <2>1. i \in 1..n
    BY <1>4, <1>5, <1>12
  <2>2. CASE j \in 1..n
    BY <1>4, <1>12, <2>1, <2>2 DEF OutOk
  <2>3. CASE j = n + 1
    <3>1. o2[j].key = g /\ o2[i] = out[i] /\ out[i].key \in Nat /\ out[i].key <= f
      BY <1>1, <1>4, <1>8, <2>1, <2>3
    <3> QED
      BY <1>2, <3>1
  <2> QED
    BY <1>4, <1>5, <2>2, <2>3
<1>13. OutOk(snap, cap, bef, ab, g, o2)
  BY <1>4, <1>10, <1>11, <1>12 DEF OutOk
<1> QED
  BY <1>1, <1>5, <1>6, <1>13

-----------------------------------------------------------------------------
(* The invariant of a read.                                                 *)

IsQuery(x) ==
    x = [ph |-> x.ph, cap |-> x.cap, lo |-> x.lo, hi |-> x.hi, items |-> x.items, next |-> x.next,
         src |-> x.src, out |-> x.out, before |-> x.before, snap |-> x.snap]

\* Every item comes from a source before file x.next.
ItemsOk(x, fs) == PriOk(x.items) /\ \A a \in x.items : a.pri > Len(fs) - x.next

\* Memory has been copied, and the files of level 0 before x.next.
L0Ok(x, ab, m, fs, n0) ==
    /\ x.next \in 1..(n0 + 1) /\ x.out = <<>>
    /\ x.src = <<x.src[1]>> /\ HeapSeq(x.src[1]) /\ Range(x.src[1]) \subseteq m
    /\ ItemsOk(x, fs) /\ Candidates(x.items) \subseteq FileSet(fs, x.next)
    /\ Reads(x.cap, x.before, ab, m \cup FileSet(fs, x.next), Range(x.src[1]) \cup Candidates(x.items))

\* The scan has passed the keys up to f.
WalkAt(x, ab, m, d0, d1, f) == WalkOk(x.cap, x.before, ab, m, d0, d1, f, x.src)
Shown(x, ab, g) == OutOk(x.snap, x.cap, x.before, ab, g, x.out)
Walking(x, ab, m, d0, d1) == \E f \in Nat : WalkAt(x, ab, m, d0, d1, f) /\ Shown(x, ab, f)
Stopped(x, ab, m, d0, d1) ==
    /\ x.out # <<>>
    /\ \E f \in Nat : f < Last(x.out).key /\ WalkAt(x, ab, m, d0, d1, f)
    /\ HeadsAt(x.src, Last(x.out).key) /\ Shown(x, ab, Last(x.out).key)
Ended(x, ab) == \E g \in Nat : (\A k \in Keys : Right(x.snap, x.cap, x.before, ab, k, Range(x.out)))
                               /\ Shown(x, ab, g)

\* The records of an interval, but for end markers.
InInterval(S, lo, hi) == {r \in S : r.key \in InKeys(lo, hi)}

\* The interval has been collected from memory and the files before x.next.
RangeOk(x, ab, m, fs) ==
    /\ x.lo \in Nat /\ x.hi \in Nat /\ x.next \in 1..(Len(fs) + 1) /\ ItemsOk(x, fs)
    /\ Reads(x.cap, x.before, ab, InInterval(m \cup FileSet(fs, x.next), x.lo, x.hi), Candidates(x.items))

PhaseOk(x, ab, m, d0, d1, fs, n0) ==
    \/ x.ph = "l0" /\ L0Ok(x, ab, m, fs, n0)
    \/ x.ph = "walk" /\ Walking(x, ab, m, d0, d1)
    \/ x.ph = "at" /\ Stopped(x, ab, m, d0, d1)
    \/ x.ph = "end" /\ Ended(x, ab)
    \/ x.ph = "range" /\ RangeOk(x, ab, m, fs)

QueryOk(x, ab, d0, d1, fs, n0, w) ==
    \/ x = NoQuery
    \/ /\ IsQuery(x) /\ SnapOk(x.snap, d0, d1, w) /\ x.before \subseteq ab
       /\ PhaseOk(x, ab, MemPart(x.snap, d0, d1), d0, d1, fs, n0)

RInv == DataInv /\ QueryOk(q, aborted, Disk0, Disk1, Files, Len(l0), writes)

\* The orders between memory and the levels.
LEMMA SnapOrders ==
    ASSUME NEW snap, NEW d0, NEW d1, NEW w, SnapOk(snap, d0, d1, w), NEW m, m = MemPart(snap, d0, d1)
    PROVE  /\ snap \subseteq Recs /\ d0 \cup d1 \subseteq snap
           /\ m \subseteq snap /\ m \subseteq Recs /\ d0 \subseteq Recs /\ d1 \subseteq Recs
           /\ SlotOlder(d0, m) /\ SlotOlder(d1, m \cup d0) /\ SlotOlder(d0 \cup d1, m)
BY DEF SnapOk, MemPart, SlotOlder, Older

\* Writes and rollbacks leave a read as it is.
LEMMA LaterKeeps ==
    ASSUME NEW x, NEW ab, NEW ab2, ab \subseteq ab2, NEW d0, NEW d1, NEW fs, NEW n0,
           NEW w, NEW w2 \in Nat, w <= w2, QueryOk(x, ab, d0, d1, fs, n0, w)
    PROVE  QueryOk(x, ab2, d0, d1, fs, n0, w2)
<1> DEFINE m == MemPart(x.snap, d0, d1)
<1>1. SUFFICES ASSUME x # NoQuery PROVE QueryOk(x, ab2, d0, d1, fs, n0, w2)
  BY DEF QueryOk
<1>2. IsQuery(x) /\ SnapOk(x.snap, d0, d1, w) /\ x.before \subseteq ab /\ PhaseOk(x, ab, m, d0, d1, fs, n0)
  BY <1>1 DEF QueryOk
<1>3. SnapOk(x.snap, d0, d1, w2)
  <2>1. ASSUME NEW r \in x.snap PROVE r.n <= w2
    <3>1. r.n <= w /\ w \in Nat /\ r \in Recs
      BY <1>2 DEF SnapOk
    <3>2. r.n \in Nat
      BY <3>1, RecFields
    <3> QED
      BY <3>1, <3>2
  <2> QED
    BY <1>2, <2>1 DEF SnapOk
<1> HIDE DEF m
<1>4. \A X, Y : Reads(x.cap, x.before, ab, X, Y) => Reads(x.cap, x.before, ab2, X, Y)
  BY ReadsLater
<1>5. \A f : WalkAt(x, ab, m, d0, d1, f) => WalkAt(x, ab2, m, d0, d1, f)
  BY <1>4 DEF WalkAt, WalkOk
<1>6. \A k, O : Right(x.snap, x.cap, x.before, ab, k, O) => Right(x.snap, x.cap, x.before, ab2, k, O)
  BY RightLater
<1>7. \A g : Shown(x, ab, g) => Shown(x, ab2, g)
  BY <1>6 DEF Shown, OutOk
<1>8. L0Ok(x, ab, m, fs, n0) => L0Ok(x, ab2, m, fs, n0)
  BY <1>4 DEF L0Ok
<1>9. Walking(x, ab, m, d0, d1) => Walking(x, ab2, m, d0, d1)
  BY <1>5, <1>7 DEF Walking
<1>10. Stopped(x, ab, m, d0, d1) => Stopped(x, ab2, m, d0, d1)
  BY <1>5, <1>7 DEF Stopped
<1>11. Ended(x, ab) => Ended(x, ab2)
  BY <1>6, <1>7 DEF Ended
<1>12. RangeOk(x, ab, m, fs) => RangeOk(x, ab2, m, fs)
  BY <1>4 DEF RangeOk
<1>13. PhaseOk(x, ab2, m, d0, d1, fs, n0)
  BY <1>2, <1>8, <1>9, <1>10, <1>11, <1>12 DEF PhaseOk
<1> QED
  BY <1>2, <1>3, <1>13 DEF QueryOk, m

-----------------------------------------------------------------------------
(* The steps of a read.                                                     *)

\* The fields of a new read.
LEMMA QueryFields ==
    ASSUME NEW ph, NEW cap, NEW lo, NEW hi, NEW items, NEW src, NEW x,
           x = [ph |-> ph, cap |-> cap, lo |-> lo, hi |-> hi, items |-> items, next |-> 1,
                src |-> src, out |-> <<>>, before |-> aborted, snap |-> AllRecords]
    PROVE  /\ IsQuery(x) /\ x.ph = ph /\ x.cap = cap /\ x.lo = lo /\ x.hi = hi /\ x.items = items
           /\ x.next = 1 /\ x.src = src /\ x.out = <<>> /\ x.before = aborted /\ x.snap = AllRecords
<1>1. /\ x.ph = ph /\ x.cap = cap /\ x.lo = lo /\ x.hi = hi /\ x.items = items
      /\ x.next = 1 /\ x.src = src /\ x.out = <<>> /\ x.before = aborted /\ x.snap = AllRecords
  OBVIOUS
<1> QED
  BY <1>1 DEF IsQuery

\* What is copied from memory.
LEMMA MemRead ==
    ASSUME DataInv, NEW cap
    PROVE  /\ MemPart(AllRecords, Disk0, Disk1) = {y \in Mem : y.key # 0}
           /\ Reads(cap, aborted, aborted, MemPart(AllRecords, Disk0, Disk1), Candidates(MemItems(cap)))
<1> DEFINE m == {y \in Mem : y.key # 0}
<1>1. MemPart(AllRecords, Disk0, Disk1) = m
  BY SnapMade DEF MemPart
<1>2. m \subseteq Recs
  BY StoredRecs DEF DataInv
<1>3. Candidates(MemItems(cap)) = {x \in m : Visible(x, cap)}
  BY MemItemsFacts
<1> HIDE DEF m
<1>4. Reads(cap, aborted, aborted, m, {x \in m : Visible(x, cap)})
  BY <1>2, VisibleReads
<1>5. Reads(cap, aborted, aborted, m, Candidates(MemItems(cap)))
  BY <1>3, <1>4
<1> QED
  BY <1>1, <1>5 DEF m

\* Nothing has been read of the files.
LEMMA NoFiles == \A fs : FileSet(fs, 1) = {}
BY DEF FileSet

\* The constructor copies the memory.
LEMMA ScanBeginKeeps ==
    ASSUME DataInv, NEW cap \in Caps, ScanBegin(cap)
    PROVE  QueryOk(q', aborted, Disk0, Disk1, Files, Len(l0), writes)
<1>1. PICK s1, x : s1 = Heap(MemItems(cap)) /\ x = q'
  OBVIOUS
<1>2. PICK lo, hi, src : lo = Min(Keys) /\ hi = Max(Keys) /\ src = <<s1>>
  OBVIOUS
<1>3. /\ IsQuery(x) /\ x.ph = "l0" /\ x.cap = cap /\ x.items = {} /\ x.next = 1 /\ x.src = <<s1>>
      /\ x.out = <<>> /\ x.before = aborted /\ x.snap = AllRecords
  <2>1. x = [ph |-> "l0", cap |-> cap, lo |-> lo, hi |-> hi, items |-> {}, next |-> 1,
             src |-> src, out |-> <<>>, before |-> aborted, snap |-> AllRecords]
    BY <1>1, <1>2 DEF ScanBegin, Query, AllRecords
  <2>2. /\ IsQuery(x) /\ x.ph = "l0" /\ x.cap = cap /\ x.lo = lo /\ x.hi = hi /\ x.items = {}
        /\ x.next = 1 /\ x.src = src /\ x.out = <<>> /\ x.before = aborted /\ x.snap = AllRecords
    BY <2>1, QueryFields
  <2> QED
    BY <1>2, <2>2
<1> DEFINE m == MemPart(AllRecords, Disk0, Disk1)
<1>4. SnapOk(AllRecords, Disk0, Disk1, writes)
  BY SnapMade
<1>5. Reads(cap, aborted, aborted, m, Candidates(MemItems(cap))) /\ m \subseteq Recs /\ m \subseteq AllRecords
  BY <1>4, MemRead, SnapOrders
<1> HIDE DEF m
<1>6. PriOk(MemItems(cap)) /\ Candidates(MemItems(cap)) \subseteq AllRecords
  BY <1>5, MemItemsFacts DEF Reads
<1>7. HeapSeq(s1) /\ Range(s1) = Winners(MemItems(cap)) /\ Covers(Winners(MemItems(cap)), Candidates(MemItems(cap)))
  <2>1. /\ AllRecords \subseteq Recs /\ IsFiniteSet(AllRecords) /\ Numbered(AllRecords)
        /\ writes \in Nat /\ \A r \in AllRecords : r.n <= writes
    BY <1>4 DEF SnapOk
  <2> QED
    BY <1>1, <1>6, <2>1, HeapFacts
<1>8. Reads(cap, aborted, aborted, m, Range(s1)) /\ Range(s1) \subseteq m
  <2>1. Reads(cap, aborted, aborted, m, Range(s1))
    BY <1>5, <1>7, ReadsCovered
  <2> QED
    BY <2>1 DEF Reads
<1>9. PriOk({}) /\ Candidates({}) = {} /\ FileSet(Files, 1) = {}
  BY NoFiles DEF PriOk, Candidates
<1>10. Len(l0) \in Nat
  BY FilesFacts DEF DataInv
<1>11. L0Ok(x, aborted, m, Files, Len(l0))
  <2>1. x.src[1] = s1 /\ x.next \in 1..(Len(l0) + 1)
    BY <1>3, <1>10
  <2>2. ItemsOk(x, Files)
    BY <1>3, <1>9 DEF ItemsOk
  <2> QED
    BY <1>3, <1>7, <1>8, <1>9, <2>1, <2>2 DEF L0Ok
<1> QED
  BY <1>1, <1>3, <1>4, <1>11 DEF QueryOk, PhaseOk, m

\* Items of the memory in the interval.
LEMMA RangeBeginKeeps ==
    ASSUME DataInv, NEW cap \in Caps, NEW lo \in Keys, NEW hi \in Keys, RangeBegin(cap, lo, hi)
    PROVE  QueryOk(q', aborted, Disk0, Disk1, Files, Len(l0), writes)
<1>1. PICK all, items, x : /\ all = MemItems(cap) /\ x = q'
                           /\ items = {a \in all : Predicate(a.r.key, lo, hi) = 0}
  OBVIOUS
<1>2. x = [ph |-> "range", cap |-> cap, lo |-> lo, hi |-> hi, items |-> items, next |-> 1,
           src |-> <<>>, out |-> <<>>, before |-> aborted, snap |-> AllRecords]
  BY <1>1 DEF RangeBegin, Query, AllRecords
<1>3. /\ IsQuery(x) /\ x.ph = "range" /\ x.cap = cap /\ x.lo = lo /\ x.hi = hi /\ x.items = items
      /\ x.next = 1 /\ x.before = aborted /\ x.snap = AllRecords
  BY <1>2, QueryFields
<1> DEFINE m == MemPart(AllRecords, Disk0, Disk1)
           C == Candidates(all)
           D == Candidates(items)
           X == InInterval(m \cup FileSet(Files, 1), lo, hi)
<1>4. SnapOk(AllRecords, Disk0, Disk1, writes)
  BY SnapMade
<1>5. Reads(cap, aborted, aborted, m, C)
  BY <1>1, MemRead
<1>6. PriOk(all) /\ \A a \in all : a.pri > Len(Files) - 1
  BY <1>1, MemItemsFacts
<1>7. lo \in Nat /\ hi \in Nat
  BY KeysAssumption, Zenon
<1>8. \A a \in all : a \in items <=> a.r.key \in InKeys(lo, hi)
  <2>1. ASSUME NEW a \in all PROVE Predicate(a.r.key, lo, hi) = 0 <=> a.r.key \in InKeys(lo, hi)
    <3>1. a.r.key \in Nat
      BY <1>6, RecFields DEF PriOk
    <3> QED
      BY <1>7, <3>1, PredicateFacts
  <2> QED
    BY <1>1, <2>1
<1>9. items \subseteq all
  BY <1>1
<1>10. PriOk(items) /\ \A a \in items : a.pri > Len(Files) - 1
  BY <1>6, <1>9 DEF PriOk
<1>11. D \subseteq C /\ \A y \in C : y \in D <=> y.key \in InKeys(lo, hi)
  BY <1>8, <1>9 DEF Candidates
<1>12. X \subseteq m /\ \A y \in m : y \in X <=> y.key \in InKeys(lo, hi)
  BY NoFiles DEF InInterval
<1> HIDE DEF m, C, D, X
<1>13. Reads(cap, aborted, aborted, X, D)
  BY <1>5, <1>11, <1>12, ReadsKeys
<1>14. Len(Files) \in Nat
  BY FilesFacts, SeqBasics DEF DataInv
<1>15. RangeOk(x, aborted, m, Files)
  <2>1. x.next \in 1..(Len(Files) + 1)
    BY <1>3, <1>14
  <2>2. ItemsOk(x, Files)
    BY <1>3, <1>10 DEF ItemsOk
  <2> QED
    BY <1>3, <1>7, <1>13, <2>1, <2>2 DEF RangeOk, D, X
<1> QED
  BY <1>1, <1>3, <1>4, <1>15 DEF QueryOk, PhaseOk, m

\* What the invariant says of a read under way.
LEMMA InQuery ==
    ASSUME RInv, Reading
    PROVE  /\ IsQuery(q) /\ SnapOk(q.snap, Disk0, Disk1, writes) /\ q.before \subseteq aborted
           /\ PhaseOk(q, aborted, MemPart(q.snap, Disk0, Disk1), Disk0, Disk1, Files, Len(l0))
<1>1. q # NoQuery
  BY DEF Reading, NoQuery
<1> QED
  BY <1>1 DEF RInv, QueryOk

\* The file a reader takes next is older than all it has read.
LEMMA NextFile ==
    ASSUME DataInv, NEW snap, SnapOk(snap, Disk0, Disk1, writes), NEW m, m = MemPart(snap, Disk0, Disk1),
           NEW i \in DOMAIN Files
    PROVE  /\ FileOk(Files[i]) /\ FileRecs(Files[i]) \subseteq Recs
           /\ m \cup FileSet(Files, i) \subseteq Recs
           /\ SlotOlder(FileRecs(Files[i]), m \cup FileSet(Files, i))
           /\ FileSet(Files, i + 1) = FileSet(Files, i) \cup FileRecs(Files[i])
           /\ i \in Nat /\ i > 0 /\ i <= Len(Files) /\ Len(Files) \in Nat
<1> DEFINE X == FileRecs(Files[i])
<1>1. /\ Files \in Seq(Seq(Seq(Recs))) /\ \A j \in DOMAIN Files : FileOk(Files[j])
  BY FilesFacts DEF DataInv
<1>2. Len(Files) \in Nat /\ DOMAIN Files = 1..Len(Files)
  BY <1>1, SeqBasics
<1>3. m \subseteq Recs /\ Disk0 \subseteq Recs /\ Disk1 \subseteq Recs /\ SlotOlder(Disk0 \cup Disk1, m)
  BY SnapOrders
<1>4. \A j \in DOMAIN Files : FileRecs(Files[j]) \subseteq Disk0 \cup Disk1
  BY FileSlots
<1>5. \A j \in DOMAIN Files : j < i => SlotOlder(X, FileRecs(Files[j]))
  BY FileSlots
<1>6. ASSUME NEW y \in FileSet(Files, i)
      PROVE  \E j \in DOMAIN Files : j < i /\ y \in FileRecs(Files[j])
  <2>1. PICK j \in 1..(i - 1) : y \in FileRecs(Files[j])
    BY DEF FileSet
  <2>2. j \in DOMAIN Files /\ j < i
    BY <1>2, <2>1
  <2> QED
    BY <2>1, <2>2
<1> HIDE DEF X
<1>7. SlotOlder(X, m)
  BY <1>3, <1>4 DEF SlotOlder, X
<1>8. SlotOlder(X, FileSet(Files, i))
  BY <1>5, <1>6 DEF SlotOlder
<1>9. SlotOlder(X, m \cup FileSet(Files, i))
  BY <1>7, <1>8 DEF SlotOlder
<1>10. FileSet(Files, i) \subseteq Recs
  BY <1>3, <1>4, <1>6
<1>11. i \in Nat /\ i > 0 /\ i <= Len(Files)
  BY <1>2
<1> QED
  BY <1>1, <1>2, <1>3, <1>4, <1>9, <1>10, <1>11, FileSetGrows DEF X

\* One more file of level 0.
LEMMA ScanL0Keeps ==
    ASSUME RInv, ScanL0
    PROVE  QueryOk(q', aborted, Disk0, Disk1, Files, Len(l0), writes)
<1> DEFINE m == MemPart(q.snap, Disk0, Disk1)
<1>1. q.ph = "l0" /\ q.next <= Len(l0) /\ Reading /\ DataInv
  BY DEF ScanL0, Reading, RInv
<1>2. IsQuery(q) /\ SnapOk(q.snap, Disk0, Disk1, writes) /\ q.before \subseteq aborted
      /\ L0Ok(q, aborted, m, Files, Len(l0))
  BY <1>1, InQuery DEF PhaseOk
<1>3. Len(l0) \in Nat /\ (\A i \in DOMAIN l0 : i \in DOMAIN Files /\ Files[i] = l0[i]) /\ DOMAIN l0 = 1..Len(l0)
  BY <1>1, FilesFacts, SeqBasics DEF DataInv, FilesOk
<1>4. q.next \in DOMAIN l0
  BY <1>1, <1>2, <1>3 DEF L0Ok
<1>5. PICK nx, H, p : /\ nx = q.next /\ p = Priority(q.next)
                      /\ H = Heads(Records(l0[q.next]), q.cap)
  OBVIOUS
<1> DEFINE X1 == m \cup FileSet(Files, nx)
           Y1 == Range(q.src[1]) \cup Candidates(q.items)
           X2 == FileRecs(Files[nx])
           items == q.items \cup Items(H, p)
<1>6. /\ nx \in DOMAIN Files /\ Files[nx] = l0[nx] /\ p = Len(Files) - nx
      /\ H = Heads(Records(Files[nx]), q.cap)
  BY <1>3, <1>4, <1>5 DEF Priority
<1>7. /\ FileOk(Files[nx]) /\ X2 \subseteq Recs /\ X1 \subseteq Recs /\ SlotOlder(X2, X1)
      /\ FileSet(Files, nx + 1) = FileSet(Files, nx) \cup X2
      /\ nx \in Nat /\ nx > 0 /\ nx <= Len(Files) /\ Len(Files) \in Nat
  BY <1>1, <1>2, <1>6, NextFile
<1>8. Covers(H, {x \in X2 : Visible(x, q.cap)}) /\ \A r, t \in H : r.key = t.key => r = t
  <2>1. Records(Files[nx]) \in Seq(Recs) /\ Ordered(Records(Files[nx]), BeforeRel)
    BY <1>7, FileRecords
  <2> QED
    BY <1>6, <2>1, HeadsFacts DEF FileRecs
<1>9. H \subseteq X2 /\ \A y \in H : y.ver \notin aborted
  BY <1>8 DEF Covers, Visible
<1>10. Reads(q.cap, q.before, aborted, X2, H)
  <2>1. Reads(q.cap, q.before, aborted, X2, {x \in X2 : Visible(x, q.cap)})
    BY <1>2, <1>7, VisibleReads
  <2> HIDE DEF X2
  <2> QED
    BY <1>7, <1>8, <2>1, ReadsCovered
<1>11. Reads(q.cap, q.before, aborted, X1, Y1)
  BY <1>2, <1>5 DEF L0Ok
<1>12. Reads(q.cap, q.before, aborted, X1 \cup X2, Y1 \cup H)
  <2> HIDE DEF X1, X2, Y1
  <2> QED
    BY <1>7, <1>9, <1>10, <1>11, ReadsJoin
<1>13. SlotOlder(H, Candidates(q.items))
  <2>1. Candidates(q.items) \subseteq X1
    BY <1>2, <1>5 DEF L0Ok
  <2> HIDE DEF X1, X2
  <2> QED
    BY <1>7, <1>9, <2>1 DEF SlotOlder
<1>14. /\ PriOk(items) /\ Candidates(items) = Candidates(q.items) \cup H
       /\ \A a \in items : a.pri >= p
  <2>1. PriOk(q.items) /\ \A a \in q.items : a.pri > p
    BY <1>2, <1>5, <1>6 DEF L0Ok, ItemsOk
  <2>2. p \in Int
    BY <1>6, <1>7
  <2>3. H \subseteq Recs
    BY <1>7, <1>9
  <2> QED
    BY <1>8, <1>13, <2>1, <2>2, <2>3, ItemsGrow
<1>15. PICK y : y = q'
  OBVIOUS
<1>16. /\ y = [q EXCEPT !.next = nx + 1, !.items = items]
  BY <1>5, <1>15 DEF ScanL0
<1> HIDE DEF items, m
<1>17. /\ IsQuery(y) /\ y.ph = q.ph /\ y.cap = q.cap /\ y.items = items /\ y.next = nx + 1
       /\ y.src = q.src /\ y.out = q.out /\ y.before = q.before /\ y.snap = q.snap
  BY <1>2, <1>16 DEF IsQuery
<1>18. ItemsOk(y, Files)
  <2>1. ASSUME NEW a \in items PROVE a.pri > Len(Files) - (nx + 1)
    <3>1. a.pri \in Int /\ a.pri >= p
      BY <1>14 DEF PriOk
    <3> QED
      BY <1>6, <1>7, <3>1
  <2> QED
    BY <1>14, <1>17, <2>1 DEF ItemsOk
<1>19. L0Ok(y, aborted, m, Files, Len(l0))
  <2>1. y.next \in 1..(Len(l0) + 1)
    BY <1>1, <1>3, <1>5, <1>7, <1>17
  <2>2. m \cup FileSet(Files, nx + 1) = X1 \cup X2 /\ Range(q.src[1]) \cup Candidates(items) = Y1 \cup H
    BY <1>7, <1>14
  <2>3. Reads(q.cap, q.before, aborted, m \cup FileSet(Files, nx + 1), Range(q.src[1]) \cup Candidates(items))
    BY <1>12, <2>2
  <2>4. Candidates(items) \subseteq FileSet(Files, nx + 1)
    BY <1>2, <1>5, <1>7, <1>9, <1>14 DEF L0Ok
  <2> QED
    BY <1>2, <1>17, <1>18, <2>1, <2>3, <2>4 DEF L0Ok
<1> QED
  BY <1>1, <1>2, <1>15, <1>17, <1>19 DEF QueryOk, PhaseOk, m

\* One more file of the engine, pruned to the interval.
LEMMA RangeFileKeeps ==
    ASSUME RInv, RangeFile
    PROVE  QueryOk(q', aborted, Disk0, Disk1, Files, Len(l0), writes)
<1> DEFINE m == MemPart(q.snap, Disk0, Disk1)
<1>1. q.ph = "range" /\ q.next <= Len(Files) /\ Reading /\ DataInv
  BY DEF RangeFile, Reading, RInv
<1>2. IsQuery(q) /\ SnapOk(q.snap, Disk0, Disk1, writes) /\ q.before \subseteq aborted
      /\ RangeOk(q, aborted, m, Files)
  BY <1>1, InQuery DEF PhaseOk
<1>3. Len(Files) \in Nat /\ DOMAIN Files = 1..Len(Files)
  <2>1. Files \in Seq(Seq(Seq(Recs)))
    BY <1>1, FilesFacts DEF DataInv
  <2> QED
    BY <2>1, SeqBasics
<1>4. PICK nx, H, p, lo, hi : /\ nx = q.next /\ p = Priority(q.next) /\ lo = q.lo /\ hi = q.hi
                              /\ H = FileRange(Files[q.next], q.cap, q.lo, q.hi)
  OBVIOUS
<1>5. nx \in DOMAIN Files /\ lo \in Nat /\ hi \in Nat /\ p = Len(Files) - nx
  BY <1>1, <1>2, <1>3, <1>4 DEF RangeOk, Priority
<1> DEFINE X1 == InInterval(m \cup FileSet(Files, nx), lo, hi)
           Y1 == Candidates(q.items)
           X2 == InInterval(FileRecs(Files[nx]), lo, hi)
           items == q.items \cup Items(H, p)
<1>6. /\ FileOk(Files[nx]) /\ FileRecs(Files[nx]) \subseteq Recs
      /\ m \cup FileSet(Files, nx) \subseteq Recs
      /\ SlotOlder(FileRecs(Files[nx]), m \cup FileSet(Files, nx))
      /\ FileSet(Files, nx + 1) = FileSet(Files, nx) \cup FileRecs(Files[nx])
      /\ nx \in Nat /\ nx > 0 /\ nx <= Len(Files) /\ Len(Files) \in Nat
  BY <1>1, <1>2, <1>5, NextFile
<1>7. /\ X1 \subseteq Recs /\ X2 \subseteq Recs /\ SlotOlder(X2, X1)
      /\ X1 \cup X2 = InInterval(m \cup FileSet(Files, nx + 1), lo, hi)
  BY <1>6 DEF SlotOlder, InInterval
<1>8. Covers(H, {x \in X2 : Visible(x, q.cap)}) /\ \A r, t \in H : r.key = t.key => r = t
  <2>1. /\ Covers(H, {x \in FileRecs(Files[nx]) : x.key \in InKeys(lo, hi) /\ Visible(x, q.cap)})
        /\ \A r, t \in H : r.key = t.key => r = t
    <3>1. PICK f, c : f = Files[nx] /\ c = q.cap
      OBVIOUS
    <3>2. FileOk(f)
      BY <1>6, <3>1
    <3>3. /\ Covers(FileRange(f, c, lo, hi), {x \in FileRecs(f) : x.key \in InKeys(lo, hi) /\ Visible(x, c)})
          /\ \A r, t \in FileRange(f, c, lo, hi) : r.key = t.key => r = t
      BY <1>5, <3>2, FileRangeFacts
    <3> QED
      BY <1>4, <3>1, <3>3
  <2>2. {x \in FileRecs(Files[nx]) : x.key \in InKeys(lo, hi) /\ Visible(x, q.cap)}
          = {x \in X2 : Visible(x, q.cap)}
    BY DEF InInterval
  <2> QED
    BY <2>1, <2>2
<1> HIDE DEF X1, X2
<1>9. H \subseteq X2 /\ \A y \in H : y.ver \notin aborted
  BY <1>8 DEF Covers, Visible
<1>10. Reads(q.cap, q.before, aborted, X2, H)
  <2>1. Reads(q.cap, q.before, aborted, X2, {x \in X2 : Visible(x, q.cap)})
    BY <1>2, <1>7, VisibleReads
  <2> QED
    BY <1>7, <1>8, <2>1, ReadsCovered
<1>11. Reads(q.cap, q.before, aborted, X1, Y1)
  BY <1>2, <1>4 DEF RangeOk, X1
<1>12. Reads(q.cap, q.before, aborted, X1 \cup X2, Y1 \cup H)
  <2> HIDE DEF Y1
  <2> QED
    BY <1>7, <1>9, <1>10, <1>11, ReadsJoin
<1>13. SlotOlder(H, Candidates(q.items))
  BY <1>7, <1>9, <1>11 DEF SlotOlder, Reads
<1>14. /\ PriOk(items) /\ Candidates(items) = Candidates(q.items) \cup H
       /\ \A a \in items : a.pri >= p
  <2>1. PriOk(q.items) /\ \A a \in q.items : a.pri > p
    BY <1>2, <1>4, <1>5 DEF RangeOk, ItemsOk
  <2>2. p \in Int
    BY <1>5, <1>6
  <2>3. H \subseteq Recs
    BY <1>7, <1>9
  <2> QED
    BY <1>8, <1>13, <2>1, <2>2, <2>3, ItemsGrow
<1>15. PICK y : y = q'
  OBVIOUS
<1>16. /\ y = [q EXCEPT !.next = nx + 1, !.items = items]
  BY <1>4, <1>15 DEF RangeFile
<1> HIDE DEF items, m
<1>17. /\ IsQuery(y) /\ y.ph = q.ph /\ y.cap = q.cap /\ y.items = items /\ y.next = nx + 1
       /\ y.lo = lo /\ y.hi = hi /\ y.before = q.before /\ y.snap = q.snap
  BY <1>2, <1>4, <1>16 DEF IsQuery
<1>18. ItemsOk(y, Files)
  <2>1. ASSUME NEW a \in items PROVE a.pri > Len(Files) - (nx + 1)
    <3>1. a.pri \in Int /\ a.pri >= p
      BY <1>14 DEF PriOk
    <3> QED
      BY <1>5, <1>6, <3>1
  <2> QED
    BY <1>14, <1>17, <2>1 DEF ItemsOk
<1>19. RangeOk(y, aborted, m, Files)
  <2>1. y.next \in 1..(Len(Files) + 1)
    BY <1>6, <1>17
  <2>2. Reads(q.cap, q.before, aborted, InInterval(m \cup FileSet(Files, nx + 1), lo, hi), Candidates(items))
    BY <1>7, <1>12, <1>14
  <2> QED
    BY <1>5, <1>17, <1>18, <2>1, <2>2 DEF RangeOk
<1> QED
  BY <1>1, <1>2, <1>15, <1>17, <1>19 DEF QueryOk, PhaseOk, m

\* A scan under way: its sources, and the orders between what it reads.
LEMMA ScanFacts ==
    ASSUME RInv, q.ph \in {"l0", "walk", "at"}, NEW m, m = MemPart(q.snap, Disk0, Disk1)
    PROVE  /\ DataInv /\ IsQuery(q) /\ SnapOk(q.snap, Disk0, Disk1, writes) /\ q.before \subseteq aborted
           /\ q.ph = "l0" => L0Ok(q, aborted, m, Files, Len(l0))
           /\ q.ph = "walk" => Walking(q, aborted, m, Disk0, Disk1)
           /\ q.ph = "at" => Stopped(q, aborted, m, Disk0, Disk1)
           /\ q.snap \subseteq Recs /\ Disk0 \cup Disk1 \subseteq q.snap
           /\ m \subseteq Recs /\ Disk0 \subseteq Recs /\ Disk1 \subseteq Recs
           /\ SlotOlder(Disk0, m) /\ SlotOlder(Disk1, m \cup Disk0)
<1>1. Reading
  BY DEF Reading
<1>2. IsQuery(q) /\ SnapOk(q.snap, Disk0, Disk1, writes) /\ q.before \subseteq aborted
      /\ PhaseOk(q, aborted, m, Disk0, Disk1, Files, Len(l0))
  BY <1>1, InQuery
<1>3. /\ q.ph = "l0" => L0Ok(q, aborted, m, Files, Len(l0))
      /\ q.ph = "walk" => Walking(q, aborted, m, Disk0, Disk1)
      /\ q.ph = "at" => Stopped(q, aborted, m, Disk0, Disk1)
  BY <1>2 DEF PhaseOk
<1>4. PICK snap, d0, d1, w : snap = q.snap /\ d0 = Disk0 /\ d1 = Disk1 /\ w = writes
  OBVIOUS
<1>5. /\ snap \subseteq Recs /\ d0 \cup d1 \subseteq snap
      /\ m \subseteq Recs /\ d0 \subseteq Recs /\ d1 \subseteq Recs
      /\ SlotOlder(d0, m) /\ SlotOlder(d1, m \cup d0)
  <2>1. SnapOk(snap, d0, d1, w) /\ m = MemPart(snap, d0, d1)
    BY <1>2, <1>4
  <2> QED
    BY <2>1, SnapOrders
<1> QED
  BY <1>2, <1>3, <1>4, <1>5 DEF RInv

\* The copies are complete, and the iterator of the level below is placed.
LEMMA ScanLevelsKeeps ==
    ASSUME RInv, ScanLevels
    PROVE  QueryOk(q', aborted, Disk0, Disk1, Files, Len(l0), writes)
<1> DEFINE m == MemPart(q.snap, Disk0, Disk1)
<1>1. q.ph = "l0" /\ q.next > Len(l0) /\ Reading /\ DataInv
  BY DEF ScanLevels, Reading, RInv
<1>2. IsQuery(q) /\ SnapOk(q.snap, Disk0, Disk1, writes) /\ q.before \subseteq aborted
      /\ L0Ok(q, aborted, m, Files, Len(l0))
  BY <1>1, InQuery DEF PhaseOk
<1>3. Len(l0) \in Nat /\ DOMAIN l0 = 1..Len(l0)
  BY <1>1, FilesFacts, SeqBasics DEF DataInv, FilesOk
<1>4. FileSet(Files, q.next) = Disk0
  <2>1. q.next = Len(l0) + 1
    BY <1>1, <1>2, <1>3 DEF L0Ok
  <2> QED
    BY <1>1, <2>1, FileSlots
<1>5. PICK d0, d1, s : d0 = Disk0 /\ d1 = Disk1 /\ s = LevelRecords(l1)
  OBVIOUS
<1>6. PICK cap, bef, s1, s2, s3 :
        /\ cap = q.cap /\ bef = q.before /\ s1 = q.src[1] /\ s2 = Heap(q.items)
        /\ s3 = Seek(s, cap)
  OBVIOUS
<1>7. /\ q.snap \subseteq Recs /\ d0 \cup d1 \subseteq q.snap
      /\ m \subseteq Recs /\ d0 \subseteq Recs /\ d1 \subseteq Recs
      /\ SlotOlder(d0, m) /\ SlotOlder(d1, m \cup d0)
  BY <1>1, <1>5, ScanFacts
<1> DEFINE W == Winners(q.items)
           C == Candidates(q.items)
<1>8. /\ PriOk(q.items) /\ C \subseteq d0 /\ HeapSeq(s1) /\ Range(s1) \subseteq m
      /\ Reads(cap, bef, aborted, m \cup d0, Range(s1) \cup C) /\ q.out = <<>>
  BY <1>2, <1>4, <1>5, <1>6 DEF L0Ok, ItemsOk
<1> HIDE DEF m
<1>9. HeapSeq(s2) /\ Range(s2) = W /\ Covers(W, C)
  <2>1. /\ q.snap \subseteq Recs /\ IsFiniteSet(q.snap) /\ Numbered(q.snap)
        /\ writes \in Nat /\ \A r \in q.snap : r.n <= writes
    BY <1>2 DEF SnapOk
  <2>2. Candidates(q.items) \subseteq q.snap
    BY <1>7, <1>8
  <2> QED
    BY <1>6, <1>8, <2>1, <2>2, HeapFacts
<1> HIDE DEF W, C
<1>10. Reads(cap, bef, aborted, m \cup d0, Range(s1) \cup Range(s2)) /\ Range(s2) \subseteq d0
  <2>1. Covers(Range(s1) \cup W, Range(s1) \cup C)
    BY <1>9 DEF Covers
  <2>2. m \cup d0 \subseteq Recs
    BY <1>7
  <2>3. Reads(cap, bef, aborted, m \cup d0, Range(s1) \cup W)
    BY <1>8, <2>1, <2>2, ReadsCovered
  <2>4. W \subseteq d0
    BY <1>8, <1>9 DEF Covers
  <2> QED
    BY <1>9, <2>3, <2>4
<1>11. s \in Seq(Recs) /\ Ordered(s, BeforeRel) /\ Range(s) = d1
  BY <1>1, <1>5, StoredRecs DEF DataInv, Disk1
<1>12. \A r \in Recs : r.key \in Nat /\ r.key > -1 /\ r.key >= -1 /\ r.key # -1
  BY RecFields
<1>13. /\ LevelRest(s3, d1, -1)
       /\ Reads(cap, bef, aborted, Reach(d1, -1, s3), HeadSet(s3))
       /\ \A y \in HeadSet(s3) : y.ver \notin aborted
  <2>1. PICK I : I = {i \in DOMAIN s : Visible(s[i], cap)}
    OBVIOUS
  <2>2. s3 = From(s, I) /\ I \subseteq DOMAIN s
    BY <1>6, <2>1 DEF Seek
  <2>3. \A i \in DOMAIN s : i \in I <=> s[i].key # -1 /\ Visible(s[i], cap)
    BY <1>11, <1>12, <2>1, SeqBasics
  <2>4. (\A r \in Range(s) : r.key >= -1) /\ (\A z \in d1 : z.key > -1 => z \in Range(s)) /\ Range(s) \subseteq d1
    BY <1>7, <1>11, <1>12
  <2>5. bef \subseteq aborted /\ -1 \in Int
    BY <1>2, <1>6
  <2> QED
    BY <1>7, <1>11, <2>2, <2>3, <2>4, <2>5, LevelMoves
<1>14. PICK src : src = <<s1, s2, s3>>
  OBVIOUS
<1>15. /\ src[1] = s1 /\ src[2] = s2 /\ src[3] = s3
       /\ Heaps(src) = Range(s1) \cup Range(s2) /\ src = <<src[1], src[2], src[3]>>
  BY <1>14 DEF Heaps
<1>16. Above(m, d0, -1) = m \cup d0
  BY <1>7, <1>12 DEF Above
<1>17. WalkOk(cap, bef, aborted, m, d0, d1, -1, src)
  <2>1. Reads(cap, bef, aborted, Above(m, d0, -1), Heaps(src))
    BY <1>10, <1>15, <1>16
  <2>2. SlotOlder(Reach(d1, -1, s3), Above(m, d0, -1))
    BY <1>7, <1>16 DEF SlotOlder, Reach
  <2>3. Above(m, d0, -1) \subseteq Recs /\ Reach(d1, -1, s3) \subseteq Recs
    BY <1>7, <1>16 DEF Reach
  <2>4. Reads(cap, bef, aborted, Above(m, d0, -1) \cup Reach(d1, -1, s3), Heaps(src) \cup HeadSet(s3))
    BY <1>13, <2>1, <2>2, <2>3, ReadsJoin
  <2> QED
    BY <1>8, <1>9, <1>10, <1>13, <1>15, <2>1, <2>4 DEF WalkOk
<1>18. HeadsAt(src, 0)
  <2>1. Range(s1) \cup Range(s2) \subseteq Recs
    BY <1>7, <1>8, <1>10
  <2>2. HeadSet(s3) \subseteq Recs
    BY <1>7, <1>13 DEF Reads, Reach
  <2>3. \A r \in Recs : r.key >= 0
    BY RecFields
  <2> QED
    BY <1>15, <2>1, <2>2, <2>3 DEF HeadsAt
<1>19. PICK src0 : src0 = SkipKey(src, 0)
  OBVIOUS
<1>20. WalkOk(cap, bef, aborted, m, d0, d1, 0, src0)
  <2>1. bef \subseteq aborted
    BY <1>2, <1>6
  <2>2. WalkOk(q.cap, bef, aborted, m, d0, d1, -1, src)
    BY <1>6, <1>17
  <2>3. WalkOk(q.cap, bef, aborted, m, d0, d1, 0, SkipKey(src, 0))
    BY <1>7, <1>18, <2>1, <2>2, SkipKeeps
  <2> QED
    BY <1>6, <1>19, <2>3
<1>21. PICK y : y = q'
  OBVIOUS
<1>22. y = [q EXCEPT !.ph = "walk", !.src = src0]
  BY <1>5, <1>6, <1>14, <1>19, <1>21 DEF ScanLevels
<1>23. /\ IsQuery(y) /\ y.ph = "walk" /\ y.cap = q.cap /\ y.src = src0 /\ y.out = q.out
       /\ y.before = q.before /\ y.snap = q.snap
  BY <1>2, <1>22 DEF IsQuery
<1>24. Shown(y, aborted, 0)
  <2>1. \A k \in Keys : ~(k <= 0)
    <3>1. \A k \in Keys : k \in Nat /\ k # 0
      BY KeysAssumption, Zenon
    <3> QED
      BY <3>1
  <2>2. <<>> \in Seq(Recs) /\ DOMAIN <<>> = {}
    OBVIOUS
  <2> QED
    BY <1>8, <1>23, <2>1, <2>2 DEF Shown, OutOk
<1>25. Walking(y, aborted, m, d0, d1)
  <2>1. WalkAt(y, aborted, m, d0, d1, 0)
    BY <1>6, <1>20, <1>23 DEF WalkAt
  <2> QED
    BY <1>24, <2>1 DEF Walking
<1> QED
  BY <1>2, <1>5, <1>21, <1>23, <1>25 DEF QueryOk, PhaseOk, m

\* A turn of the loop: the end, a tombstone passed, or a value to stop at.
LEMMA ScanStepKeeps ==
    ASSUME RInv, ScanStep
    PROVE  QueryOk(q', aborted, Disk0, Disk1, Files, Len(l0), writes)
<1>1. PICK m, d0, d1, ab : m = MemPart(q.snap, Disk0, Disk1) /\ d0 = Disk0 /\ d1 = Disk1 /\ ab = aborted
  OBVIOUS
<1>2. q.ph = "walk"
  BY DEF ScanStep
<1>3. PICK snap, cap, bef, src, out :
        snap = q.snap /\ cap = q.cap /\ bef = q.before /\ src = q.src /\ out = q.out
  OBVIOUS
<1>4. /\ IsQuery(q) /\ SnapOk(q.snap, Disk0, Disk1, writes) /\ q.before \subseteq aborted
      /\ Walking(q, aborted, m, Disk0, Disk1)
      /\ snap \subseteq Recs /\ d0 \cup d1 \subseteq snap /\ m = MemPart(snap, d0, d1)
      /\ m \subseteq Recs /\ d0 \subseteq Recs /\ d1 \subseteq Recs
      /\ SlotOlder(d0, m) /\ SlotOlder(d1, m \cup d0)
  BY <1>1, <1>2, <1>3, ScanFacts
<1>5. PICK f \in Nat : WalkOk(cap, bef, ab, m, d0, d1, f, src) /\ OutOk(snap, cap, bef, ab, f, out)
  BY <1>1, <1>3, <1>4 DEF Walking, WalkAt, Shown
<1>6. src = <<src[1], src[2], src[3]>> /\ DOMAIN src = 1..3
  <2>1. src = <<src[1], src[2], src[3]>>
    BY <1>5 DEF WalkOk
  <2>2. \A x, y, z : DOMAIN <<x, y, z>> = 1..3
    OBVIOUS
  <2> QED
    BY <2>1, <2>2
<1>7. PICK y : y = q'
  OBVIOUS
<1>8. SUFFICES IsQuery(y) /\ y.snap = q.snap /\ y.before = q.before /\ PhaseOk(y, ab, m, d0, d1, Files, Len(l0))
  BY <1>1, <1>4, <1>7 DEF QueryOk
<1>9. CASE \A i \in DOMAIN q.src : q.src[i] = <<>>
  <2>1. y = [q EXCEPT !.ph = "end"]
    BY <1>7, <1>9 DEF ScanStep
  <2>2. /\ IsQuery(y) /\ y.ph = "end" /\ y.snap = q.snap /\ y.before = q.before /\ y.cap = q.cap /\ y.out = q.out
    BY <1>4, <2>1 DEF IsQuery
  <2>3. \A j \in 1..3 : src[j] = <<>>
    BY <1>3, <1>6, <1>9
  <2>4. ASSUME NEW k \in Keys PROVE Right(snap, cap, bef, ab, k, Range(out))
    <3>1. k \in Nat
      BY KeysAssumption, Zenon
    <3>2. CASE k <= f
      BY <1>5, <3>2 DEF OutOk
    <3>3. CASE k > f
      <4>1. \A x \in Elig(snap, cap, bef, k) : x.ver \in ab
        BY <1>4, <1>5, <2>3, <3>1, <3>3, NothingLeft
      <4>2. \A s \in Range(out) : s.key # k
        <5>1. SUFFICES ASSUME NEW i \in DOMAIN out PROVE out[i].key # k
          BY DEF Range
        <5>2. out[i] \in Recs /\ out[i].key <= f
          BY <1>5, SeqBasics DEF OutOk
        <5>3. out[i].key \in Nat
          BY <5>2, RecFields
        <5> QED
          BY <3>1, <3>3, <5>2, <5>3
      <4> QED
        BY <4>1, <4>2 DEF Right, RightIn
    <3> QED
      BY <1>5, <3>1, <3>2, <3>3
  <2>5. Ended(y, ab)
    BY <1>3, <1>5, <2>2, <2>4 DEF Ended, Shown
  <2> QED
    BY <2>2, <2>5 DEF PhaseOk
<1>10. CASE \E i \in DOMAIN q.src : q.src[i] # <<>>
  <2>1. PICK r : r = Head(src[MinKeyIdx(src)])
    OBVIOUS
  <2>2. SomeLeft(src)
    BY <1>3, <1>6, <1>10 DEF SomeLeft
  <2>3. /\ r \in Recs /\ r.key > f /\ HeadsAt(src, r.key)
        /\ r \in Elig(snap, cap, bef, r.key) /\ NewestOf(Elig(snap, cap, bef, r.key), ab, r)
        /\ \A k \in Nat : f < k /\ k < r.key => \A x \in Elig(snap, cap, bef, k) : x.ver \in ab
    <3>1. NextRight(snap, cap, bef, ab, f, src, r)
      BY <1>4, <1>5, <2>1, <2>2, PickRight
    <3> QED
      BY <3>1 DEF NextRight
  <2>4. r.key \in Nat /\ f < r.key
    BY <2>3, RecFields
  <2>5. y = IF r.del THEN [q EXCEPT !.src = SkipKey(src, r.key)]
            ELSE [q EXCEPT !.ph = "at", !.out = Append(out, r)]
    BY <1>3, <1>7, <1>10, <2>1 DEF ScanStep
  <2>6. CASE r.del
    <3>1. PICK g, s2 : g = r.key /\ s2 = SkipKey(src, r.key)
      OBVIOUS
    <3>2. y = [q EXCEPT !.src = s2]
      BY <2>5, <2>6, <3>1
    <3>3. /\ IsQuery(y) /\ y.ph = q.ph /\ y.snap = q.snap /\ y.before = q.before /\ y.cap = q.cap
          /\ y.out = q.out /\ y.src = s2
      BY <1>4, <3>2 DEF IsQuery
    <3>4. OutOk(snap, cap, bef, ab, g, out)
      BY <1>5, <2>3, <2>6, <3>1, TombstonePassed
    <3>5. WalkOk(cap, bef, ab, m, d0, d1, g, s2)
      <4>1. bef \subseteq aborted /\ f \in Int /\ g \in Int /\ f < g /\ HeadsAt(src, g)
        BY <1>3, <1>4, <2>3, <2>4, <3>1
      <4>2. WalkOk(q.cap, bef, aborted, m, d0, d1, f, src)
        BY <1>1, <1>3, <1>5
      <4>3. WalkOk(q.cap, bef, aborted, m, d0, d1, g, SkipKey(src, g))
        BY <1>4, <4>1, <4>2, SkipKeeps
      <4> QED
        BY <1>1, <1>3, <3>1, <4>3
    <3>6. Walking(y, ab, m, d0, d1)
      <4>1. g \in Nat
        BY <2>4, <3>1
      <4> QED
        BY <1>3, <3>3, <3>4, <3>5, <4>1 DEF Walking, WalkAt, Shown
    <3> QED
      BY <1>2, <3>3, <3>6 DEF PhaseOk
  <2>7. CASE ~r.del
    <3>1. PICK o2 : o2 = Append(out, r)
      OBVIOUS
    <3>2. y = [q EXCEPT !.ph = "at", !.out = o2]
      BY <2>5, <2>7, <3>1
    <3>3. /\ IsQuery(y) /\ y.ph = "at" /\ y.snap = q.snap /\ y.before = q.before /\ y.cap = q.cap
          /\ y.out = o2 /\ y.src = q.src
      BY <1>4, <3>2 DEF IsQuery
    <3>4. OutOk(snap, cap, bef, ab, r.key, o2) /\ o2 # <<>> /\ Last(o2) = r
      BY <1>5, <2>3, <2>7, <3>1, ValuePassed
    <3>5. f < Last(o2).key /\ HeadsAt(src, Last(o2).key) /\ OutOk(snap, cap, bef, ab, Last(o2).key, o2)
      BY <2>3, <2>4, <3>4
    <3>6. Stopped(y, ab, m, d0, d1)
      BY <1>3, <1>5, <3>3, <3>4, <3>5 DEF Stopped, WalkAt, Shown
    <3> QED
      BY <3>3, <3>6 DEF PhaseOk
  <2> QED
    BY <2>6, <2>7
<1> QED
  BY <1>9, <1>10

\* operator++ leaves the key shown behind.
LEMMA ScanNextKeeps ==
    ASSUME RInv, ScanNext
    PROVE  QueryOk(q', aborted, Disk0, Disk1, Files, Len(l0), writes)
<1>1. PICK m, d0, d1, ab : m = MemPart(q.snap, Disk0, Disk1) /\ d0 = Disk0 /\ d1 = Disk1 /\ ab = aborted
  OBVIOUS
<1>2. q.ph = "at"
  BY DEF ScanNext
<1>3. PICK snap, cap, bef, src, out, g :
        /\ snap = q.snap /\ cap = q.cap /\ bef = q.before /\ src = q.src /\ out = q.out
        /\ g = Last(q.out).key
  OBVIOUS
<1>4. /\ IsQuery(q) /\ SnapOk(q.snap, Disk0, Disk1, writes) /\ q.before \subseteq aborted
      /\ Stopped(q, aborted, m, Disk0, Disk1)
      /\ m = MemPart(snap, d0, d1)
      /\ m \subseteq Recs /\ d0 \subseteq Recs /\ d1 \subseteq Recs
      /\ SlotOlder(d1, m \cup d0)
  BY <1>1, <1>2, <1>3, ScanFacts
<1>5. out # <<>> /\ HeadsAt(src, g) /\ OutOk(snap, cap, bef, ab, g, out)
  BY <1>1, <1>3, <1>4 DEF Stopped, Shown
<1>6. PICK f \in Nat : f < g /\ WalkOk(cap, bef, ab, m, d0, d1, f, src)
  BY <1>1, <1>3, <1>4 DEF Stopped, WalkAt
<1>7. g \in Nat
  <2>1. out \in Seq(Recs)
    BY <1>5 DEF OutOk
  <2>2. Last(out) = out[Len(out)] /\ Len(out) \in Nat /\ Len(out) > 0
    BY <1>5, <2>1, EndFacts, SeqBasics
  <2>3. Last(out) \in Recs
    BY <2>1, <2>2, SeqBasics
  <2> QED
    BY <1>3, <2>3, RecFields
<1>8. PICK s2 : s2 = SkipKey(src, g)
  OBVIOUS
<1>9. WalkOk(cap, bef, ab, m, d0, d1, g, s2)
  <2>1. bef \subseteq aborted /\ f \in Int /\ g \in Int /\ f < g
    BY <1>3, <1>4, <1>6, <1>7
  <2>2. WalkOk(q.cap, bef, aborted, m, d0, d1, f, src)
    BY <1>1, <1>3, <1>6
  <2>3. WalkOk(q.cap, bef, aborted, m, d0, d1, g, SkipKey(src, g))
    BY <1>4, <1>5, <2>1, <2>2, SkipKeeps
  <2> QED
    BY <1>1, <1>3, <1>8, <2>3
<1>10. SkipKey(s2, 0) = s2
  BY <1>4, <1>7, <1>9, SkipNothing
<1>11. PICK y : y = q'
  OBVIOUS
<1>12. y = [q EXCEPT !.ph = "walk", !.src = s2]
  BY <1>3, <1>8, <1>10, <1>11 DEF ScanNext
<1>13. /\ IsQuery(y) /\ y.ph = "walk" /\ y.snap = q.snap /\ y.before = q.before /\ y.cap = q.cap
       /\ y.out = q.out /\ y.src = s2
  BY <1>4, <1>12 DEF IsQuery
<1>14. Walking(y, ab, m, d0, d1)
  BY <1>3, <1>5, <1>7, <1>9, <1>13 DEF Walking, WalkAt, Shown
<1> QED
  BY <1>1, <1>4, <1>11, <1>13, <1>14 DEF QueryOk, PhaseOk

-----------------------------------------------------------------------------
(* The invariant.                                                           *)

\* An engine with nothing stored.
LEMMA DataStart ==
    ASSUME RInit
    PROVE  DataInv
<1>1. cur = {} /\ frozen = <<>> /\ l0 = <<>> /\ l1 = <<>> /\ writes = 0
  BY DEF RInit
<1>2. \A S : <<>> \in Seq(S) /\ Len(<<>>) = 0 /\ DOMAIN <<>> = {} /\ Range(<<>>) = {}
  BY DEF Range
<1>3. LevelOk(<<>>)
  BY <1>2 DEF LevelOk
<1>4. Range(LevelRecords(<<>>)) = {}
  <2>1. \A i \in DOMAIN <<>> : FileOk(<<>>[i])
    BY <1>2
  <2>2. Range(LevelRecords(<<>>)) = UNION {FileRecs(<<>>[i]) : i \in DOMAIN <<>>}
    BY <1>2, <2>1, LevelFacts
  <2> QED
    BY <1>2, <2>2
<1>5. Mem = {} /\ Disk0 = {} /\ Disk1 = {}
  BY <1>1, <1>2, <1>4 DEF Mem, Disk0, Disk1
<1>6. TablesOk
  BY <1>1, <1>2, FS_EmptySet DEF TablesOk, OneEach
<1>7. FilesOk
  BY <1>1, <1>2, <1>3 DEF FilesOk
<1>8. TableOrder /\ DiskOrder
  BY <1>1, <1>2, <1>5 DEF TableOrder, DiskOrder, Older
<1>9. Numbers
  BY <1>1, <1>5 DEF Numbers, Stored, Numbered
<1> QED
  BY <1>6, <1>7, <1>8, <1>9 DEF DataInv

\* While a read is under way the files stay as they are.
LEMMA FilesStay ==
    ASSUME UNCHANGED <<l0, l1>>
    PROVE  Disk0' = Disk0 /\ Disk1' = Disk1 /\ Files' = Files /\ Len(l0)' = Len(l0)
BY DEF Disk0, Disk1, Files

\* A step of the reader, when it keeps the files.
LEMMA ReaderStep ==
    ASSUME UNCHANGED <<data, aborted, ended, writes>>,
           QueryOk(q', aborted, Disk0, Disk1, Files, Len(l0), writes)
    PROVE  QueryOk(q, aborted, Disk0, Disk1, Files, Len(l0), writes)'
<1>1. UNCHANGED <<l0, l1>> /\ aborted' = aborted /\ writes' = writes
  BY DEF data
<1>2. Disk0' = Disk0 /\ Disk1' = Disk1 /\ Files' = Files /\ Len(l0)' = Len(l0)
  BY <1>1, FilesStay
<1> QED
  BY <1>1, <1>2

\* A step beside the reader: more is written or rolled back.
LEMMA BesideStep ==
    ASSUME RInv, UNCHANGED <<l0, l1, q>>, aborted \subseteq aborted', writes' \in Nat, writes <= writes'
    PROVE  QueryOk(q, aborted, Disk0, Disk1, Files, Len(l0), writes)'
<1>1. Disk0' = Disk0 /\ Disk1' = Disk1 /\ Files' = Files /\ Len(l0)' = Len(l0) /\ q' = q
  BY FilesStay
<1>2. PICK x, ab, ab2, d0, d1, fs, n0, w, w2 :
        /\ x = q /\ ab = aborted /\ ab2 = aborted' /\ d0 = Disk0 /\ d1 = Disk1
        /\ fs = Files /\ n0 = Len(l0) /\ w = writes /\ w2 = writes'
  OBVIOUS
<1>3. QueryOk(x, ab, d0, d1, fs, n0, w) /\ ab \subseteq ab2 /\ w2 \in Nat /\ w <= w2
  BY <1>2 DEF RInv
<1>4. QueryOk(x, ab2, d0, d1, fs, n0, w2)
  BY <1>3, LaterKeeps
<1> QED
  BY <1>1, <1>2, <1>4

\* The lock keeps a flush out of a read.
LEMMA FlushAlone ==
    ASSUME RInv, ~Reading
    PROVE  q = NoQuery
<1>1. \A x, ab, m, d0, d1, fs, n0 : PhaseOk(x, ab, m, d0, d1, fs, n0) => x.ph # "none"
  BY DEF PhaseOk
<1> QED
  BY <1>1 DEF RInv, QueryOk, Reading

\* The invariant is inductive.
LEMMA ReadsStep ==
    ASSUME RInv, [RNext]_rvars
    PROVE  RInv'
<1>1. DataInv'
  BY DataStep DEF RInv
<1>2. DataInv /\ writes \in Nat
  BY DEF RInv, DataInv, Numbers
<1> DEFINE Goal == QueryOk(q, aborted, Disk0, Disk1, Files, Len(l0), writes)'
<1>3. ASSUME q' = NoQuery PROVE Goal
  BY <1>3 DEF QueryOk
<1> HIDE DEF Goal
<1>4. ASSUME NEW k \in Keys, NEW v \in Vers, NEW del \in BOOLEAN, Write(k, v, del) PROVE Goal
  <2>1. UNCHANGED <<l0, l1, q>> /\ aborted \subseteq aborted' /\ writes' \in Nat /\ writes <= writes'
    BY <1>2, <1>4 DEF Write
  <2> QED
    BY <2>1, BesideStep DEF Goal
<1>5. ASSUME NEW v \in Vers, Commit(v) \/ Abort(v) PROVE Goal
  <2>1. UNCHANGED <<l0, l1, q>> /\ aborted \subseteq aborted' /\ writes' \in Nat /\ writes <= writes'
    BY <1>2, <1>5 DEF Commit, Abort, data
  <2> QED
    BY <2>1, BesideStep DEF Goal
<1>6. ASSUME Flush PROVE Goal
  <2>1. q' = NoQuery
    BY <1>6, FlushAlone DEF Flush
  <2> QED
    BY <1>3, <2>1
<1>7. ASSUME NEW cap \in Caps, ScanBegin(cap) PROVE Goal
  <2>1. UNCHANGED <<data, aborted, ended, writes>>
    BY <1>7 DEF ScanBegin
  <2> QED
    BY <1>2, <1>7, <2>1, ScanBeginKeeps, ReaderStep DEF Goal
<1>8. ASSUME ScanL0 PROVE Goal
  <2>1. UNCHANGED <<data, aborted, ended, writes>>
    BY <1>8 DEF ScanL0
  <2> QED
    BY <1>8, <2>1, ScanL0Keeps, ReaderStep DEF Goal
<1>9. ASSUME ScanLevels PROVE Goal
  <2>1. UNCHANGED <<data, aborted, ended, writes>>
    BY <1>9 DEF ScanLevels
  <2> QED
    BY <1>9, <2>1, ScanLevelsKeeps, ReaderStep DEF Goal
<1>10. ASSUME ScanStep PROVE Goal
  <2>1. UNCHANGED <<data, aborted, ended, writes>>
    BY <1>10 DEF ScanStep
  <2> QED
    BY <1>10, <2>1, ScanStepKeeps, ReaderStep DEF Goal
<1>11. ASSUME ScanNext PROVE Goal
  <2>1. UNCHANGED <<data, aborted, ended, writes>>
    BY <1>11 DEF ScanNext
  <2> QED
    BY <1>11, <2>1, ScanNextKeeps, ReaderStep DEF Goal
<1>12. ASSUME ScanDrop \/ RangeReturn PROVE Goal
  BY <1>3, <1>12 DEF ScanDrop, RangeReturn
<1>13. ASSUME NEW cap \in Caps, NEW lo \in Keys, NEW hi \in Keys, RangeBegin(cap, lo, hi) PROVE Goal
  <2>1. UNCHANGED <<data, aborted, ended, writes>>
    BY <1>13 DEF RangeBegin
  <2> QED
    BY <1>2, <1>13, <2>1, RangeBeginKeeps, ReaderStep DEF Goal
<1>14. ASSUME RangeFile PROVE Goal
  <2>1. UNCHANGED <<data, aborted, ended, writes>>
    BY <1>14 DEF RangeFile
  <2> QED
    BY <1>14, <2>1, RangeFileKeeps, ReaderStep DEF Goal
<1>15. ASSUME UNCHANGED rvars PROVE Goal
  <2>1. UNCHANGED <<l0, l1, q>> /\ aborted \subseteq aborted' /\ writes' \in Nat /\ writes <= writes'
    BY <1>2, <1>15 DEF rvars, data
  <2> QED
    BY <2>1, BesideStep DEF Goal
<1>16. Goal
  BY <1>4, <1>5, <1>6, <1>7, <1>8, <1>9, <1>10, <1>11, <1>12, <1>13, <1>14, <1>15 DEF RNext
<1> QED
  BY <1>1, <1>16 DEF RInv, Goal

\* The invariant behind the range reads: the tables and files hold the records
\* in the order they were written, and a read under way has collected, of every
\* source it has passed, what a reading at its start would show.
THEOREM ScanInvariance == RSpec => []RInv
<1>1. RInit => RInv
  BY DataStart DEF RInit, RInv, QueryOk
<1>2. RInv /\ [RNext]_rvars => RInv'
  BY ReadsStep
<1> QED
  BY <1>1, <1>2, PTL DEF RSpec

\* What a scan has passed is the right answer.
LEMMA ScanAnswers ==
    ASSUME RInv
    PROVE  ScanExact
<1> SUFFICES ASSUME q.ph \in {"walk", "at", "end"}
             PROVE  RightAnswer(q.out, Keys,
                      {k \in Keys : q.ph = "end" \/ (q.out # <<>> /\ k <= Last(q.out).key)})
  BY DEF ScanExact
<1>1. PICK m, d0, d1 : m = MemPart(q.snap, Disk0, Disk1) /\ d0 = Disk0 /\ d1 = Disk1
  OBVIOUS
<1>2. PhaseOk(q, aborted, m, d0, d1, Files, Len(l0))
  <2>1. Reading
    BY DEF Reading
  <2> QED
    BY <1>1, <2>1, InQuery
<1>3. PICK g \in Nat : Shown(q, aborted, g) /\ (q.ph = "end" =>
                         \A k \in Keys : Right(q.snap, q.cap, q.before, aborted, k, Range(q.out)))
  <2>1. CASE q.ph = "walk"
    BY <1>2, <2>1 DEF PhaseOk, Walking
  <2>2. CASE q.ph = "at"
    <3>1. Stopped(q, aborted, m, d0, d1)
      BY <1>2, <2>2 DEF PhaseOk
    <3>2. q.out # <<>> /\ Shown(q, aborted, Last(q.out).key) /\ q.out \in Seq(Recs)
      BY <3>1 DEF Stopped, Shown, OutOk
    <3>3. Last(q.out) = q.out[Len(q.out)] /\ Len(q.out) \in Nat /\ Len(q.out) > 0
      BY <3>2, EndFacts, SeqBasics
    <3>4. Last(q.out) \in Recs
      BY <3>2, <3>3, SeqBasics
    <3>5. Last(q.out).key \in Nat
      BY <3>4, RecFields
    <3> QED
      BY <2>2, <3>2, <3>5
  <2>3. CASE q.ph = "end"
    BY <1>2, <2>3 DEF PhaseOk, Ended
  <2> QED
    BY <2>1, <2>2, <2>3
<1>4. PICK snap, cap, bef, ab, out :
        snap = q.snap /\ cap = q.cap /\ bef = q.before /\ ab = aborted /\ out = q.out
  OBVIOUS
<1>5. OutOk(snap, cap, bef, ab, g, out)
  BY <1>3, <1>4 DEF Shown
<1>6. ASSUME NEW k \in Keys, q.ph = "end" \/ (q.out # <<>> /\ k <= Last(q.out).key)
      PROVE  RightFor(k, q.out)
  <2>1. Right(snap, cap, bef, ab, k, Range(out))
    <3>1. CASE q.ph = "end"
      BY <1>3, <1>4, <3>1
    <3>2. CASE q.out # <<>> /\ k <= Last(q.out).key
      <4>1. out \in Seq(Recs) /\ out # <<>> /\ k <= Last(out).key
        BY <1>4, <1>5, <3>2 DEF OutOk
      <4>2. Last(out) = out[Len(out)] /\ Len(out) \in DOMAIN out
        <5>1. Last(out) = out[Len(out)] /\ Len(out) > 0
          BY <4>1, EndFacts
        <5>2. Len(out) \in Nat /\ DOMAIN out = 1..Len(out)
          BY <4>1, SeqBasics
        <5> QED
          BY <5>1, <5>2
      <4>3. Last(out).key <= g /\ Last(out) \in Recs
        BY <1>5, <4>1, <4>2, SeqBasics DEF OutOk
      <4>4. Last(out).key \in Nat /\ k \in Nat
        BY <4>3, RecFields, KeysAssumption
      <4>5. PICK a : a = Last(out).key
        OBVIOUS
      <4>6. k <= g
        BY <4>1, <4>3, <4>4, <4>5
      <4> QED
        BY <1>5, <4>6 DEF OutOk
    <3> QED
      BY <1>6, <3>1, <3>2
  <2> QED
    BY <1>4, <2>1, RightSame
<1>7. /\ \A i \in DOMAIN q.out : q.out[i].key \in Keys
      /\ \A i, j \in DOMAIN q.out : i < j => q.out[i].key < q.out[j].key
  BY <1>4, <1>5 DEF OutOk
<1> QED
  BY <1>6, <1>7 DEF RightAnswer

\* Whatever it has passed, a Level_Iterator has shown, in order of the keys,
\* the newest value of each key as of its construction, for any keys, versions
\* and caps, however writes, rollbacks and flushes come in between.
THEOREM ScansExact == RSpec => []ScanExact
<1>1. RInv => ScanExact
  BY ScanAnswers
<1> QED
  BY <1>1, ScanInvariance, PTL

\* The best candidates of what a reader has collected are the right answers.
LEMMA RangeRight ==
    ASSUME NEW snap, NEW cap, NEW bef, NEW ab, NEW X, NEW C, NEW k,
           snap \subseteq Recs, X \subseteq snap, \A x \in snap : x.key = k => x \in X,
           Reads(cap, bef, ab, X, C), Covers(Best(C), C),
           \A r, s \in Best(C) : r.key = s.key => r = s
    PROVE  Right(snap, cap, bef, ab, k, {r \in Best(C) : ~r.del})
<1> DEFINE W == {r \in Best(C) : ~r.del}
           E == Elig(snap, cap, bef, k)
<1>1. X \subseteq Recs /\ C \subseteq X
  BY DEF Reads
<1>2. \A x \in E : x \in X /\ x.key = k /\ InCap(cap, x)
  BY DEF Elig
<1>3. CASE \A y \in C : y.key # k
  <2>1. \A x \in E : x.ver \in ab
    BY <1>2, <1>3 DEF Reads
  <2>2. \A r \in W : r.key # k
    BY <1>3 DEF Best
  <2> QED
    BY <2>1, <2>2 DEF Right, RightIn
<1>4. ASSUME NEW y \in C, y.key = k PROVE Right(snap, cap, bef, ab, k, W)
  <2>1. PICK r \in Best(C) : r = y \/ Beats(r, y)
    BY DEF Covers
  <2>2. r \in C /\ r.key = k /\ r \in Recs
    BY <1>1, <1>4, <2>1 DEF Best, Beats
  <2>3. ASSUME NEW z \in C, z.key = r.key PROVE z.ver < r.ver \/ (z.ver = r.ver /\ z.n <= r.n)
    <3>1. z \in Recs
      BY <1>1
    <3>2. z = r \/ Beats(r, z)
      BY <2>3 DEF Best
    <3> QED
      BY <2>2, <3>1, <3>2, RecFields DEF Beats
  <2>4. /\ r \in X /\ InCap(cap, r) /\ r.ver \notin bef
        /\ \A x \in X : SameSlot(r, x) => x.n <= r.n
        /\ \A x \in X : x.key = r.key /\ InCap(cap, x) /\ x.ver > r.ver => x.ver \in ab
    <3> HIDE DEF W, E
    <3> QED
      BY <1>1, <2>2, <2>3, Unbeaten
  <2>5. r \in E
    <3>1. \A s \in snap : SameSlot(r, s) => s \in X
      BY <2>2 DEF SameSlot
    <3> QED
      BY <2>2, <2>4, <3>1 DEF Elig
  <2>6. NewestOf(E, ab, r)
    <3> HIDE DEF E
    <3> QED
      BY <1>2, <2>2, <2>4 DEF NewestOf
  <2>7. CASE ~r.del
    <3>1. r \in W
      BY <2>1, <2>7
    <3> QED
      BY <2>5, <2>6, <2>7, <3>1 DEF Right, RightIn
  <2>8. CASE r.del
    <3>1. \A s \in W : s.key # k
      BY <2>1, <2>2, <2>8
    <3> QED
      BY <2>5, <2>6, <2>8, <3>1 DEF Right, RightIn
  <2> QED
    BY <2>7, <2>8
<1> QED
  BY <1>3, <1>4

\* The answer of lsm_iters_monotony_predicate once all files are collected.
LEMMA RangeAnswers ==
    ASSUME RInv, q.ph = "range", q.next > Len(Files),
           NEW K, K = {k \in Keys : q.lo <= k /\ k <= q.hi}
    PROVE  RightAnswer(RangeResult, K, K)
<1> DEFINE m == MemPart(q.snap, Disk0, Disk1)
<1>1. Reading /\ DataInv
  BY DEF Reading, RInv
<1>2. SnapOk(q.snap, Disk0, Disk1, writes) /\ RangeOk(q, aborted, m, Files)
  BY <1>1, InQuery DEF PhaseOk
<1>3. Len(Files) \in Nat
  <2>1. Files \in Seq(Seq(Seq(Recs)))
    BY <1>1, FilesFacts DEF DataInv
  <2> QED
    BY <2>1, SeqBasics
<1>4. FileSet(Files, q.next) = Disk0 \cup Disk1
  <2>1. q.next = Len(Files) + 1
    BY <1>2, <1>3 DEF RangeOk
  <2> QED
    BY <1>1, <2>1, FileSlots
<1>5. PICK snap, cap, bef, ab, lo, hi, items :
        /\ snap = q.snap /\ cap = q.cap /\ bef = q.before /\ ab = aborted
        /\ lo = q.lo /\ hi = q.hi /\ items = q.items
  OBVIOUS
<1> DEFINE C == Candidates(items)
           X == InInterval(m \cup Disk0 \cup Disk1, lo, hi)
           W == {r \in Best(C) : ~r.del}
<1>6. /\ PriOk(items) /\ Reads(cap, bef, ab, X, C) /\ lo \in Nat /\ hi \in Nat
  <2>1. m \cup (Disk0 \cup Disk1) = m \cup Disk0 \cup Disk1
    OBVIOUS
  <2> QED
    BY <1>2, <1>4, <1>5, <2>1 DEF RangeOk, ItemsOk
<1>7. /\ snap \subseteq Recs /\ IsFiniteSet(snap) /\ Numbered(snap)
      /\ writes \in Nat /\ (\A r \in snap : r.n <= writes) /\ Disk0 \cup Disk1 \subseteq snap
  BY <1>2, <1>5 DEF SnapOk
<1>8. X \subseteq snap /\ \A x \in snap : x.key \in InKeys(lo, hi) => x \in X
  <2>1. X \subseteq snap
    BY <1>5, <1>7 DEF InInterval, MemPart
  <2>2. \A x \in snap : x.key \in InKeys(lo, hi) => x \in m \cup Disk0 \cup Disk1
    BY <1>5 DEF InKeys, MemPart
  <2> QED
    BY <2>1, <2>2 DEF InInterval
<1>9. \A x \in X : x.key \in InKeys(lo, hi)
  BY DEF InInterval
<1> HIDE DEF m, X
<1>10. C \subseteq X /\ C \subseteq Recs /\ Numbered(C) /\ \A y \in C : y.n <= writes
  <2>1. C \subseteq X
    BY <1>6 DEF Reads
  <2> HIDE DEF C
  <2> QED
    BY <1>7, <1>8, <2>1 DEF Numbered
<1>11. Covers(Best(C), C) /\ \A r, s \in Best(C) : r.key = s.key => r = s
  <2> HIDE DEF C
  <2> QED
    BY <1>7, <1>10, BestCovers
<1>12. RangeResult = Sorted(W)
  BY <1>5, <1>6, WinnersBest DEF RangeResult
<1>13. W \subseteq C /\ W \subseteq Best(C)
  BY DEF Best
<1>14. RangeResult \in Seq(Recs) /\ Range(RangeResult) = W /\ Ordered(RangeResult, BeforeRel)
  <2>1. W \subseteq Recs /\ IsFiniteSet(W) /\ Numbered(W)
    <3>1. W \subseteq snap
      BY <1>8, <1>10, <1>13
    <3> HIDE DEF W
    <3> QED
      BY <1>7, <3>1, FS_Subset DEF Numbered
  <2> HIDE DEF W
  <2> QED
    BY <1>12, <2>1, SortedFacts
<1>15. PICK out : out = RangeResult
  OBVIOUS
<1> HIDE DEF W, C
<1>16. \A i \in DOMAIN out : out[i] \in W /\ out[i] \in Recs
  BY <1>14, <1>15, SeqBasics DEF Range
<1>17. ASSUME NEW i \in DOMAIN out PROVE out[i].key \in K
  <2>1. out[i].key \in InKeys(lo, hi) /\ out[i].key \in Keys \cup {0}
    BY <1>9, <1>10, <1>13, <1>16, RecFields
  <2> QED
    BY <1>5, <2>1 DEF InKeys
<1>18. ASSUME NEW i \in DOMAIN out, NEW j \in DOMAIN out, i < j PROVE out[i].key < out[j].key
  <2>1. Before(out[i], out[j]) /\ out[i].key <= out[j].key
    <3>1. out \in Seq(Recs) /\ Ordered(out, BeforeRel)
      BY <1>14, <1>15
    <3>2. i <= j
      <4>1. DOMAIN out = 1..Len(out) /\ Len(out) \in Nat
        BY <3>1, SeqBasics
      <4> QED
        BY <1>18, <4>1
    <3> QED
      BY <1>18, <3>1, <3>2, OrderedFacts
  <2>2. out[i].key # out[j].key
    <3>1. SUFFICES ASSUME out[i].key = out[j].key PROVE FALSE
      OBVIOUS
    <3>2. out[i] = out[j]
      BY <1>11, <1>13, <1>16, <3>1
    <3> QED
      BY <1>16, <2>1, <3>2, RecOrders
  <2>3. out[i].key \in Nat /\ out[j].key \in Nat
    BY <1>16, RecFields
  <2> QED
    BY <2>1, <2>2, <2>3
<1>19. ASSUME NEW k \in K PROVE RightFor(k, RangeResult)
  <2>1. k \in InKeys(lo, hi)
    <3>1. k \in Keys /\ lo <= k /\ k <= hi
      BY <1>5
    <3>2. k \in Nat /\ k # 0
      BY <3>1, KeysAssumption, Zenon
    <3> QED
      BY <3>1, <3>2 DEF InKeys
  <2>2. \A x \in snap : x.key = k => x \in X
    BY <1>8, <2>1
  <2>3. Right(snap, cap, bef, ab, k, {r \in Best(C) : ~r.del})
    BY <1>6, <1>7, <1>8, <1>11, <2>2, RangeRight
  <2>4. Right(q.snap, q.cap, q.before, aborted, k, Range(RangeResult))
    BY <1>5, <1>14, <2>3 DEF W
  <2> QED
    BY <2>4, RightSame
<1> QED
  BY <1>15, <1>17, <1>18, <1>19 DEF RightAnswer

\* Only the return of a range read ends it.
LEMMA RangeEnds ==
    ASSUME RInv, RNext, q.ph = "range", q'.ph = "none"
    PROVE  q.next > Len(Files)
<1>1. Reading
  BY DEF Reading
<1>2. IsQuery(q)
  BY <1>1, InQuery
<1>3. \A nx, items : [q EXCEPT !.next = nx, !.items = items].ph = q.ph
  BY <1>2 DEF IsQuery
<1>4. ~(ScanL0 \/ ScanLevels \/ ScanStep \/ ScanNext \/ ScanDrop)
  BY DEF ScanL0, ScanLevels, ScanStep, ScanNext, ScanDrop
<1>5. ~(\E cap \in Caps : ScanBegin(cap)) /\ ~(\E cap \in Caps, lo, hi \in Keys : RangeBegin(cap, lo, hi))
  BY <1>1 DEF ScanBegin, RangeBegin
<1>6. ~Flush
  BY <1>1 DEF Flush
<1>7. \A k \in Keys, v \in Vers, del \in BOOLEAN : ~Write(k, v, del)
  BY DEF Write
<1>8. \A v \in Vers : ~Commit(v) /\ ~Abort(v)
  BY DEF Commit, Abort
<1>9. ~RangeFile
  BY <1>3 DEF RangeFile
<1>10. RangeReturn
  BY <1>4, <1>5, <1>6, <1>7, <1>8, <1>9 DEF RNext
<1> QED
  BY <1>10 DEF RangeReturn

\* The answer for an interval is complete, in order, and of each key the newest
\* value as of the start of the call, whatever blocks are pruned, for any
\* intervals, caps and layouts of tables, blocks and files.
THEOREM RangesExact == RSpec => RangeExact
<1> DEFINE K == {k \in Keys : q.lo <= k /\ k <= q.hi}
           Step == q.ph = "range" /\ q'.ph = "none" => RightAnswer(RangeResult, K, K)
<1>1. RInv /\ [RNext]_rvars => [Step]_rvars
  <2> SUFFICES ASSUME RInv, RNext, q.ph = "range", q'.ph = "none"
               PROVE  RightAnswer(RangeResult, K, K)
    OBVIOUS
  <2>1. q.next > Len(Files)
    BY RangeEnds
  <2> QED
    BY <2>1, RangeAnswers
<1>2. RSpec => [][Step]_rvars
  BY <1>1, ScanInvariance, PTL DEF RSpec
<1> QED
  BY <1>2, PTL DEF RangeExact
=============================================================================
