-------------------------- MODULE SstLevels_proofs --------------------------
(***************************************************************************)
(* The levels of SST files, for every set of keys, number of levels, level *)
(* ratio and bound: nothing flushed is lost, whatever fails or crashes;    *)
(* without faults the levels stay disjoint and lookups find the newest     *)
(* record.                                                                 *)
(***************************************************************************)
EXTENDS SstLevels, ProofLemmas

-----------------------------------------------------------------------------
(* The merge of two levels.                                                 *)

NextTurn(a, b, p) == IF TakesA(a, b, p) THEN <<p[1] + 1, p[2]>> ELSE <<p[1], p[2] + 1>>

\* Each turn of the merge moves one of the two iterators by one record.
LEMMA MergeTurnsUnfold ==
    ASSUME NEW T, NEW a \in Seq(T), NEW b \in Seq(T)
    PROVE  /\ MergeTurns(a, b)[0] = <<0, 0>>
           /\ \A k \in 0..(Len(a) + Len(b) - 1) :
                MergeTurns(a, b)[k + 1] = NextTurn(a, b, MergeTurns(a, b)[k])
<1> DEFINE n == Len(a) + Len(b)
           S == Nat \X Nat
           G(f) == [k \in 0..n |-> IF k = 0 THEN <<0, 0>>
                                   ELSE IF TakesA(a, b, f[k - 1])
                                   THEN <<f[k - 1][1] + 1, f[k - 1][2]>>
                                   ELSE <<f[k - 1][1], f[k - 1][2] + 1>>]
           step == [x \in Nat \X S |-> NextTurn(a, b, x[2])]
           at == CHOOSE f : f = G(f)
<1>1. n \in Nat
  BY SeqBasics
<1>2. MergeTurns(a, b) = at
  BY DEF MergeTurns
<1>3. step \in [Nat \X S -> S] /\ <<0, 0>> \in S
  <2>1. ASSUME NEW p \in S PROVE NextTurn(a, b, p) \in S
    BY DEF NextTurn
  <2> QED
    BY <2>1
<1>4. PICK f \in [0..n -> S] :
         f[0] = <<0, 0>> /\ \A k \in 0..(n - 1) : f[k + 1] = step[<<k, f[k]>>]
  <2> HIDE DEF step, n, S
  <2>1. Unrolled(S, <<0, 0>>, step, n)
    BY <1>1, <1>3, Recursion
  <2> QED
    BY <2>1 DEF Unrolled
<1>5. f = G(f)
  <2>1. ASSUME NEW k \in 0..n, k # 0 PROVE f[k] = NextTurn(a, b, f[k - 1])
    <3>1. k - 1 \in 0..(n - 1) /\ (k - 1) + 1 = k /\ k - 1 \in 0..n /\ k - 1 \in Nat
      BY <1>1, <2>1
    <3>2. f[k - 1] \in S
      BY <3>1
    <3>3. f[(k - 1) + 1] = step[<<k - 1, f[k - 1]>>]
      BY <1>4, <3>1
    <3>4. step[<<k - 1, f[k - 1]>>] = NextTurn(a, b, f[k - 1])
      BY <3>1, <3>2
    <3> QED
      BY <3>1, <3>3, <3>4
  <2>2. \A k \in 0..n : f[k] = IF k = 0 THEN <<0, 0>> ELSE NextTurn(a, b, f[k - 1])
    BY <1>4, <2>1
  <2>3. f = [k \in 0..n |-> f[k]]
    OBVIOUS
  <2>4. f = [k \in 0..n |-> IF k = 0 THEN <<0, 0>> ELSE NextTurn(a, b, f[k - 1])]
    BY <2>2, <2>3
  <2> QED
    BY <2>4, Zenon DEF NextTurn
<1>6. at = G(at)
  <2>1. \E x : x = G(x)
    BY <1>5, Zenon
  <2> HIDE DEF G
  <2> QED
    BY <2>1, Zenon
<1> HIDE DEF at
<1>7. \A k \in 0..n : at[k] = IF k = 0 THEN <<0, 0>> ELSE NextTurn(a, b, at[k - 1])
  <2>1. at = [k \in 0..n |-> IF k = 0 THEN <<0, 0>> ELSE NextTurn(a, b, at[k - 1])]
    BY <1>6, Zenon DEF NextTurn
  <2> QED
    BY <2>1
<1>8. at[0] = <<0, 0>>
  BY <1>1, <1>7
<1>9. ASSUME NEW k \in 0..(n - 1) PROVE at[k + 1] = NextTurn(a, b, at[k])
  <2>1. k + 1 \in 0..n /\ k + 1 # 0 /\ (k + 1) - 1 = k
    BY <1>1
  <2> QED
    BY <1>7, <2>1
<1> QED
  BY <1>2, <1>8, <1>9

\* After k turns k records are out, and neither iterator is past its end.
LEMMA MergeTurnsFacts ==
    ASSUME NEW T, NEW a \in Seq(T), NEW b \in Seq(T)
    PROVE  \A k \in 0..(Len(a) + Len(b)) :
             /\ MergeTurns(a, b)[k] \in (0..Len(a)) \X (0..Len(b))
             /\ MergeTurns(a, b)[k][1] + MergeTurns(a, b)[k][2] = k
             /\ k < Len(a) + Len(b) =>
                  /\ MergeTurns(a, b)[k + 1] = NextTurn(a, b, MergeTurns(a, b)[k])
                  /\ TakesA(a, b, MergeTurns(a, b)[k]) => MergeTurns(a, b)[k][1] < Len(a)
                  /\ ~TakesA(a, b, MergeTurns(a, b)[k]) => MergeTurns(a, b)[k][2] < Len(b)
<1> DEFINE la == Len(a)
           lb == Len(b)
           n == la + lb
           at == MergeTurns(a, b)
           P == {k \in 0..n : at[k] \in (0..la) \X (0..lb) /\ at[k][1] + at[k][2] = k}
<1>1. la \in Nat /\ lb \in Nat /\ n \in Nat
  BY SeqBasics
<1>2. at[0] = <<0, 0>> /\ \A k \in 0..(n - 1) : at[k + 1] = NextTurn(a, b, at[k])
  BY MergeTurnsUnfold
<1> HIDE DEF at
<1>3. ASSUME NEW k \in 0..(n - 1), at[k] \in (0..la) \X (0..lb), at[k][1] + at[k][2] = k
      PROVE  /\ TakesA(a, b, at[k]) => at[k][1] < la
             /\ ~TakesA(a, b, at[k]) => at[k][2] < lb
  <2>1. TakesA(a, b, at[k]) => at[k][1] < la
    BY DEF TakesA
  <2>2. at[k][1] \in 0..la /\ at[k][2] \in 0..lb
    BY <1>3
  <2>3. ~(at[k][2] < lb) => at[k][1] < la /\ ~(at[k][2] < lb)
    <3> HIDE DEF la, lb
    <3> QED
      BY <1>1, <1>3, <2>2
  <2>4. ~(at[k][2] < lb) => TakesA(a, b, at[k])
    BY <2>3 DEF TakesA
  <2> QED
    BY <2>1, <2>4
<1>4. 0 \in P
  <2>1. at[0][1] = 0 /\ at[0][2] = 0
    BY <1>2
  <2>2. 0 \in 0..la /\ 0 \in 0..lb /\ 0 \in 0..n
    BY <1>1
  <2>3. at[0] \in (0..la) \X (0..lb)
    BY <1>2, <2>2
  <2> QED
    BY <2>1, <2>2, <2>3
<1>5. ASSUME NEW k \in 0..(n - 1), k \in P PROVE k + 1 \in P
  <2>1. at[k] \in (0..la) \X (0..lb) /\ at[k][1] + at[k][2] = k /\ k + 1 \in 0..n
    BY <1>1, <1>5
  <2>2. at[k][1] \in 0..la /\ at[k][2] \in 0..lb
    BY <2>1
  <2>3. CASE TakesA(a, b, at[k])
    <3>1. at[k + 1] = <<at[k][1] + 1, at[k][2]>> /\ at[k][1] < la
      BY <1>2, <1>3, <2>1, <2>3 DEF NextTurn
    <3> DEFINE x == at[k][1]
               y == at[k][2]
    <3> HIDE DEF la, lb, x, y
    <3>2. x \in 0..la /\ y \in 0..lb /\ x + y = k /\ x < la
      BY <2>1, <2>2, <3>1 DEF x, y
    <3>3. x + 1 \in 0..la /\ x + 1 + y = k + 1
      BY <1>1, <3>2
    <3>4. at[k + 1] = <<x + 1, y>>
      BY <3>1 DEF x, y
    <3>5. at[k + 1] \in (0..la) \X (0..lb) /\ at[k + 1][1] = x + 1 /\ at[k + 1][2] = y
      BY <3>2, <3>3, <3>4
    <3> QED
      BY <2>1, <3>3, <3>5
  <2>4. CASE ~TakesA(a, b, at[k])
    <3>1. at[k + 1] = <<at[k][1], at[k][2] + 1>> /\ at[k][2] < lb
      BY <1>2, <1>3, <2>1, <2>4 DEF NextTurn
    <3> DEFINE x == at[k][1]
               y == at[k][2]
    <3> HIDE DEF la, lb, x, y
    <3>2. x \in 0..la /\ y \in 0..lb /\ x + y = k /\ y < lb
      BY <2>1, <2>2, <3>1 DEF x, y
    <3>3. y + 1 \in 0..lb /\ x + (y + 1) = k + 1
      BY <1>1, <3>2
    <3>4. at[k + 1] = <<x, y + 1>>
      BY <3>1 DEF x, y
    <3>5. at[k + 1] \in (0..la) \X (0..lb) /\ at[k + 1][1] = x /\ at[k + 1][2] = y + 1
      BY <3>2, <3>3, <3>4
    <3> QED
      BY <2>1, <3>3, <3>5
  <2> QED
    BY <2>3, <2>4
<1>6. \A k \in 0..n : k \in P
  <2> HIDE DEF P, n
  <2> QED
    BY <1>1, <1>4, <1>5, UpTo
<1>7. ASSUME NEW k \in 0..n, k < n PROVE k \in 0..(n - 1)
  BY <1>1, <1>7
<1> QED
  BY <1>2, <1>3, <1>6, <1>7 DEF at

\* An iterator never moves back.
LEMMA MergeTurnsGrow ==
    ASSUME NEW T, NEW a \in Seq(T), NEW b \in Seq(T),
           NEW k \in 0..(Len(a) + Len(b)), NEW m \in 0..(Len(a) + Len(b)), k <= m
    PROVE  /\ MergeTurns(a, b)[k][1] <= MergeTurns(a, b)[m][1]
           /\ MergeTurns(a, b)[k][2] <= MergeTurns(a, b)[m][2]
<1> DEFINE la == Len(a)
           lb == Len(b)
           n == la + lb
           at == MergeTurns(a, b)
           P == {i \in 0..n : k <= i => at[k][1] <= at[i][1] /\ at[k][2] <= at[i][2]}
<1>1. la \in Nat /\ lb \in Nat /\ n \in Nat
  BY SeqBasics
<1>2. \A i \in 0..n : at[i] \in (0..la) \X (0..lb)
  BY MergeTurnsFacts
<1>3. \A i \in 0..(n - 1) : at[i + 1] = NextTurn(a, b, at[i])
  BY MergeTurnsUnfold
<1> HIDE DEF at
<1>4. \A i \in 0..n : at[i][1] \in Int /\ at[i][2] \in Int
  BY <1>2
<1>5. 0 \in P
  <2>1. k <= 0 => k = 0
    BY <1>1
  <2>2. at[0][1] <= at[0][1] /\ at[0][2] <= at[0][2] /\ 0 \in 0..n
    BY <1>1, <1>4
  <2> QED
    BY <2>1, <2>2
<1>6. ASSUME NEW i \in 0..(n - 1), i \in P PROVE i + 1 \in P
  <2>1. i \in 0..n /\ i + 1 \in 0..n /\ (k <= i + 1 => k <= i \/ k = i + 1)
    BY <1>1
  <2>2. at[i + 1] = NextTurn(a, b, at[i])
    BY <1>3
  <2>3. at[i][1] <= at[i + 1][1] /\ at[i][2] <= at[i + 1][2]
    <3> DEFINE x == at[i][1]
               y == at[i][2]
    <3>1. x \in Int /\ y \in Int
      BY <1>4, <2>1
    <3>2. at[i + 1] = <<x + 1, y>> \/ at[i + 1] = <<x, y + 1>>
      BY <2>2 DEF NextTurn
    <3> HIDE DEF x, y
    <3>3. (at[i + 1][1] = x + 1 /\ at[i + 1][2] = y) \/ (at[i + 1][1] = x /\ at[i + 1][2] = y + 1)
      BY <3>2
    <3>4. x <= at[i + 1][1] /\ y <= at[i + 1][2]
      BY <3>1, <3>3
    <3> QED
      BY <3>4 DEF x, y
  <2>4. k <= i => at[k][1] <= at[i][1] /\ at[k][2] <= at[i][2]
    BY <1>6
  <2>5. k <= i => at[k][1] <= at[i + 1][1] /\ at[k][2] <= at[i + 1][2]
    <3>1. /\ at[k][1] \in Int /\ at[k][2] \in Int
          /\ at[i][1] \in Int /\ at[i][2] \in Int
          /\ at[i + 1][1] \in Int /\ at[i + 1][2] \in Int
      BY <1>4, <2>1
    <3>2. PICK x1, x2, y1, y2, z1, z2 :
            /\ x1 = at[k][1] /\ x2 = at[k][2] /\ y1 = at[i][1] /\ y2 = at[i][2]
            /\ z1 = at[i + 1][1] /\ z2 = at[i + 1][2]
      OBVIOUS
    <3>3. /\ x1 \in Int /\ x2 \in Int /\ y1 \in Int /\ y2 \in Int /\ z1 \in Int /\ z2 \in Int
          /\ y1 <= z1 /\ y2 <= z2 /\ (k <= i => x1 <= y1 /\ x2 <= y2)
      BY <2>3, <2>4, <3>1, <3>2
    <3>4. k <= i => x1 <= z1 /\ x2 <= z2
      BY <3>3
    <3> QED
      BY <3>2, <3>4
  <2>6. at[i + 1][1] <= at[i + 1][1] /\ at[i + 1][2] <= at[i + 1][2]
    BY <1>4, <2>1
  <2> QED
    BY <2>1, <2>5, <2>6
<1>7. m \in P
  <2> HIDE DEF P, n
  <2>1. m \in 0..n
    BY DEF n
  <2> QED
    BY <1>1, <1>5, <1>6, <2>1, UpTo
<1> QED
  BY <1>7 DEF at

\* The merge holds the records of both levels.
LEMMA TwoMergeFacts ==
    ASSUME NEW T, NEW a \in Seq(T), NEW b \in Seq(T)
    PROVE  /\ TwoMerge(a, b) \in Seq(T)
           /\ Range(TwoMerge(a, b)) = Range(a) \cup Range(b)
<1> DEFINE la == Len(a)
           lb == Len(b)
           n == la + lb
           at == MergeTurns(a, b)
           out == TwoMerge(a, b)
<1>1. la \in Nat /\ lb \in Nat /\ n \in Nat /\ DOMAIN a = 1..la /\ DOMAIN b = 1..lb
      /\ (\A i \in 1..la : a[i] \in T) /\ \A i \in 1..lb : b[i] \in T
  BY SeqBasics
<1>2. \A k \in 0..n : /\ at[k] \in (0..la) \X (0..lb)
                      /\ at[k][1] + at[k][2] = k
                      /\ k < n =>
                           /\ at[k + 1] = NextTurn(a, b, at[k])
                           /\ TakesA(a, b, at[k]) => at[k][1] < la
                           /\ ~TakesA(a, b, at[k]) => at[k][2] < lb
  BY MergeTurnsFacts
<1>3. out = [k \in 1..n |-> IF TakesA(a, b, at[k - 1]) THEN a[at[k - 1][1] + 1]
                            ELSE b[at[k - 1][2] + 1]]
  BY DEF TwoMerge
<1> HIDE DEF at, out, la, lb
<1>4. ASSUME NEW k \in 1..n
      PROVE  /\ TakesA(a, b, at[k - 1]) => at[k - 1][1] + 1 \in 1..la
             /\ ~TakesA(a, b, at[k - 1]) => at[k - 1][2] + 1 \in 1..lb
  <2>1. k - 1 \in 0..n /\ k - 1 < n
    BY <1>1
  <2>2. PICK j : j = k - 1
    OBVIOUS
  <2>3. at[j] \in (0..la) \X (0..lb) /\ (TakesA(a, b, at[j]) => at[j][1] < la)
        /\ (~TakesA(a, b, at[j]) => at[j][2] < lb)
    BY <1>2, <2>1, <2>2
  <2>4. PICK x, y : x = at[j][1] /\ y = at[j][2]
    OBVIOUS
  <2>5. x \in 0..la /\ y \in 0..lb /\ (TakesA(a, b, at[j]) => x < la)
        /\ (~TakesA(a, b, at[j]) => y < lb)
    BY <2>3, <2>4
  <2>6. (x < la => x + 1 \in 1..la) /\ (y < lb => y + 1 \in 1..lb)
    BY <1>1, <2>5
  <2> QED
    BY <2>2, <2>4, <2>5, <2>6
<1>5. \A k \in 1..n : out[k] \in T /\ out[k] \in Range(a) \cup Range(b)
  BY <1>1, <1>3, <1>4 DEF Range
<1>6. out \in Seq(T)
  <2>1. out = [k \in 1..n |-> out[k]]
    BY <1>3
  <2>2. out \in [1..n -> T]
    BY <1>5, <2>1
  <2> QED
    BY <1>1, <2>2
<1>7. DOMAIN out = 1..n
  BY <1>3
<1>8. ASSUME NEW i \in 1..la PROVE \E k \in 1..n : out[k] = a[i]
  <2> DEFINE K == {k \in 0..n : at[k][1] >= i}
  <2>1. n \in K
    <3>1. at[n][1] \in 0..la /\ at[n][2] \in 0..lb /\ at[n][1] + at[n][2] = n /\ n \in 0..n
      BY <1>1, <1>2
    <3> QED
      BY <1>1, <3>1
  <2>2. K \subseteq Nat
    BY <1>1
  <2> DEFINE k == Min(K)
  <2>3. k \in K /\ \A y \in K : k <= y
    <3> HIDE DEF K
    <3> QED
      BY <2>1, <2>2, MinNat
  <2>4. k \in 0..n /\ at[k][1] >= i
    BY <2>3
  <2> HIDE DEF k
  <2>5. at[0][1] = 0
    <3>1. 0 \in 0..n
      BY <1>1
    <3>2. at[0][1] \in 0..la /\ at[0][2] \in 0..lb /\ at[0][1] + at[0][2] = 0
      BY <1>2, <3>1
    <3> QED
      BY <1>1, <3>2
  <2>6. k # 0
    BY <2>4, <2>5
  <2>7. k - 1 \in 0..n /\ k - 1 < n /\ (k - 1) + 1 = k /\ ~(k <= k - 1) /\ k \in 1..n
    BY <1>1, <2>4, <2>6
  <2>8. at[k - 1][1] \in 0..la /\ at[k - 1][2] \in 0..lb
    BY <1>2, <2>7
  <2>9. at[k - 1][1] < i
    <3>1. k - 1 \notin K
      BY <2>3, <2>7
    <3>2. ~(at[k - 1][1] >= i)
      BY <2>7, <3>1
    <3> QED
      BY <1>1, <2>8, <3>2
  <2>10. at[k] = NextTurn(a, b, at[k - 1])
    BY <1>2, <2>7
  <2>11. TakesA(a, b, at[k - 1])
    <3>1. ~TakesA(a, b, at[k - 1]) => at[k][1] = at[k - 1][1]
      BY <2>10 DEF NextTurn
    <3> QED
      BY <1>1, <2>4, <2>8, <2>9, <3>1
  <2>12. at[k][1] = at[k - 1][1] + 1
    BY <2>10, <2>11 DEF NextTurn
  <2>13. at[k - 1][1] + 1 = i
    BY <1>1, <2>4, <2>8, <2>9, <2>12
  <2>14. out[k] = a[i]
    BY <1>3, <2>7, <2>11, <2>13
  <2> QED
    BY <2>7, <2>14
<1>9. ASSUME NEW i \in 1..lb PROVE \E k \in 1..n : out[k] = b[i]
  <2> DEFINE K == {k \in 0..n : at[k][2] >= i}
  <2>1. n \in K
    <3>1. at[n][1] \in 0..la /\ at[n][2] \in 0..lb /\ at[n][1] + at[n][2] = n /\ n \in 0..n
      BY <1>1, <1>2
    <3> QED
      BY <1>1, <3>1
  <2>2. K \subseteq Nat
    BY <1>1
  <2> DEFINE k == Min(K)
  <2>3. k \in K /\ \A y \in K : k <= y
    <3> HIDE DEF K
    <3> QED
      BY <2>1, <2>2, MinNat
  <2>4. k \in 0..n /\ at[k][2] >= i
    BY <2>3
  <2> HIDE DEF k
  <2>5. at[0][2] = 0
    <3>1. 0 \in 0..n
      BY <1>1
    <3>2. at[0][1] \in 0..la /\ at[0][2] \in 0..lb /\ at[0][1] + at[0][2] = 0
      BY <1>2, <3>1
    <3> QED
      BY <1>1, <3>2
  <2>6. k # 0
    BY <2>4, <2>5
  <2>7. k - 1 \in 0..n /\ k - 1 < n /\ (k - 1) + 1 = k /\ ~(k <= k - 1) /\ k \in 1..n
    BY <1>1, <2>4, <2>6
  <2>8. at[k - 1][1] \in 0..la /\ at[k - 1][2] \in 0..lb
    BY <1>2, <2>7
  <2>9. at[k - 1][2] < i
    <3>1. k - 1 \notin K
      BY <2>3, <2>7
    <3>2. ~(at[k - 1][2] >= i)
      BY <2>7, <3>1
    <3> QED
      BY <1>1, <2>8, <3>2
  <2>10. at[k] = NextTurn(a, b, at[k - 1])
    BY <1>2, <2>7
  <2>11. ~TakesA(a, b, at[k - 1])
    <3>1. TakesA(a, b, at[k - 1]) => at[k][2] = at[k - 1][2]
      BY <2>10 DEF NextTurn
    <3> QED
      BY <1>1, <2>4, <2>8, <2>9, <3>1
  <2>12. at[k][2] = at[k - 1][2] + 1
    BY <2>10, <2>11 DEF NextTurn
  <2>13. at[k - 1][2] + 1 = i
    BY <1>1, <2>4, <2>8, <2>9, <2>12
  <2>14. out[k] = b[i]
    BY <1>3, <2>7, <2>11, <2>13
  <2> QED
    BY <2>7, <2>14
<1>10. Range(out) = Range(a) \cup Range(b)
  <2>1. Range(out) \subseteq Range(a) \cup Range(b)
    <3> HIDE DEF n
    <3> QED
      BY <1>5, <1>7 DEF Range
  <2>2. Range(a) \subseteq Range(out)
    <3> HIDE DEF n
    <3> QED
      BY <1>1, <1>7, <1>8 DEF Range
  <2>3. Range(b) \subseteq Range(out)
    <3> HIDE DEF n
    <3> QED
      BY <1>1, <1>7, <1>9 DEF Range
  <2> QED
    BY <2>1, <2>2, <2>3
<1> QED
  BY <1>6, <1>10 DEF out

\* The order of R on the elements of T.
Transitive(T, R) == \A x, y, z \in T : <<x, y>> \in R /\ <<y, z>> \in R => <<x, z>> \in R

\* What choose_it_a takes first is first by R.
ChoosesBy(a, b, R) ==
    \A x \in Range(a), y \in Range(b) :
        (ChooseA(x, y) => <<x, y>> \in R) /\ (~ChooseA(x, y) => <<y, x>> \in R)

\* Merging two ordered levels by an order that choose_it_a follows.
LEMMA TwoMergeOrdered ==
    ASSUME NEW T, NEW a \in Seq(T), NEW b \in Seq(T), NEW R,
           Transitive(T, R), Ordered(a, R), Ordered(b, R), ChoosesBy(a, b, R)
    PROVE  Ordered(TwoMerge(a, b), R)
<1> DEFINE la == Len(a)
           lb == Len(b)
           n == la + lb
           at == MergeTurns(a, b)
           out == TwoMerge(a, b)
<1>1. la \in Nat /\ lb \in Nat /\ n \in Nat /\ DOMAIN a = 1..la /\ DOMAIN b = 1..lb
  BY SeqBasics
<1>2. \A k \in 0..n : /\ at[k] \in (0..la) \X (0..lb)
                      /\ k < n =>
                           /\ at[k + 1] = NextTurn(a, b, at[k])
                           /\ TakesA(a, b, at[k]) => at[k][1] < la
                           /\ ~TakesA(a, b, at[k]) => at[k][2] < lb
  BY MergeTurnsFacts
<1>3. out = [k \in 1..n |-> IF TakesA(a, b, at[k - 1]) THEN a[at[k - 1][1] + 1]
                            ELSE b[at[k - 1][2] + 1]]
  BY DEF TwoMerge
<1>4. \A k, m \in 0..n : k <= m => at[k][1] <= at[m][1] /\ at[k][2] <= at[m][2]
  BY MergeTurnsGrow
<1> HIDE DEF at, out
<1>5. \A i, j \in 1..la : i < j => <<a[i], a[j]>> \in R
  BY <1>1 DEF Ordered
<1>6. \A i, j \in 1..lb : i < j => <<b[i], b[j]>> \in R
  BY <1>1 DEF Ordered
<1>7. \A i \in 1..la, j \in 1..lb : /\ ChooseA(a[i], b[j]) => <<a[i], b[j]>> \in R
                                    /\ ~ChooseA(a[i], b[j]) => <<b[j], a[i]>> \in R
                                    /\ a[i] \in T /\ b[j] \in T
  BY <1>1, SeqBasics DEF ChoosesBy, Range
<1>8. ASSUME NEW p \in 1..n, NEW q \in 1..n, p < q PROVE <<out[p], out[q]>> \in R
  <2> DEFINE i == at[p - 1][1]
             j == at[p - 1][2]
             u == at[q - 1][1]
             v == at[q - 1][2]
  <2>1. /\ p - 1 \in 0..n /\ p - 1 < n /\ (p - 1) + 1 = p /\ p \in 0..n
        /\ q - 1 \in 0..n /\ q - 1 < n /\ p <= q - 1
    <3> HIDE DEF n
    <3> QED
      BY <1>1, <1>8
  <2>2. i \in 0..la /\ j \in 0..lb /\ u \in 0..la /\ v \in 0..lb
    BY <1>2, <2>1
  <2>3. at[p][1] <= u /\ at[p][2] <= v
    BY <1>4, <2>1
  <2>4. at[p] = NextTurn(a, b, at[p - 1])
    BY <1>2, <2>1
  <2>5. IF TakesA(a, b, at[p - 1]) THEN i < la /\ at[p][1] = i + 1 /\ at[p][2] = j
                                   ELSE j < lb /\ at[p][1] = i /\ at[p][2] = j + 1
    BY <1>2, <2>1, <2>4 DEF NextTurn
  <2>6. IF TakesA(a, b, at[q - 1]) THEN u < la ELSE v < lb
    BY <1>2, <2>1
  <2>7. out[p] = IF TakesA(a, b, at[p - 1]) THEN a[i + 1] ELSE b[j + 1]
    BY <1>3
  <2>8. out[q] = IF TakesA(a, b, at[q - 1]) THEN a[u + 1] ELSE b[v + 1]
    BY <1>3
  <2>9. TakesA(a, b, at[p - 1]) <=> i < la /\ (j < lb => ChooseA(a[i + 1], b[j + 1]))
    BY DEF TakesA
  <2> HIDE DEF i, j, u, v, la, lb, n
  <2>10. CASE TakesA(a, b, at[p - 1])
    <3>1. i < la /\ i + 1 <= u /\ j <= v /\ i + 1 \in 1..la
      BY <1>1, <2>2, <2>3, <2>5, <2>10
    <3>2. CASE TakesA(a, b, at[q - 1])
      <4>1. u + 1 \in 1..la /\ i + 1 < u + 1
        BY <1>1, <2>2, <2>6, <3>1, <3>2
      <4> QED
        BY <1>5, <2>7, <2>8, <2>10, <3>1, <3>2, <4>1
    <3>3. CASE ~TakesA(a, b, at[q - 1])
      <4>1. j < lb /\ j + 1 \in 1..lb /\ v + 1 \in 1..lb /\ (j = v \/ j + 1 < v + 1)
        BY <1>1, <2>2, <2>6, <3>1, <3>3
      <4>2. <<a[i + 1], b[j + 1]>> \in R
        BY <1>7, <2>9, <2>10, <3>1, <4>1
      <4>3. <<a[i + 1], b[v + 1]>> \in R
        <5>1. CASE j = v
          BY <4>2, <5>1
        <5>2. CASE j + 1 < v + 1
          <6>1. <<b[j + 1], b[v + 1]>> \in R
            BY <1>6, <4>1, <5>2
          <6>2. a[i + 1] \in T /\ b[j + 1] \in T /\ b[v + 1] \in T
            BY <1>7, <3>1, <4>1
          <6> QED
            BY <4>2, <6>1, <6>2 DEF Transitive
        <5> QED
          BY <4>1, <5>1, <5>2
      <4> QED
        BY <2>7, <2>8, <2>10, <3>3, <4>3
    <3> QED
      BY <3>2, <3>3
  <2>11. CASE ~TakesA(a, b, at[p - 1])
    <3>1. j < lb /\ j + 1 <= v /\ i <= u /\ j + 1 \in 1..lb
      BY <1>1, <2>2, <2>3, <2>5, <2>11
    <3>2. CASE ~TakesA(a, b, at[q - 1])
      <4>1. v + 1 \in 1..lb /\ j + 1 < v + 1
        BY <1>1, <2>2, <2>6, <3>1, <3>2
      <4> QED
        BY <1>6, <2>7, <2>8, <2>11, <3>1, <3>2, <4>1
    <3>3. CASE TakesA(a, b, at[q - 1])
      <4>1. i < la /\ i + 1 \in 1..la /\ u + 1 \in 1..la /\ (i = u \/ i + 1 < u + 1)
        BY <1>1, <2>2, <2>6, <3>1, <3>3
      <4>2. <<b[j + 1], a[i + 1]>> \in R
        BY <1>7, <2>9, <2>11, <3>1, <4>1
      <4>3. <<b[j + 1], a[u + 1]>> \in R
        <5>1. CASE i = u
          BY <4>2, <5>1
        <5>2. CASE i + 1 < u + 1
          <6>1. <<a[i + 1], a[u + 1]>> \in R
            BY <1>5, <4>1, <5>2
          <6>2. b[j + 1] \in T /\ a[i + 1] \in T /\ a[u + 1] \in T
            BY <1>7, <3>1, <4>1
          <6> QED
            BY <4>2, <6>1, <6>2 DEF Transitive
        <5> QED
          BY <4>1, <5>1, <5>2
      <4> QED
        BY <2>7, <2>8, <2>11, <3>3, <4>3
    <3> QED
      BY <3>2, <3>3
  <2> QED
    BY <2>10, <2>11
<1>9. DOMAIN out = 1..n
  BY <1>3
<1> HIDE DEF n
<1> QED
  BY <1>8, <1>9 DEF Ordered, out

-----------------------------------------------------------------------------
(* Records and their orders.                                                *)

Recs == [key : Keys, ver : 1..MaxVer, n : Nat]

\* The order within a table, which has one record per key and version.
BeforeRel == {p \in Recs \X Recs : Before(p[1], p[2])}

\* The order within a file: of one key and version, the last write first.
Ahead(r, s) == Before(r, s) \/ (SameSlot(r, s) /\ r.n > s.n)
AheadRel == {p \in Recs \X Recs : Ahead(p[1], p[2])}

\* The fields of a record are numbers, and they make the record.
LEMMA RecFields ==
    /\ \A r \in Recs : r.key \in Nat /\ r.ver \in Nat /\ r.ver > 0 /\ r.n \in Nat
    /\ \A r, s \in Recs : SameSlot(r, s) /\ r.n = s.n => r = s
<1>1. ASSUME NEW r \in Recs PROVE r.key \in Nat /\ r.ver \in Nat /\ r.ver > 0 /\ r.n \in Nat
  <2>1. r.key \in Keys /\ r.ver \in 1..MaxVer /\ r.n \in Nat
    BY DEF Recs
  <2>2. r.key \in Nat
    BY <2>1, KeysAssumption
  <2>3. r.ver \in Nat /\ r.ver > 0
    BY <2>1, BoundsAssumption
  <2> QED
    BY <2>1, <2>2, <2>3
<1>2. ASSUME NEW r \in Recs, NEW s \in Recs, SameSlot(r, s), r.n = s.n PROVE r = s
  BY <1>2 DEF Recs, SameSlot
<1> QED
  BY <1>1, <1>2

\* Both orders are strict and transitive.
LEMMA RecOrders ==
    /\ \A r \in Recs : ~Before(r, r) /\ ~Ahead(r, r)
    /\ \A r, s, t \in Recs : Before(r, s) /\ Before(s, t) => Before(r, t)
    /\ \A r, s, t \in Recs : Ahead(r, s) /\ Ahead(s, t) => Ahead(r, t)
    /\ \A r, s \in Recs : SameSlot(r, s) \/ Before(r, s) \/ Before(s, r)
    /\ \A r, s \in Recs : r = s \/ Ahead(r, s) \/ Ahead(s, r)
<1>1. \A r \in Recs : r.key \in Nat /\ r.ver \in Nat /\ r.n \in Nat
  BY RecFields
<1>2. ASSUME NEW r \in Recs PROVE ~Before(r, r) /\ ~Ahead(r, r)
  BY <1>1 DEF Before, Ahead
<1>3. ASSUME NEW r \in Recs, NEW s \in Recs, NEW t \in Recs
      PROVE  /\ Before(r, s) /\ Before(s, t) => Before(r, t)
             /\ Ahead(r, s) /\ Ahead(s, t) => Ahead(r, t)
  BY <1>1 DEF Before, Ahead, SameSlot
<1>4. ASSUME NEW r \in Recs, NEW s \in Recs
      PROVE  SameSlot(r, s) \/ Before(r, s) \/ Before(s, r)
  BY <1>1 DEF Before, SameSlot
<1>5. ASSUME NEW r \in Recs, NEW s \in Recs PROVE r = s \/ Ahead(r, s) \/ Ahead(s, r)
  <2>1. SameSlot(r, s) => r.n = s.n \/ r.n > s.n \/ s.n > r.n
    BY <1>1
  <2>2. SameSlot(r, s) => SameSlot(s, r)
    BY DEF SameSlot
  <2> QED
    BY <1>4, <2>1, <2>2, RecFields DEF Ahead
<1> QED
  BY <1>2, <1>3, <1>4, <1>5

\* What the memtable keeps of a run of writes.
Kept(recs) == {r \in Range(recs) : \A s \in Range(recs) : SameSlot(r, s) => s.n <= r.n}

\* A table lists what is kept, in order, one record per key and version.
LEMMA TableFacts ==
    ASSUME NEW recs \in Seq(Recs)
    PROVE  /\ TableOf(recs) \in Seq(Recs)
           /\ Range(TableOf(recs)) = Kept(recs)
           /\ Ordered(TableOf(recs), BeforeRel)
<1> DEFINE S == Kept(recs)
           L == TableOf(recs)
<1>1. S \subseteq Recs /\ IsFiniteSet(S)
  <2>1. IsFiniteSet(Range(recs)) /\ Range(recs) \subseteq Recs
    BY FiniteElements
  <2>2. S \in SUBSET Range(recs)
    BY DEF Kept
  <2> QED
    BY <2>1, <2>2, FS_Subset
<1>2. StrictOrder(S, BeforeRel)
  <2> HIDE DEF S
  <2>1. \A r, s \in S : <<r, s>> \in BeforeRel <=> Before(r, s)
    BY <1>1 DEF BeforeRel
  <2>2. ASSUME NEW r \in S, NEW s \in S PROVE r = s \/ Before(r, s) \/ Before(s, r)
    <3>1. SameSlot(r, s) => r.n <= s.n /\ s.n <= r.n
      BY DEF S, Kept, SameSlot
    <3>2. r.n \in Nat /\ s.n \in Nat
      BY <1>1, RecFields
    <3>3. SameSlot(r, s) => r.n = s.n
      BY <3>1, <3>2
    <3> QED
      BY <1>1, <3>3, RecFields, RecOrders
  <2> QED
    BY <1>1, <2>1, <2>2, RecOrders DEF StrictOrder
<1>3. Lists(L, S, BeforeRel)
  <2>1. L = [i \in 1..Cardinality(S) |->
               CHOOSE x \in S : Cardinality({y \in S : Before(y, x)}) = i - 1]
    BY DEF TableOf, InOrder, Kept
  <2> HIDE DEF S, L
  <2>2. ASSUME NEW x \in S PROVE {y \in S : Before(y, x)} = {y \in S : <<y, x>> \in BeforeRel}
    BY <1>1 DEF BeforeRel
  <2>3. ASSUME NEW i \in 1..Cardinality(S), \E x \in S : Rank(x, S, BeforeRel) = i - 1
        PROVE  L[i] \in S /\ Rank(L[i], S, BeforeRel) = i - 1
    <3>1. \E x \in S : Cardinality({y \in S : Before(y, x)}) = i - 1
      BY <2>2, <2>3 DEF Rank
    <3>2. L[i] = CHOOSE x \in S : Cardinality({y \in S : Before(y, x)}) = i - 1
      BY <2>1
    <3>3. L[i] \in S /\ Cardinality({y \in S : Before(y, L[i])}) = i - 1
      BY <3>1, <3>2
    <3> QED
      BY <2>2, <3>3 DEF Rank
  <2>4. L = [i \in 1..Cardinality(S) |-> L[i]]
    <3> DEFINE g(i) == CHOOSE x \in S : Cardinality({y \in S : Before(y, x)}) = i - 1
    <3>1. L = [i \in 1..Cardinality(S) |-> g(i)]
      BY <2>1, Zenon
    <3> HIDE DEF g
    <3> QED
      BY <3>1
  <2> QED
    BY <2>3, <2>4 DEF Lists
<1> HIDE DEF S, L
<1>4. L \in Seq(S) /\ Range(L) = S /\ Ordered(L, BeforeRel)
  BY <1>1, <1>2, <1>3, ListsFacts
<1>5. L \in Seq(Recs)
  BY <1>1, <1>4
<1> QED
  BY <1>4, <1>5 DEF S, L

-----------------------------------------------------------------------------
(* The heap over level 0.                                                   *)

RecsOf(i) == Range(files[i].recs)

\* Where both have a record of one key and version, that of A was written later.
Newer(A, B) == \A r \in A, s \in B : SameSlot(r, s) => r.n > s.n

Items == [id : Nat, r : Recs]
HeapRel == {p \in Items \X Items : HeapBefore(p[1], p[2])}
HeapItems(ids) == UNION {{[id |-> i, r |-> r] : r \in RecsOf(i)} : i \in Range(ids)}

\* What the heap takes: tables, whose records differ in key or version.
HeapInput(ids) ==
    /\ ids \in Seq(Nat)
    /\ \A i \in Range(ids) : files[i].recs \in Seq(Recs) /\ Ordered(files[i].recs, BeforeRel)

\* Two records of one table differ in key or version.
LEMMA TableSlots ==
    ASSUME NEW recs \in Seq(Recs), Ordered(recs, BeforeRel),
           NEW r \in Range(recs), NEW s \in Range(recs), SameSlot(r, s)
    PROVE  r = s
<1>1. PICK p \in DOMAIN recs : recs[p] = r
  BY DEF Range
<1>2. PICK q \in DOMAIN recs : recs[q] = s
  BY DEF Range
<1>3. p \in Nat /\ q \in Nat
  BY <1>1, <1>2, SeqBasics
<1>4. r \in Recs /\ s \in Recs
  BY FiniteElements
<1>5. ~Before(r, s) /\ ~Before(s, r)
  <2>1. r.key \in Nat /\ r.ver \in Nat /\ s.key \in Nat /\ s.ver \in Nat
    BY <1>4, RecFields
  <2> QED
    BY <2>1 DEF SameSlot, Before
<1>6. p < q => Before(r, s)
  BY <1>1, <1>2 DEF Ordered, BeforeRel
<1>7. q < p => Before(s, r)
  BY <1>1, <1>2 DEF Ordered, BeforeRel
<1>8. p = q
  BY <1>3, <1>5, <1>6, <1>7
<1> QED
  BY <1>1, <1>2, <1>8

\* The items on the heap are finitely many and ordered.
LEMMA HeapItemsFacts ==
    ASSUME NEW ids, HeapInput(ids)
    PROVE  /\ HeapItems(ids) \subseteq Items
           /\ IsFiniteSet(HeapItems(ids))
           /\ StrictOrder(HeapItems(ids), HeapRel)
           /\ \A a \in HeapItems(ids) : a.id \in Range(ids) /\ a.r \in RecsOf(a.id)
<1> DEFINE A == Range(ids)
           S == HeapItems(ids)
           g == [i \in A |-> RecsOf(i)]
           B == UNION Range(g)
           h == [x \in A \X B |-> [id |-> x[1], r |-> x[2]]]
<1>1. IsFiniteSet(A) /\ A \subseteq Nat
  BY FiniteElements DEF HeapInput
<1>2. \A i \in A : IsFiniteSet(RecsOf(i)) /\ RecsOf(i) \subseteq Recs
  BY FiniteElements DEF HeapInput, RecsOf
<1>3. IsFiniteSet(B)
  <2>1. IsFiniteSet(Range(g))
    <3>1. g = [i \in A |-> g[i]]
      OBVIOUS
    <3> HIDE DEF g, A
    <3> QED
      BY <1>1, <3>1, FiniteRange
  <2>2. \A x \in Range(g) : IsFiniteSet(x)
    BY <1>2 DEF Range
  <2> HIDE DEF g
  <2> QED
    BY <2>1, <2>2, FS_UNION
<1>4. \A i \in A : \A r \in RecsOf(i) : r \in B
  BY DEF Range
<1>5. IsFiniteSet(A \X B)
  <2> HIDE DEF A, B
  <2> QED
    BY <1>1, <1>3, FS_Product
<1>6. IsFiniteSet(Range(h))
  <2>1. h = [x \in A \X B |-> h[x]]
    OBVIOUS
  <2> HIDE DEF h, A, B
  <2> QED
    BY <1>5, <2>1, FiniteRange
<1>7. S \subseteq Range(h)
  <2>1. ASSUME NEW i \in A, NEW r \in RecsOf(i) PROVE [id |-> i, r |-> r] \in Range(h)
    <3>1. <<i, r>> \in A \X B
      BY <1>4, <2>1
    <3>2. h[<<i, r>>] = [id |-> i, r |-> r] /\ DOMAIN h = A \X B
      BY <3>1
    <3> HIDE DEF h, A, B
    <3> QED
      BY <3>1, <3>2 DEF Range
  <2>2. \A x \in S : \E i \in A : \E r \in RecsOf(i) : x = [id |-> i, r |-> r]
    BY DEF HeapItems
  <2> HIDE DEF S, A, h
  <2> QED
    BY <2>1, <2>2
<1>8. IsFiniteSet(S)
  <2> HIDE DEF S, h
  <2> QED
    BY <1>6, <1>7, FS_Subset
<1>9. \A a \in S : a.id \in A /\ a.r \in RecsOf(a.id) /\ a = [id |-> a.id, r |-> a.r]
  BY DEF HeapItems
<1>10. S \subseteq Items
  <2>1. ASSUME NEW i \in A, NEW r \in RecsOf(i) PROVE [id |-> i, r |-> r] \in Items
    BY <1>1, <1>2 DEF Items
  <2> QED
    BY <2>1 DEF HeapItems
<1> HIDE DEF S, A, g, B, h
<1>11. \A a, b \in S : <<a, b>> \in HeapRel <=> HeapBefore(a, b)
  BY <1>10 DEF HeapRel
<1>12. \A a \in S : a.r \in Recs /\ a.id \in Nat /\ a.r.key \in Nat /\ a.r.ver \in Nat
  BY <1>10, RecFields DEF Items
<1>13. ASSUME NEW a \in S PROVE ~HeapBefore(a, a)
  BY <1>12 DEF HeapBefore, Before
<1>14. ASSUME NEW a \in S, NEW b \in S, NEW c \in S, HeapBefore(a, b), HeapBefore(b, c)
       PROVE  HeapBefore(a, c)
  BY <1>12, <1>14 DEF HeapBefore, Before, SameSlot
<1>15. ASSUME NEW a \in S, NEW b \in S PROVE a = b \/ HeapBefore(a, b) \/ HeapBefore(b, a)
  <2>1. CASE SameSlot(a.r, b.r)
    <3>1. SameSlot(b.r, a.r)
      BY <2>1 DEF SameSlot
    <3>2. a.id = b.id \/ a.id > b.id \/ b.id > a.id
      BY <1>12
    <3>3. a.id = b.id => a = b
      <4> SUFFICES ASSUME a.id = b.id PROVE a = b
        OBVIOUS
      <4>1. files[a.id].recs \in Seq(Recs) /\ Ordered(files[a.id].recs, BeforeRel)
        BY <1>9 DEF HeapInput, A
      <4>2. a.r \in Range(files[a.id].recs) /\ b.r \in Range(files[a.id].recs)
        BY <1>9 DEF RecsOf
      <4>3. a.r = b.r
        BY <2>1, <4>1, <4>2, TableSlots
      <4> QED
        BY <1>9, <4>3
    <3> QED
      BY <2>1, <3>1, <3>2, <3>3 DEF HeapBefore
  <2>2. CASE ~SameSlot(a.r, b.r)
    BY <1>12, <2>2, RecOrders DEF HeapBefore
  <2> QED
    BY <2>1, <2>2
<1>16. StrictOrder(S, HeapRel)
  BY <1>11, <1>13, <1>14, <1>15 DEF StrictOrder
<1> QED
  BY <1>8, <1>9, <1>10, <1>16 DEF S, A

\* The heap lists the records of all its files; they come in the order of a
\* file when files with larger ids are newer.
LEMMA HeapMergeFacts ==
    ASSUME NEW ids, HeapInput(ids)
    PROVE  /\ HeapMerge(ids) \in Seq(Recs)
           /\ Range(HeapMerge(ids)) = UNION {RecsOf(i) : i \in Range(ids)}
           /\ (\A i, j \in Range(ids) : i > j => Newer(RecsOf(i), RecsOf(j)))
              => Ordered(HeapMerge(ids), AheadRel)
<1> DEFINE S == HeapItems(ids)
           L == InOrder(S, HeapBefore)
           M == HeapMerge(ids)
<1>1. /\ S \subseteq Items
      /\ IsFiniteSet(S)
      /\ StrictOrder(S, HeapRel)
      /\ \A a \in S : a.id \in Range(ids) /\ a.r \in RecsOf(a.id)
  BY HeapItemsFacts
<1>2. M = [i \in DOMAIN L |-> L[i].r]
  BY DEF HeapMerge, HeapItems, RecsOf
<1>3. L = [i \in 1..Cardinality(S) |->
             CHOOSE x \in S : Cardinality({y \in S : HeapBefore(y, x)}) = i - 1]
  BY DEF InOrder
<1>4. \A i \in Range(ids) : \A r \in RecsOf(i) : \E a \in S : a.r = r
  <2>1. \A i \in Range(ids) : \A r \in RecsOf(i) : [id |-> i, r |-> r] \in S
    BY DEF HeapItems
  <2>2. \A i, r : [id |-> i, r |-> r].r = r
    OBVIOUS
  <2> HIDE DEF S
  <2> QED
    BY <2>1, <2>2
<1> HIDE DEF S, L, M
<1>5. Lists(L, S, HeapRel)
  <2>1. ASSUME NEW x \in S PROVE {y \in S : HeapBefore(y, x)} = {y \in S : <<y, x>> \in HeapRel}
    BY <1>1 DEF HeapRel
  <2>2. ASSUME NEW i \in 1..Cardinality(S), \E x \in S : Rank(x, S, HeapRel) = i - 1
        PROVE  L[i] \in S /\ Rank(L[i], S, HeapRel) = i - 1
    <3>1. \E x \in S : Cardinality({y \in S : HeapBefore(y, x)}) = i - 1
      BY <2>1, <2>2 DEF Rank
    <3>2. L[i] = CHOOSE x \in S : Cardinality({y \in S : HeapBefore(y, x)}) = i - 1
      BY <1>3
    <3>3. L[i] \in S /\ Cardinality({y \in S : HeapBefore(y, L[i])}) = i - 1
      BY <3>1, <3>2
    <3> QED
      BY <2>1, <3>3 DEF Rank
  <2>3. L = [i \in 1..Cardinality(S) |-> L[i]]
    <3> DEFINE g(i) == CHOOSE x \in S : Cardinality({y \in S : HeapBefore(y, x)}) = i - 1
    <3>1. L = [i \in 1..Cardinality(S) |-> g(i)]
      BY <1>3, Zenon
    <3> HIDE DEF g
    <3> QED
      BY <3>1
  <2> QED
    BY <2>2, <2>3 DEF Lists
<1>6. L \in Seq(S) /\ Range(L) = S /\ Ordered(L, HeapRel)
  BY <1>1, <1>5, ListsFacts
<1>7. Len(L) \in Nat /\ DOMAIN L = 1..Len(L) /\ \A p \in DOMAIN L : L[p] \in S
  BY <1>6, SeqBasics
<1>8. \A a \in S : a.r \in Recs /\ a.id \in Nat
  BY <1>1 DEF Items
<1>9. M \in Seq(Recs) /\ DOMAIN M = DOMAIN L
  <2>1. M \in [1..Len(L) -> Recs]
    BY <1>2, <1>7, <1>8
  <2> QED
    BY <1>7, <2>1
<1>10. Range(M) = UNION {RecsOf(i) : i \in Range(ids)}
  <2>1. ASSUME NEW p \in DOMAIN L PROVE \E i \in Range(ids) : M[p] \in RecsOf(i)
    <3>1. L[p].id \in Range(ids) /\ L[p].r \in RecsOf(L[p].id) /\ M[p] = L[p].r
      BY <1>1, <1>2, <1>7
    <3> QED
      BY <3>1
  <2>2. Range(M) \subseteq UNION {RecsOf(i) : i \in Range(ids)}
    BY <1>9, <2>1 DEF Range
  <2>3. ASSUME NEW i \in Range(ids), NEW r \in RecsOf(i) PROVE r \in Range(M)
    <3>1. PICK a \in S : a.r = r
      BY <1>4
    <3>2. PICK p \in DOMAIN L : L[p] = a
      BY <1>6 DEF Range
    <3>3. M[p] = r /\ p \in DOMAIN M
      BY <1>2, <1>9, <3>1, <3>2
    <3> QED
      BY <3>3 DEF Range
  <2> QED
    BY <2>2, <2>3
<1>11. ASSUME \A i, j \in Range(ids) : i > j => Newer(RecsOf(i), RecsOf(j)),
              NEW p \in DOMAIN L, NEW q \in DOMAIN L, p < q
       PROVE  <<M[p], M[q]>> \in AheadRel
  <2> DEFINE a == L[p]
             b == L[q]
  <2>1. a \in S /\ b \in S /\ M[p] = a.r /\ M[q] = b.r /\ a.r \in Recs /\ b.r \in Recs
    BY <1>2, <1>7, <1>8
  <2>2. HeapBefore(a, b)
    <3>1. <<a, b>> \in HeapRel
      BY <1>6, <1>11 DEF Ordered
    <3> HIDE DEF a, b
    <3> QED
      BY <3>1 DEF HeapRel
  <2> HIDE DEF a, b
  <2>3. SameSlot(a.r, b.r) /\ a.id > b.id => a.r.n > b.r.n
    <3>1. a.id \in Range(ids) /\ b.id \in Range(ids) /\ a.r \in RecsOf(a.id) /\ b.r \in RecsOf(b.id)
      BY <1>1, <2>1
    <3>2. a.id > b.id => Newer(RecsOf(a.id), RecsOf(b.id))
      BY <1>11, <3>1
    <3> QED
      BY <3>1, <3>2 DEF Newer
  <2>4. Ahead(a.r, b.r)
    BY <2>2, <2>3 DEF HeapBefore, Ahead
  <2> QED
    BY <2>1, <2>4 DEF AheadRel
<1> QED
  BY <1>9, <1>10, <1>11 DEF M, Ordered

-----------------------------------------------------------------------------
(* The invariant that holds whatever fails: shapes, and where the flushed   *)
(* records are.                                                             *)

SstFile == [level : 0..MaxLevel, recs : Seq(Recs), torn : BOOLEAN]
Compactions ==
    [ph : {"compact"}, src : 0..(MaxLevel - 1), new : Seq(Nat), rest : Seq(Recs), old : Seq(Nat)]

FileShapes == \A i \in DOMAIN files : files[i] \in SstFile
ListShapes == lists \in [0..MaxLevel -> Seq(Nat)]
JobShape == job = Idle \/ job = [ph |-> "build"] \/ job \in Compactions
MemShape == mem \in Seq(Recs) /\ flushed \subseteq Recs /\ writes \in Nat /\ faults \in Nat

\* Ids in use are below the next one, but for a file that a crash cut short; a
\* closed engine runs nothing.
IdInv ==
    /\ nextSstId \in Nat \ {0} /\ proc \in {"open", "closed", "broken"}
    /\ proc # "open" => job = Idle
    /\ \A i \in DOMAIN files : i \in 1..nextSstId /\ (proc = "open" => i < nextSstId)
    /\ job.ph = "compact" => \A i \in Range(job.old) : i < nextSstId

\* A file of level 0 is a table.
TableInv == \A i \in DOMAIN files : files[i].level = 0 => Ordered(files[i].recs, BeforeRel)

\* The files that a compaction will not delete, and the lists it will install.
Live == IF job.ph = "compact" THEN DOMAIN files \ Range(job.old) ELSE DOMAIN files
NextLists == IF job.ph = "compact" THEN Installed ELSE lists

\* i is a readable file of level l.
OfLevel(i, l) == i \in DOMAIN files /\ files[i].level = l /\ ~files[i].torn

\* The lists name readable files of their level: those in use, until the files
\* they replace are deleted, and those a compaction will install.
ListInv ==
    proc = "open" =>
      /\ \A l \in 0..MaxLevel : \A i \in Range(NextLists[l]) : i \in Live /\ OfLevel(i, l)
      /\ (job.ph = "compact" => job.rest # <<>>) =>
           \A l \in 0..MaxLevel : \A i \in Range(lists[l]) : OfLevel(i, l)

Readable(r, S) == \E i \in S : ~files[i].torn /\ r \in RecsOf(i)

\* Every flushed record is in a readable file, and in one that will stay or
\* among the records that are still to be written.
KeepInv ==
    \A r \in flushed :
        /\ Readable(r, DOMAIN files)
        /\ job.ph = "compact" => r \in Range(job.rest) \/ Readable(r, Live)

Shapes == FileShapes /\ ListShapes /\ JobShape /\ MemShape
FaultInv == Shapes /\ IdInv /\ TableInv /\ ListInv /\ KeepInv

-----------------------------------------------------------------------------
(* The invariant while nothing has failed.                                  *)

\* Every key of A is below every key of B.
KeysBelow(A, B) == \A r \in A, s \in B : r.key < s.key

\* Files are written whole, and hold some records in order.
FilesWhole ==
    \A i \in DOMAIN files : ~files[i].torn /\ files[i].recs # <<>>
                            /\ Ordered(files[i].recs, AheadRel)

\* ls has the files of D, each in the list of its level: level 0 the newest
\* first, the others by id.
Exact(ls, D) ==
    \A l \in 0..MaxLevel :
        /\ Range(ls[l]) = {i \in D : files[i].level = l}
        /\ \A p, q \in DOMAIN ls[l] :
             p < q => IF l = 0 THEN ls[l][p] > ls[l][q] ELSE ls[l][p] < ls[l][q]

\* Upper levels are newer, in level 0 larger ids are, and below level 0 the
\* keys grow with the ids.
Layered(D) ==
    \A i, j \in D :
        /\ files[i].level < files[j].level => Newer(RecsOf(i), RecsOf(j))
        /\ files[i].level = 0 /\ files[j].level = 0 /\ i > j => Newer(RecsOf(i), RecsOf(j))
        /\ files[i].level > 0 /\ files[i].level = files[j].level /\ i < j =>
             KeysBelow(RecsOf(i), RecsOf(j))

ListsExact == Exact(NextLists, Live)
LevelOrder == Layered(Live)

\* What a compaction has still to write stands at its place in the levels.
RestOrder ==
    job.ph = "compact" =>
      /\ Ordered(job.rest, AheadRel)
      /\ \A i \in Live :
           /\ files[i].level <= job.src => Newer(RecsOf(i), Range(job.rest))
           /\ files[i].level > job.src + 1 => Newer(Range(job.rest), RecsOf(i))
           /\ files[i].level = job.src + 1 => KeysBelow(RecsOf(i), Range(job.rest))

\* The files hold what was flushed, and nothing else.
FlushedExact ==
    flushed = (UNION {RecsOf(i) : i \in Live})
                \cup (IF job.ph = "compact" THEN Range(job.rest) ELSE {})

\* The memtable holds the last writes, which are newer than all flushed ones.
MemNewer ==
    /\ Len(mem) <= writes
    /\ \A p \in DOMAIN mem : mem[p].n = writes - Len(mem) + p
    /\ \A r \in flushed : r.n <= writes - Len(mem)

\* Level 0 never grows beyond the ratio, and has room when a flush writes.
LevelRoom ==
    /\ Len(lists[0]) <= Ratio
    /\ job.ph = "build" => Len(lists[0]) < Ratio

OrderInv ==
    /\ FilesWhole /\ ListsExact /\ LevelOrder /\ RestOrder
    /\ FlushedExact /\ MemNewer /\ LevelRoom
NoFaultInv == faults = 0 => OrderInv
LevelsInv == FaultInv /\ NoFaultInv

-----------------------------------------------------------------------------
(* Files created and removed, and what a compaction starts with.            *)

\* What Created and Removed leave on disk.
LEMMA DiskFacts ==
    ASSUME NEW id, NEW level, NEW recs, NEW torn
    PROVE  /\ DOMAIN Created(id, level, recs, torn) = DOMAIN files \cup {id}
           /\ Created(id, level, recs, torn)[id] = [level |-> level, recs |-> recs, torn |-> torn]
           /\ \A i \in DOMAIN files : i # id => Created(id, level, recs, torn)[i] = files[i]
           /\ DOMAIN Removed(id) = DOMAIN files \ {id}
           /\ \A i \in DOMAIN files : i # id => Removed(id)[i] = files[i]
BY DEF Created, Removed

\* What a file holds.
LEMMA FileFields ==
    ASSUME FileShapes, NEW i \in DOMAIN files
    PROVE  /\ files[i].level \in 0..MaxLevel /\ files[i].level \in Nat
           /\ files[i].recs \in Seq(Recs) /\ files[i].torn \in BOOLEAN
           /\ RecsOf(i) \subseteq Recs
<1>1. files[i] \in SstFile
  BY DEF FileShapes
<1>2. files[i].level \in 0..MaxLevel /\ files[i].recs \in Seq(Recs) /\ files[i].torn \in BOOLEAN
  BY <1>1 DEF SstFile
<1>3. files[i].level \in Nat
  BY <1>2, BoundsAssumption
<1> QED
  BY <1>2, <1>3, FiniteElements DEF RecsOf

\* What a compaction holds; the other jobs are none.
LEMMA JobFields ==
    ASSUME JobShape
    PROVE  /\ job.ph \in {"idle", "build", "compact"}
           /\ job = Idle <=> job.ph = "idle"
           /\ job.ph = "compact" =>
                /\ job \in Compactions
                /\ job.src \in 0..(MaxLevel - 1) /\ job.src \in Nat /\ job.src + 1 \in 0..MaxLevel
                /\ job.src \in 0..MaxLevel /\ job.src # job.src + 1
                /\ job.new \in Seq(Nat) /\ job.rest \in Seq(Recs) /\ job.old \in Seq(Nat)
<1>1. job = Idle => job.ph = "idle"
  BY DEF Idle
<1>2. job = [ph |-> "build"] => job.ph = "build"
  OBVIOUS
<1>3. job \in Compactions =>
        job.ph = "compact" /\ job.src \in 0..(MaxLevel - 1)
        /\ job.new \in Seq(Nat) /\ job.rest \in Seq(Recs) /\ job.old \in Seq(Nat)
  BY DEF Compactions
<1>4. job.src \in 0..(MaxLevel - 1) =>
        job.src \in Nat /\ job.src + 1 \in 0..MaxLevel /\ job.src \in 0..MaxLevel
        /\ job.src # job.src + 1
  BY BoundsAssumption
<1> QED
  BY <1>1, <1>2, <1>3, <1>4 DEF JobShape

\* The files of a level one after the other.
LEMMA ConcatLevel ==
    ASSUME NEW ids \in Seq(Nat), \A i \in Range(ids) : files[i].recs \in Seq(Recs), NEW R
    PROVE  /\ Concat(ids) \in Seq(Recs)
           /\ Range(Concat(ids)) = UNION {RecsOf(i) : i \in Range(ids)}
           /\ (\A i \in Range(ids) : Ordered(files[i].recs, R))
                /\ (\A p, q \in DOMAIN ids : p < q => AllBefore(RecsOf(ids[p]), RecsOf(ids[q]), R))
              => Ordered(Concat(ids), R)
<1> DEFINE s == [p \in DOMAIN ids |-> files[ids[p]].recs]
<1>1. Len(ids) \in Nat /\ DOMAIN ids = 1..Len(ids)
  BY SeqBasics
<1>2. \A p \in DOMAIN ids : ids[p] \in Range(ids)
  BY DEF Range
<1>3. DOMAIN s = DOMAIN ids /\ \A p \in DOMAIN ids : s[p] = files[ids[p]].recs
  OBVIOUS
<1>4. s \in Seq(Seq(Recs))
  <2>1. s \in [1..Len(ids) -> Seq(Recs)]
    BY <1>1, <1>2
  <2> QED
    BY <1>1, <2>1
<1>5. Concat(ids) = FlattenSeq(s)
  BY DEF Concat
<1> HIDE DEF s
<1>6. /\ FlattenSeq(s) \in Seq(Recs)
      /\ Range(FlattenSeq(s)) = UNION {Range(s[p]) : p \in DOMAIN s}
      /\ (\A p \in DOMAIN s : Ordered(s[p], R))
           /\ (\A p, q \in DOMAIN s : p < q => AllBefore(Range(s[p]), Range(s[q]), R))
         => Ordered(FlattenSeq(s), R)
  BY <1>4, FlattenFacts
<1>7. \A p \in DOMAIN ids : Range(s[p]) = RecsOf(ids[p])
  BY <1>3 DEF RecsOf
<1>8. UNION {Range(s[p]) : p \in DOMAIN s} = UNION {RecsOf(i) : i \in Range(ids)}
  <2>1. ASSUME NEW p \in DOMAIN ids PROVE Range(s[p]) \subseteq UNION {RecsOf(i) : i \in Range(ids)}
    BY <1>2, <1>7
  <2>2. ASSUME NEW i \in Range(ids) PROVE RecsOf(i) \subseteq UNION {Range(s[p]) : p \in DOMAIN s}
    <3>1. PICK p \in DOMAIN ids : ids[p] = i
      BY DEF Range
    <3> QED
      BY <1>3, <1>7, <3>1
  <2> QED
    BY <1>3, <2>1, <2>2
<1>9. (\A i \in Range(ids) : Ordered(files[i].recs, R)) => \A p \in DOMAIN s : Ordered(s[p], R)
  BY <1>2, <1>3
<1>10. (\A p, q \in DOMAIN ids : p < q => AllBefore(RecsOf(ids[p]), RecsOf(ids[q]), R))
        => \A p, q \in DOMAIN s : p < q => AllBefore(Range(s[p]), Range(s[q]), R)
  BY <1>3, <1>7
<1> QED
  BY <1>5, <1>6, <1>8, <1>9, <1>10

\* ls is a set of lists that name readable files of their level.
ListsNameFiles(ls) ==
    /\ ls \in [0..MaxLevel -> Seq(Nat)]
    /\ \A l \in 0..MaxLevel : \A i \in Range(ls[l]) : OfLevel(i, l)

Upper(ls, src) == IF src = 0 THEN HeapMerge(ls[0]) ELSE Concat(ls[src])

\* The two inputs of a merge.
LEMMA MergeInputs ==
    ASSUME FileShapes, TableInv, NEW ls, ListsNameFiles(ls), NEW src \in 0..(MaxLevel - 1)
    PROVE  /\ src \in 0..MaxLevel /\ src + 1 \in 0..MaxLevel /\ src + 1 # 0 /\ src # src + 1
           /\ src \in Nat
           /\ ls[src] \in Seq(Nat) /\ ls[src + 1] \in Seq(Nat)
           /\ Upper(ls, src) \in Seq(Recs) /\ Concat(ls[src + 1]) \in Seq(Recs)
           /\ Range(Upper(ls, src)) = UNION {RecsOf(i) : i \in Range(ls[src])}
           /\ Range(Concat(ls[src + 1])) = UNION {RecsOf(i) : i \in Range(ls[src + 1])}
           /\ src = 0 => HeapInput(ls[0])
<1>1. src \in 0..MaxLevel /\ src + 1 \in 0..MaxLevel /\ src + 1 # 0 /\ src # src + 1 /\ src \in Nat
      /\ 0 \in 0..MaxLevel
  BY BoundsAssumption
<1>2. \A l \in 0..MaxLevel : /\ ls[l] \in Seq(Nat)
                            /\ \A i \in Range(ls[l]) : i \in DOMAIN files /\ files[i].level = l
                                                       /\ files[i].recs \in Seq(Recs)
  BY FileFields DEF ListsNameFiles, OfLevel
<1>3. ASSUME NEW l \in 0..MaxLevel
      PROVE  /\ Concat(ls[l]) \in Seq(Recs)
             /\ Range(Concat(ls[l])) = UNION {RecsOf(i) : i \in Range(ls[l])}
  BY <1>2, ConcatLevel
<1>4. HeapInput(ls[0])
  <2>1. \A i \in Range(ls[0]) : Ordered(files[i].recs, BeforeRel)
    BY <1>1, <1>2 DEF TableInv
  <2> QED
    BY <1>1, <1>2, <2>1 DEF HeapInput
<1>5. /\ Upper(ls, src) \in Seq(Recs)
      /\ Range(Upper(ls, src)) = UNION {RecsOf(i) : i \in Range(ls[src])}
  <2>1. CASE src = 0
    <3>1. /\ HeapMerge(ls[0]) \in Seq(Recs)
          /\ Range(HeapMerge(ls[0])) = UNION {RecsOf(i) : i \in Range(ls[0])}
      BY <1>4, HeapMergeFacts
    <3> QED
      BY <2>1, <3>1 DEF Upper
  <2>2. CASE src # 0
    BY <1>1, <1>3, <2>2 DEF Upper
  <2> QED
    BY <2>1, <2>2
<1> QED
  BY <1>1, <1>2, <1>3, <1>4, <1>5

\* What a compaction starts with: it will write every record of the files it
\* will delete.
LEMMA CompactingFacts ==
    ASSUME FileShapes, TableInv, NEW ls, ListsNameFiles(ls), NEW src \in 0..(MaxLevel - 1)
    PROVE  /\ Compacting(ls, src) \in Compactions
           /\ Compacting(ls, src).ph = "compact"
           /\ Compacting(ls, src).src = src
           /\ Compacting(ls, src).new = <<>>
           /\ Compacting(ls, src).rest = TwoMerge(Upper(ls, src), Concat(ls[src + 1]))
           /\ Range(Compacting(ls, src).old) = Range(ls[src]) \cup Range(ls[src + 1])
           /\ Range(Compacting(ls, src).rest) =
                UNION {RecsOf(i) : i \in Range(ls[src]) \cup Range(ls[src + 1])}
<1> DEFINE c == Compacting(ls, src)
           a == Upper(ls, src)
           b == Concat(ls[src + 1])
           m == TwoMerge(a, b)
           o == ls[src] \o ls[src + 1]
<1>1. /\ src \in 0..(MaxLevel - 1)
      /\ ls[src] \in Seq(Nat) /\ ls[src + 1] \in Seq(Nat)
      /\ a \in Seq(Recs) /\ b \in Seq(Recs)
      /\ Range(a) = UNION {RecsOf(i) : i \in Range(ls[src])}
      /\ Range(b) = UNION {RecsOf(i) : i \in Range(ls[src + 1])}
  BY MergeInputs
<1>2. c = [ph |-> "compact", src |-> src, new |-> <<>>, rest |-> m, old |-> o]
  BY DEF Compacting, Upper
<1> HIDE DEF c, a, b
<1>3. m \in Seq(Recs) /\ Range(m) = Range(a) \cup Range(b)
  BY <1>1, TwoMergeFacts
<1>4. o \in Seq(Nat) /\ Range(o) = Range(ls[src]) \cup Range(ls[src + 1])
  BY <1>1, JoinRange
<1>5. Range(m) = UNION {RecsOf(i) : i \in Range(ls[src]) \cup Range(ls[src + 1])}
  <2> HIDE DEF m
  <2> QED
    BY <1>1, <1>3
<1> HIDE DEF m, o
<1>6. <<>> \in Seq(Nat)
  OBVIOUS
<1>7. c \in Compactions
  BY <1>1, <1>2, <1>3, <1>4, <1>6 DEF Compactions
<1>8. c.ph = "compact" /\ c.src = src /\ c.new = <<>> /\ c.rest = m /\ c.old = o
  BY <1>2
<1> QED
  BY <1>4, <1>5, <1>7, <1>8 DEF c, m, a, b

\* Records of smaller keys stand ahead.
LEMMA KeysBelowAhead ==
    ASSUME NEW A \in SUBSET Recs, NEW B \in SUBSET Recs, KeysBelow(A, B)
    PROVE  AllBefore(A, B, AheadRel)
<1>1. ASSUME NEW r \in A, NEW s \in B PROVE <<r, s>> \in AheadRel
  <2>1. Ahead(r, s)
    BY DEF KeysBelow, Ahead, Before
  <2> QED
    BY <2>1 DEF AheadRel
<1> QED
  BY <1>1 DEF AllBefore

\* A level below level 0 is read in the order of a file.
LEMMA ConcatOrdered ==
    ASSUME FileShapes, FilesWhole, NEW ls, ListsNameFiles(ls), Exact(ls, DOMAIN files),
           Layered(DOMAIN files), NEW l \in 0..MaxLevel, l # 0
    PROVE  Ordered(Concat(ls[l]), AheadRel)
<1>1. ls[l] \in Seq(Nat) /\ \A i \in Range(ls[l]) : i \in DOMAIN files /\ files[i].level = l
  BY DEF ListsNameFiles, OfLevel
<1>2. \A i \in Range(ls[l]) : /\ files[i].recs \in Seq(Recs) /\ RecsOf(i) \in SUBSET Recs
                             /\ Ordered(files[i].recs, AheadRel)
  BY <1>1, FileFields DEF FilesWhole
<1>3. ASSUME NEW p \in DOMAIN ls[l], NEW q \in DOMAIN ls[l], p < q
      PROVE  AllBefore(RecsOf(ls[l][p]), RecsOf(ls[l][q]), AheadRel)
  <2> DEFINE i == ls[l][p]
             j == ls[l][q]
  <2>1. i \in Range(ls[l]) /\ j \in Range(ls[l])
    BY DEF Range
  <2>2. i < j
    BY <1>3 DEF Exact
  <2> HIDE DEF i, j
  <2>3. i \in DOMAIN files /\ j \in DOMAIN files /\ files[i].level = l /\ files[j].level = l
    BY <1>1, <2>1
  <2>4. l > 0
    BY BoundsAssumption
  <2>5. KeysBelow(RecsOf(i), RecsOf(j))
    BY <2>2, <2>3, <2>4 DEF Layered
  <2>6. AllBefore(RecsOf(i), RecsOf(j), AheadRel)
    BY <1>2, <2>1, <2>5, KeysBelowAhead
  <2> QED
    BY <2>6 DEF i, j
<1> QED
  BY <1>1, <1>2, <1>3, ConcatLevel

\* The merge of a level and the one below it is in the order of a file.
LEMMA CompactingOrder ==
    ASSUME FileShapes, TableInv, FilesWhole, NEW ls, ListsNameFiles(ls), Exact(ls, DOMAIN files),
           Layered(DOMAIN files), NEW src \in 0..(MaxLevel - 1)
    PROVE  Ordered(Compacting(ls, src).rest, AheadRel)
<1> DEFINE a == Upper(ls, src)
           b == Concat(ls[src + 1])
<1>1. /\ src \in 0..MaxLevel /\ src + 1 \in 0..MaxLevel /\ src + 1 # 0 /\ src \in Nat
      /\ a \in Seq(Recs) /\ b \in Seq(Recs)
      /\ Range(a) = UNION {RecsOf(i) : i \in Range(ls[src])}
      /\ Range(b) = UNION {RecsOf(i) : i \in Range(ls[src + 1])}
      /\ src = 0 => HeapInput(ls[0])
  BY MergeInputs
<1>2. Compacting(ls, src).rest = TwoMerge(a, b)
  BY CompactingFacts
<1>3. \A l \in 0..MaxLevel : \A i \in Range(ls[l]) : i \in DOMAIN files /\ files[i].level = l
  BY DEF ListsNameFiles, OfLevel
<1>4. Ordered(a, AheadRel)
  <2>1. CASE src = 0
    <3>1. 0 \in 0..MaxLevel /\ HeapInput(ls[0])
      BY <1>1, <2>1
    <3>2. \A i, j \in Range(ls[0]) : i > j => Newer(RecsOf(i), RecsOf(j))
      BY <1>3, <3>1 DEF Layered
    <3>3. Ordered(HeapMerge(ls[0]), AheadRel)
      BY <3>1, <3>2, HeapMergeFacts
    <3> QED
      BY <2>1, <3>3 DEF Upper
  <2>2. CASE src # 0
    <3>1. Ordered(Concat(ls[src]), AheadRel)
      BY <1>1, <2>2, ConcatOrdered
    <3> QED
      BY <2>2, <3>1 DEF Upper
  <2> QED
    BY <2>1, <2>2
<1>5. Ordered(b, AheadRel)
  BY <1>1, ConcatOrdered
<1> HIDE DEF a, b
<1>6. ChoosesBy(a, b, AheadRel)
  <2>1. ASSUME NEW x \in Range(a), NEW y \in Range(b)
        PROVE  (ChooseA(x, y) => <<x, y>> \in AheadRel) /\ (~ChooseA(x, y) => <<y, x>> \in AheadRel)
    <3>1. PICK i \in Range(ls[src]) : x \in RecsOf(i)
      BY <1>1
    <3>2. PICK j \in Range(ls[src + 1]) : y \in RecsOf(j)
      BY <1>1
    <3>3. i \in DOMAIN files /\ j \in DOMAIN files /\ files[i].level < files[j].level
      BY <1>1, <1>3
    <3>4. SameSlot(x, y) => x.n > y.n
      BY <3>1, <3>2, <3>3 DEF Layered, Newer
    <3>5. x \in Recs /\ y \in Recs
      BY <3>1, <3>2, <3>3, FileFields
    <3>6. x.key \in Nat /\ y.key \in Nat /\ x.ver \in Nat /\ y.ver \in Nat
      BY <3>5, RecFields
    <3>7. ChooseA(x, y) => Ahead(x, y)
      BY <3>4, <3>6 DEF ChooseA, Ahead, Before, SameSlot
    <3>8. ~ChooseA(x, y) => Ahead(y, x)
      BY <3>6 DEF ChooseA, Ahead, Before
    <3> QED
      BY <3>5, <3>7, <3>8 DEF AheadRel
  <2> QED
    BY <2>1 DEF ChoosesBy
<1>7. Transitive(Recs, AheadRel)
  <2>1. \A r, s \in Recs : <<r, s>> \in AheadRel <=> Ahead(r, s)
    BY DEF AheadRel
  <2> QED
    BY <2>1, RecOrders DEF Transitive
<1>8. Ordered(TwoMerge(a, b), AheadRel)
  BY <1>1, <1>4, <1>5, <1>6, <1>7, TwoMergeOrdered
<1> QED
  BY <1>2, <1>8

-----------------------------------------------------------------------------
(* Whatever fails, the invariant holds: nothing flushed is lost.            *)

\* A state in which no compaction runs.
LEMMA QuietFaultInv ==
    ASSUME FileShapes', ListShapes', MemShape', TableInv', IdInv',
           job' = Idle \/ job' = [ph |-> "build"],
           proc' = "open" => ListsNameFiles(lists)',
           \A r \in flushed' : Readable(r, DOMAIN files)'
    PROVE  FaultInv'
<1>1. job'.ph # "compact"
  BY DEF Idle
<1>2. Live' = DOMAIN files' /\ NextLists' = lists'
  BY <1>1 DEF Live, NextLists
<1>3. Shapes'
  BY DEF Shapes, JobShape
<1>4. ListInv'
  <2> SUFFICES ASSUME proc' = "open" PROVE ListInv'
    BY DEF ListInv
  <2>1. \A l \in 0..MaxLevel : \A i \in Range(lists'[l]) : OfLevel(i, l)'
    BY DEF ListsNameFiles
  <2>2. \A i, l : OfLevel(i, l)' => i \in DOMAIN files'
    BY DEF OfLevel
  <2> QED
    BY <1>2, <2>1, <2>2 DEF ListInv
<1>5. KeepInv'
  BY <1>1 DEF KeepInv
<1> QED
  BY <1>3, <1>4, <1>5 DEF FaultInv

\* A state in which a compaction starts.
LEMMA StartFaultInv ==
    ASSUME FileShapes, MemShape, IdInv, TableInv, \A r \in flushed : Readable(r, DOMAIN files),
           proc = "open", NEW ls, ListsNameFiles(ls), NEW src \in 0..(MaxLevel - 1),
           job' = Compacting(ls, src), lists' = ls, files' = files, nextSstId' = nextSstId,
           proc' = proc, MemShape', flushed' = flushed
    PROVE  FaultInv'
<1> DEFINE c == Compacting(ls, src)
           O == Range(ls[src]) \cup Range(ls[src + 1])
<1>1. /\ c \in Compactions /\ c.ph = "compact" /\ c.src = src /\ c.new = <<>>
      /\ Range(c.old) = O /\ Range(c.rest) = UNION {RecsOf(i) : i \in O}
  BY CompactingFacts
<1> HIDE DEF c
<1>2. job' = c
  BY DEF c
<1>3. /\ ls \in [0..MaxLevel -> Seq(Nat)]
      /\ \A l \in 0..MaxLevel : \A i \in Range(ls[l]) : OfLevel(i, l)
  BY DEF ListsNameFiles
<1>4. src \in 0..MaxLevel /\ src + 1 \in 0..MaxLevel /\ src # src + 1
  BY BoundsAssumption
<1>5. Shapes'
  BY <1>1, <1>2, <1>3 DEF Shapes, FileShapes, ListShapes, JobShape
<1>6. TableInv'
  BY DEF TableInv
<1>7. IdInv'
  <2>1. \A i \in O : i \in DOMAIN files
    BY <1>3, <1>4 DEF OfLevel
  <2>2. \A i \in Range(c.old) : i < nextSstId
    BY <1>1, <2>1 DEF IdInv
  <2> QED
    BY <1>2, <2>2 DEF IdInv
<1>8. Live' = DOMAIN files \ O
  BY <1>1, <1>2 DEF Live
<1>9. NextLists' = [ls EXCEPT ![src] = <<>>, ![src + 1] = <<>>]
  BY <1>1, <1>2 DEF NextLists, Installed
<1>10. ListInv'
  <2>1. \A i, l : OfLevel(i, l)' <=> OfLevel(i, l)
    BY DEF OfLevel
  <2>2. ASSUME NEW l \in 0..MaxLevel, NEW i \in Range(NextLists'[l])
        PROVE  i \in Live' /\ OfLevel(i, l)
    <3>1. l # src /\ l # src + 1 /\ NextLists'[l] = ls[l]
      <4>1. Range(<<>>) = {}
        BY DEF Range
      <4>2. l = src \/ l = src + 1 => NextLists'[l] = <<>>
        BY <1>3, <1>4, <1>9
      <4> QED
        BY <1>3, <1>9, <2>2, <4>1, <4>2
    <3>2. OfLevel(i, l)
      BY <1>3, <2>2, <3>1
    <3>3. i \notin O
      BY <1>3, <1>4, <3>1, <3>2 DEF OfLevel
    <3> QED
      BY <1>8, <3>2, <3>3 DEF OfLevel
  <2> QED
    BY <1>3, <2>1, <2>2 DEF ListInv
<1>11. KeepInv'
  <2>1. ASSUME NEW r \in flushed
        PROVE  Readable(r, DOMAIN files)' /\ (r \in Range(c.rest) \/ Readable(r, Live)')
    <3>1. PICK i \in DOMAIN files : ~files[i].torn /\ r \in RecsOf(i)
      BY DEF Readable
    <3>2. ~files'[i].torn /\ r \in RecsOf(i)'
      BY <3>1 DEF RecsOf
    <3>3. CASE i \in O
      BY <1>1, <3>1, <3>2, <3>3 DEF Readable
    <3>4. CASE i \notin O
      BY <1>8, <3>1, <3>2, <3>4 DEF Readable
    <3> QED
      BY <3>3, <3>4
  <2> QED
    BY <1>2, <2>1 DEF KeepInv
<1> QED
  BY <1>5, <1>6, <1>7, <1>10, <1>11 DEF FaultInv

\* The disk, the lists and the job are as they were.
LEMMA SameDisk ==
    ASSUME FaultInv, MemShape', files' = files, lists' = lists, nextSstId' = nextSstId,
           job' = job, proc' = proc, flushed' = flushed
    PROVE  FaultInv'
<1>1. Live' = Live /\ NextLists' = NextLists
  BY DEF Live, NextLists, Installed
<1>2. (\A i : RecsOf(i)' = RecsOf(i)) /\ \A i, l : OfLevel(i, l)' <=> OfLevel(i, l)
  BY DEF RecsOf, OfLevel
<1>3. Shapes'
  BY DEF FaultInv, Shapes, FileShapes, ListShapes, JobShape
<1>4. IdInv' /\ TableInv'
  BY DEF FaultInv, IdInv, TableInv
<1>5. ListInv'
  BY <1>1, <1>2 DEF FaultInv, ListInv
<1>6. KeepInv'
  <2>1. \A r, S : Readable(r, S)' <=> Readable(r, S)
    BY <1>2 DEF Readable
  <2> QED
    BY <1>1, <2>1 DEF FaultInv, KeepInv
<1> QED
  BY <1>3, <1>4, <1>5, <1>6 DEF FaultInv

\* A write: the memtable grows.
LEMMA WriteFault ==
    ASSUME FaultInv, NEW k \in Keys, NEW v \in 1..MaxVer, Write(k, v)
    PROVE  FaultInv'
<1>1. MemShape
  BY DEF FaultInv, Shapes
<1>2. [key |-> k, ver |-> v, n |-> writes + 1] \in Recs
  BY <1>1 DEF Recs, MemShape
<1>3. mem' \in Seq(Recs)
  BY <1>1, <1>2, AppendFacts DEF Write, MemShape
<1>4. MemShape'
  BY <1>1, <1>3 DEF Write, MemShape
<1> QED
  BY <1>4, SameDisk DEF Write

\* full_compact starts at a level above the last one.
LEMMA DeepestFacts == Deepest \in 0..(MaxLevel - 1)
<1> DEFINE S == {l \in 0..(MaxLevel - 1) : l = MaxLevel - 1 \/ ~Full(l + 1)}
<1>1. S \subseteq Nat /\ MaxLevel - 1 \in S /\ S \subseteq 0..(MaxLevel - 1)
  BY BoundsAssumption
<1>2. Deepest = Min(S)
  BY DEF Deepest
<1> HIDE DEF S
<1>3. Min(S) \in S
  BY <1>1, MinNat
<1> QED
  BY <1>1, <1>2, <1>3

\* What an idle or building engine knows.
LEMMA QuietFacts ==
    ASSUME FaultInv, job.ph # "compact"
    PROVE  /\ proc = "open" => ListsNameFiles(lists)
           /\ \A r \in flushed : Readable(r, DOMAIN files)
           /\ Live = DOMAIN files /\ NextLists = lists
           /\ job = Idle \/ job = [ph |-> "build"]
<1>1. ListShapes /\ JobShape
  BY DEF FaultInv, Shapes
<1>2. proc = "open" => ListsNameFiles(lists)
  BY <1>1 DEF FaultInv, ListInv, ListsNameFiles, ListShapes
<1>3. \A r \in flushed : Readable(r, DOMAIN files)
  BY DEF FaultInv, KeepInv
<1>4. Live = DOMAIN files /\ NextLists = lists
  BY DEF Live, NextLists
<1>5. job = Idle \/ job = [ph |-> "build"]
  BY <1>1 DEF JobShape, Compactions
<1> QED
  BY <1>2, <1>3, <1>4, <1>5

\* A flush starts: it compacts first, or writes at once.
LEMMA FlushStartFault ==
    ASSUME FaultInv, FlushStart
    PROVE  FaultInv'
<1>1. /\ proc = "open" /\ job = Idle /\ proc' = proc /\ files' = files /\ lists' = lists
      /\ nextSstId' = nextSstId /\ flushed' = flushed /\ mem' = mem /\ writes' = writes
      /\ faults' = faults
      /\ job' = IF Full(0) THEN Compacting(lists, Deepest) ELSE [ph |-> "build"]
  BY DEF FlushStart
<1>2. job.ph # "compact"
  BY <1>1 DEF Idle
<1>3. ListsNameFiles(lists) /\ \A r \in flushed : Readable(r, DOMAIN files)
  BY <1>1, <1>2, QuietFacts
<1>4. FileShapes /\ ListShapes /\ MemShape /\ IdInv /\ TableInv
  BY DEF FaultInv, Shapes
<1>5. MemShape'
  BY <1>1, <1>4 DEF MemShape
<1>6. CASE Full(0)
  <2>1. job' = Compacting(lists, Deepest)
    BY <1>1, <1>6
  <2> QED
    BY <1>1, <1>3, <1>4, <1>5, <2>1, DeepestFacts, StartFaultInv
<1>7. CASE ~Full(0)
  <2>1. job' = [ph |-> "build"]
    BY <1>1, <1>7
  <2>2. FileShapes' /\ ListShapes' /\ TableInv'
    BY <1>1, <1>4 DEF FileShapes, ListShapes, TableInv
  <2>3. IdInv'
    BY <1>1, <1>4, <2>1 DEF IdInv
  <2>4. ListsNameFiles(lists)'
    BY <1>1, <1>3 DEF ListsNameFiles, OfLevel
  <2>5. \A r \in flushed' : Readable(r, DOMAIN files)'
    BY <1>1, <1>3 DEF Readable, RecsOf
  <2> QED
    BY <1>5, <2>1, <2>2, <2>3, <2>4, <2>5, QuietFaultInv
<1> QED
  BY <1>6, <1>7

\* A new file changes no other one.
LEMMA Creates ==
    ASSUME FileShapes, IdInv, TableInv, proc = "open",
           NEW level \in 0..MaxLevel, NEW recs \in Seq(Recs), NEW torn \in BOOLEAN,
           level = 0 => Ordered(recs, BeforeRel),
           files' = Created(nextSstId, level, recs, torn)
    PROVE  /\ nextSstId \notin DOMAIN files /\ nextSstId \in Nat
           /\ DOMAIN files' = DOMAIN files \cup {nextSstId}
           /\ files'[nextSstId] = [level |-> level, recs |-> recs, torn |-> torn]
           /\ \A i \in DOMAIN files : files'[i] = files[i] /\ RecsOf(i)' = RecsOf(i)
           /\ FileShapes' /\ TableInv'
           /\ \A i, l : OfLevel(i, l) => OfLevel(i, l)'
           /\ \A r : Readable(r, DOMAIN files) => Readable(r, DOMAIN files)'
           /\ \A i \in DOMAIN files' : i \in 1..nextSstId
<1> DEFINE id == nextSstId
           new == [level |-> level, recs |-> recs, torn |-> torn]
<1>1. id \in Nat \ {0} /\ \A i \in DOMAIN files : i \in 1..id /\ i < id
  BY DEF IdInv
<1>2. id \notin DOMAIN files
  BY <1>1
<1>3. /\ DOMAIN files' = DOMAIN files \cup {id} /\ files'[id] = new
      /\ \A i \in DOMAIN files : files'[i] = files[i]
  <2> DEFINE c == Created(id, level, recs, torn)
  <2>1. /\ DOMAIN c = DOMAIN files \cup {id} /\ c[id] = new
        /\ \A i \in DOMAIN files : i # id => c[i] = files[i]
    BY DEF Created
  <2>2. files' = c
    OBVIOUS
  <2> HIDE DEF c
  <2> QED
    BY <1>2, <2>1, <2>2
<1>4. \A i \in DOMAIN files : RecsOf(i)' = RecsOf(i)
  BY <1>3 DEF RecsOf
<1>5. new \in SstFile /\ new.level = level /\ new.recs = recs
  BY DEF SstFile
<1> HIDE DEF new
<1>6. FileShapes'
  BY <1>3, <1>5 DEF FileShapes
<1>7. TableInv'
  BY <1>3, <1>5 DEF TableInv
<1>8. \A i, l : OfLevel(i, l) => OfLevel(i, l)'
  BY <1>3 DEF OfLevel
<1>9. \A r : Readable(r, DOMAIN files) => Readable(r, DOMAIN files)'
  BY <1>3, <1>4 DEF Readable
<1>10. \A i \in DOMAIN files' : i \in 1..id
  BY <1>1, <1>3
<1> QED
  BY <1>1, <1>2, <1>3, <1>4, <1>6, <1>7, <1>8, <1>9, <1>10 DEF new

\* Compaction writes a file of what is left.
LEMMA CompactWriteFault ==
    ASSUME FaultInv, CompactWrite
    PROVE  FaultInv'
<1>0. PICK id : id = nextSstId
  OBVIOUS
<1> DEFINE rest == job.rest
           src == job.src
<1>1. FileShapes /\ ListShapes /\ JobShape /\ MemShape /\ IdInv /\ TableInv /\ ListInv /\ KeepInv
  BY DEF FaultInv, Shapes
<1>2. job.ph = "compact" /\ nextSstId' = id + 1
      /\ mem' = mem /\ lists' = lists /\ proc' = proc /\ writes' = writes /\ faults' = faults
      /\ flushed' = flushed
  BY <1>0 DEF CompactWrite, history
<1>3. PICK n \in DOMAIN rest :
         /\ files' = Created(id, src + 1, SubSeq(rest, 1, n), FALSE)
         /\ job' = [job EXCEPT !.rest = SubSeq(@, n + 1, Len(@)), !.new = Append(@, id)]
  BY <1>0 DEF CompactWrite
<1> DEFINE a == SubSeq(rest, 1, n)
           b == SubSeq(rest, n + 1, Len(rest))
<1>4. /\ job \in Compactions /\ src \in 0..(MaxLevel - 1) /\ src \in Nat /\ src + 1 \in 0..MaxLevel
      /\ src \in 0..MaxLevel /\ src # src + 1
      /\ job.new \in Seq(Nat) /\ rest \in Seq(Recs) /\ job.old \in Seq(Nat)
  BY <1>1, <1>2, JobFields
<1>5. n \in 0..Len(rest) /\ Len(rest) \in Nat
  BY <1>3, <1>4, SeqBasics
<1>6. a \in Seq(Recs) /\ b \in Seq(Recs) /\ Range(rest) = Range(a) \cup Range(b)
  BY <1>4, <1>5, SplitRange
<1>7. proc = "open"
  BY <1>1, <1>2 DEF IdInv, Idle
<1>8. src + 1 # 0
  BY <1>4
<1> HIDE DEF a
<1>9. files' = Created(id, src + 1, a, FALSE)
  BY <1>3 DEF a
<1>10. /\ id \notin DOMAIN files /\ id \in Nat
       /\ DOMAIN files' = DOMAIN files \cup {id}
       /\ files'[id] = [level |-> src + 1, recs |-> a, torn |-> FALSE]
       /\ \A i \in DOMAIN files : files'[i] = files[i] /\ RecsOf(i)' = RecsOf(i)
       /\ FileShapes' /\ TableInv'
       /\ \A i, l : OfLevel(i, l) => OfLevel(i, l)'
       /\ \A r : Readable(r, DOMAIN files) => Readable(r, DOMAIN files)'
       /\ \A i \in DOMAIN files' : i \in 1..id
  BY <1>0, <1>1, <1>4, <1>6, <1>7, <1>8, <1>9, Creates
<1>11. /\ job'.ph = "compact" /\ job'.src = src /\ job'.rest = b
       /\ job'.new = Append(job.new, id) /\ job'.old = job.old
  BY <1>3, <1>4 DEF Compactions
<1>12. Append(job.new, id) \in Seq(Nat) /\ Range(Append(job.new, id)) = Range(job.new) \cup {id}
  <2>1. Append(job.new, id) \in Seq(Nat)
    BY <1>4, <1>10, AppendFacts
  <2>2. Range(Append(job.new, id)) = Range(job.new) \cup {id}
    <3> DEFINE new == job.new
    <3>1. new \in Seq(Nat) /\ id \in Nat
      BY <1>4, <1>10
    <3> HIDE DEF new
    <3>2. \A e \in Nat : Range(Append(new, e)) = Range(new) \cup {e}
      BY <3>1, EndRanges
    <3> QED
      BY <3>1, <3>2 DEF new
  <2> QED
    BY <2>1, <2>2
<1>13. job' \in Compactions
  <2>1. job' = [job EXCEPT !.rest = b, !.new = Append(job.new, id)]
    BY <1>3
  <2> HIDE DEF b
  <2> QED
    BY <1>4, <1>6, <1>12, <2>1 DEF Compactions
<1> HIDE DEF b
<1>14. Shapes'
  BY <1>1, <1>2, <1>10, <1>13 DEF Shapes, ListShapes, JobShape, MemShape
<1>15. IdInv'
  <2>1. id \in Nat \ {0} /\ \A i \in Range(job.old) : i < id
    BY <1>0, <1>1, <1>2 DEF IdInv
  <2>2. \A i \in Range(job.old) : i \in Nat
    BY <1>4, FiniteElements
  <2>3. id + 1 \in Nat \ {0} /\ \A i \in Range(job.old) : i < id + 1
    BY <2>1, <2>2
  <2>4. \A i \in DOMAIN files' : i \in 1..(id + 1) /\ i < id + 1
    BY <1>10, <2>1
  <2> QED
    BY <1>2, <1>7, <1>11, <2>3, <2>4 DEF IdInv
<1>16. Live' = Live \cup {id} /\ id \notin Range(job.old)
  <2>1. id \notin Range(job.old)
    <3>1. id \in Range(job.old) => id < id
      BY <1>0, <1>1, <1>2 DEF IdInv
    <3> QED
      BY <1>10, <3>1
  <2> QED
    BY <1>2, <1>10, <1>11, <2>1 DEF Live
<1>17. ListInv'
  <2>1. ASSUME NEW l \in 0..MaxLevel, NEW i \in Range(NextLists'[l])
        PROVE  i \in Live' /\ OfLevel(i, l)'
    <3>0. NextLists' = [lists EXCEPT ![src] = <<>>, ![src + 1] = Append(job.new, id)]
      BY <1>2, <1>11 DEF NextLists, Installed
    <3>1. NextLists = [lists EXCEPT ![src] = <<>>, ![src + 1] = job.new]
      BY <1>2 DEF NextLists, Installed
    <3>2. lists \in [0..MaxLevel -> Seq(Nat)]
      BY <1>1 DEF ListShapes
    <3>3. \A m \in 0..MaxLevel : \A j \in Range(NextLists[m]) : j \in Live /\ OfLevel(j, m)
      BY <1>1, <1>7 DEF ListInv
    <3>4. CASE l = src + 1
      <4>1. NextLists'[l] = Append(job.new, id) /\ NextLists[l] = job.new
        BY <1>4, <3>0, <3>1, <3>2, <3>4
      <4>2. CASE i = id
        <5>1. OfLevel(id, l)'
          BY <1>10, <3>4 DEF OfLevel
        <5> QED
          BY <1>16, <4>2, <5>1
      <4>3. CASE i \in Range(job.new)
        BY <1>10, <1>16, <3>3, <4>1, <4>3
      <4> QED
        BY <1>12, <2>1, <4>1, <4>2, <4>3
    <3>5. CASE l # src + 1
      <4>1. NextLists'[l] = NextLists[l]
        BY <1>4, <3>0, <3>1, <3>2, <3>5
      <4> QED
        BY <1>10, <1>16, <2>1, <3>3, <4>1
    <3> QED
      BY <3>4, <3>5
  <2>2. ASSUME b # <<>> PROVE \A l \in 0..MaxLevel : \A i \in Range(lists[l]) : OfLevel(i, l)'
    <3>1. rest # <<>>
      BY <1>3
    <3>2. \A l \in 0..MaxLevel : \A i \in Range(lists[l]) : OfLevel(i, l)
      BY <1>1, <1>7, <3>1 DEF ListInv
    <3> QED
      BY <1>10, <3>2
  <2> QED
    BY <1>2, <1>11, <2>1, <2>2 DEF ListInv
<1>18. KeepInv'
  <2>1. ASSUME NEW r \in flushed
        PROVE  Readable(r, DOMAIN files)' /\ (r \in Range(b) \/ Readable(r, Live)')
    <3>1. Readable(r, DOMAIN files)'
      BY <1>1, <1>10 DEF KeepInv
    <3>2. CASE r \in Range(rest) /\ r \notin Range(b)
      <4>1. r \in RecsOf(id)' /\ ~files'[id].torn
        BY <1>6, <1>10, <3>2 DEF RecsOf
      <4> QED
        BY <1>16, <3>1, <4>1 DEF Readable
    <3>3. CASE Readable(r, Live)
      <4>1. PICK i \in Live : ~files[i].torn /\ r \in RecsOf(i)
        BY <3>3 DEF Readable
      <4>2. i \in DOMAIN files
        BY DEF Live
      <4>3. ~files'[i].torn /\ r \in RecsOf(i)' /\ i \in Live'
        BY <1>10, <1>16, <4>1, <4>2
      <4> QED
        BY <3>1, <4>3 DEF Readable
    <3> QED
      BY <1>1, <1>2, <3>1, <3>2, <3>3 DEF KeepInv
  <2> QED
    BY <1>2, <1>11, <2>1 DEF KeepInv
<1> QED
  BY <1>10, <1>14, <1>15, <1>17, <1>18 DEF FaultInv

\* Compaction deletes an old file, or fails to.
LEMMA CompactDeleteFault ==
    ASSUME FaultInv, CompactDelete
    PROVE  FaultInv'
<1> DEFINE old == job.old
           h == Head(old)
<1>1. FileShapes /\ ListShapes /\ JobShape /\ MemShape /\ IdInv /\ TableInv /\ ListInv /\ KeepInv
  BY DEF FaultInv, Shapes
<1>2. /\ job.ph = "compact" /\ job.rest = <<>> /\ old # <<>>
      /\ mem' = mem /\ lists' = lists /\ proc' = proc /\ writes' = writes
      /\ flushed' = flushed /\ nextSstId' = nextSstId
      /\ job' = [job EXCEPT !.old = Tail(@)]
      /\ files' = Removed(h) \/ files' = files
      /\ faults' = faults \/ faults' = faults + 1
  BY DEF CompactDelete
<1>3. /\ job \in Compactions /\ job.src \in 0..MaxLevel /\ job.src + 1 \in 0..MaxLevel
      /\ job.rest \in Seq(Recs) /\ old \in Seq(Nat)
  BY <1>1, <1>2, JobFields
<1>4. Tail(old) \in Seq(Nat) /\ Range(old) = {h} \cup Range(Tail(old))
  BY <1>2, <1>3, EndFacts, EndRanges
<1>5. /\ job'.ph = "compact" /\ job'.src = job.src /\ job'.rest = <<>> /\ job'.new = job.new
      /\ job'.old = Tail(old) /\ job' \in Compactions
  BY <1>2, <1>3, <1>4 DEF Compactions
<1>6. proc = "open"
  BY <1>1, <1>2 DEF IdInv, Idle
<1>7. /\ DOMAIN files' \subseteq DOMAIN files
      /\ \A i \in DOMAIN files' : files'[i] = files[i] /\ RecsOf(i)' = RecsOf(i)
      /\ \A i \in DOMAIN files : i \in Live => i \in DOMAIN files'
  <2>1. CASE files' = files
    BY <2>1 DEF RecsOf
  <2>2. CASE files' = Removed(h)
    <3>1. DOMAIN files' = DOMAIN files \ {h} /\ \A i \in DOMAIN files : i # h => files'[i] = files[i]
      BY <2>2, DiskFacts
    <3>2. h \notin Live
      BY <1>2, <1>4 DEF Live
    <3> QED
      BY <3>1, <3>2 DEF RecsOf
  <2> QED
    BY <1>2, <2>1, <2>2
<1>8. Live \subseteq Live' /\ Live \subseteq DOMAIN files
  <2>1. Live = DOMAIN files \ Range(old)
    BY <1>2 DEF Live
  <2>2. Live' = DOMAIN files' \ Range(Tail(old))
    BY <1>5 DEF Live
  <2> QED
    BY <1>4, <1>7, <2>1, <2>2
<1>9. \A i \in Live : i \in DOMAIN files' /\ files'[i] = files[i] /\ RecsOf(i)' = RecsOf(i)
  BY <1>7, <1>8
<1>10. Shapes' /\ TableInv'
  <2>1. FileShapes' /\ TableInv'
    BY <1>1, <1>7 DEF FileShapes, TableInv
  <2>2. MemShape'
    BY <1>1, <1>2 DEF MemShape
  <2> QED
    BY <1>1, <1>2, <1>5, <2>1, <2>2 DEF Shapes, ListShapes, JobShape
<1>11. IdInv'
  <2>1. \A i \in Range(Tail(old)) : i < nextSstId
    BY <1>1, <1>2, <1>4 DEF IdInv
  <2> QED
    BY <1>1, <1>2, <1>5, <1>6, <1>7, <2>1 DEF IdInv
<1>12. NextLists' = NextLists
  BY <1>2, <1>5 DEF NextLists, Installed
<1>13. ListInv'
  <2>1. \A l \in 0..MaxLevel : \A i \in Range(NextLists[l]) : i \in Live /\ OfLevel(i, l)
    BY <1>1, <1>6 DEF ListInv
  <2>2. \A l \in 0..MaxLevel : \A i \in Range(NextLists[l]) : i \in Live' /\ OfLevel(i, l)'
    BY <1>8, <1>9, <2>1 DEF OfLevel
  <2> QED
    BY <1>5, <1>12, <2>2 DEF ListInv
<1>14. KeepInv'
  <2>1. ASSUME NEW r \in flushed PROVE Readable(r, DOMAIN files)' /\ Readable(r, Live)'
    <3>1. r \notin Range(job.rest)
      BY <1>2 DEF Range
    <3>2. Readable(r, Live)
      BY <1>1, <1>2, <3>1 DEF KeepInv
    <3>3. PICK i \in Live : ~files[i].torn /\ r \in RecsOf(i)
      BY <3>2 DEF Readable
    <3>4. i \in DOMAIN files' /\ i \in Live' /\ ~files'[i].torn /\ r \in RecsOf(i)'
      BY <1>8, <1>9, <3>3
    <3> QED
      BY <3>4 DEF Readable
  <2> QED
    BY <1>2, <2>1 DEF KeepInv
<1> QED
  BY <1>10, <1>11, <1>13, <1>14 DEF FaultInv
-----------------------------------------------------------------------------
(* The files of a level as they are listed on reopening.                    *)

\* What a reopened engine has for a level: the files of that level on disk.
LEMMA DiskLists ==
    ASSUME FileShapes, IdInv, NEW l \in 0..MaxLevel
    PROVE  /\ LevelFromDisk(l) \in Seq(Nat)
           /\ Range(LevelFromDisk(l)) = {i \in DOMAIN files : files[i].level = l}
           /\ Len(LevelFromDisk(l)) = Cardinality({i \in DOMAIN files : files[i].level = l})
           /\ \A p, q \in DOMAIN LevelFromDisk(l) :
                p < q => IF l = 0 THEN LevelFromDisk(l)[p] > LevelFromDisk(l)[q]
                         ELSE LevelFromDisk(l)[p] < LevelFromDisk(l)[q]
<1> DEFINE S == {i \in DOMAIN files : files[i].level = l}
<1>1. S \in SUBSET Nat /\ nextSstId \in Nat /\ \A i \in S : i <= nextSstId
  BY DEF IdInv
<1>2. LevelFromDisk(l) = IF l = 0 THEN InOrder(S, >) ELSE InOrder(S, <)
  BY DEF LevelFromDisk
<1> HIDE DEF S
<1>3. IsFiniteSet(S)
  BY <1>1, FS_BoundedSetOfNaturals
<1>4. CASE l = 0
  <2> DEFINE L == InOrder(S, >)
  <2>1. /\ L \in Seq(Nat) /\ Range(L) = S /\ Len(L) = Cardinality(S)
        /\ \A p, q \in DOMAIN L : p < q => L[p] > L[q]
    BY <1>1, <1>3, ListedDown
  <2>2. LevelFromDisk(l) = L
    BY <1>2, <1>4
  <2> HIDE DEF L
  <2> QED
    BY <1>4, <2>1, <2>2 DEF S
<1>5. CASE l # 0
  <2> DEFINE L == InOrder(S, <)
  <2>1. /\ L \in Seq(Nat) /\ Range(L) = S /\ Len(L) = Cardinality(S)
        /\ \A p, q \in DOMAIN L : p < q => L[p] < L[q]
    BY <1>1, <1>3, ListedUp
  <2>2. LevelFromDisk(l) = L
    BY <1>2, <1>5
  <2> HIDE DEF L
  <2> QED
    BY <1>5, <2>1, <2>2 DEF S
<1> QED
  BY <1>4, <1>5

\* The next id on reopening is beyond every file.
LEMMA ReopenNextFacts ==
    ASSUME IdInv
    PROVE  ReopenNext \in Nat \ {0} /\ \A i \in DOMAIN files : i \in 1..ReopenNext /\ i < ReopenNext
<1> DEFINE S == DOMAIN files \cup {0}
<1>1. S \subseteq 0..nextSstId /\ S # {} /\ nextSstId \in Nat
  BY DEF IdInv
<1>2. ReopenNext = Max(S) + 1
  BY DEF ReopenNext
<1>3. \A i \in DOMAIN files : i \in S /\ i >= 1
  BY DEF IdInv
<1> HIDE DEF S
<1>4. Max(S) \in S /\ \A i \in S : i <= Max(S)
  BY <1>1, MaxBounded
<1>5. Max(S) \in Nat /\ \A i \in S : i \in Nat
  <2>1. \A i \in 0..nextSstId : i \in Nat
    BY <1>1
  <2> QED
    BY <1>1, <1>4, <2>1, Zenon
<1> HIDE DEF ReopenNext
<1> QED
  BY <1>2, <1>3, <1>4, <1>5

-----------------------------------------------------------------------------
(* The other steps of a flush, and closing, crashing and reopening.         *)

\* All old files are deleted: what a finished compaction leaves.
LEMMA DoneFacts ==
    ASSUME FaultInv, job.ph = "compact", job.rest = <<>>, job.old = <<>>
    PROVE  /\ proc = "open" /\ Live = DOMAIN files /\ NextLists = Installed
           /\ ListsNameFiles(Installed)
           /\ \A r \in flushed : Readable(r, DOMAIN files)
           /\ job.src \in 0..(MaxLevel - 1)
<1>1. ListShapes /\ JobShape /\ IdInv /\ ListInv /\ KeepInv
  BY DEF FaultInv, Shapes
<1>2. proc = "open"
  BY <1>1 DEF IdInv, Idle
<1>3. Range(job.old) = {}
  BY DEF Range
<1>4. Live = DOMAIN files /\ NextLists = Installed
  BY <1>3 DEF Live, NextLists
<1>5. /\ job.src \in 0..(MaxLevel - 1) /\ job.src \in 0..MaxLevel /\ job.src + 1 \in 0..MaxLevel
      /\ job.new \in Seq(Nat)
  BY <1>1, JobFields
<1>6. Installed \in [0..MaxLevel -> Seq(Nat)]
  <2>1. lists \in [0..MaxLevel -> Seq(Nat)] /\ <<>> \in Seq(Nat)
    BY <1>1 DEF ListShapes
  <2> QED
    BY <1>5, <2>1 DEF Installed
<1>7. \A l \in 0..MaxLevel : \A i \in Range(Installed[l]) : OfLevel(i, l)
  BY <1>1, <1>2, <1>4 DEF ListInv
<1>8. \A r \in flushed : Readable(r, DOMAIN files)
  BY <1>1 DEF KeepInv
<1> QED
  BY <1>2, <1>4, <1>5, <1>6, <1>7, <1>8 DEF ListsNameFiles

\* The new files are installed; the next compaction starts, or the flush writes.
LEMMA CompactInstallFault ==
    ASSUME FaultInv, CompactInstall
    PROVE  FaultInv'
<1>1. /\ job.ph = "compact" /\ job.rest = <<>> /\ job.old = <<>> /\ lists' = Installed
      /\ job' = IF job.src = 0 THEN [ph |-> "build"] ELSE Compacting(Installed, job.src - 1)
      /\ mem' = mem /\ files' = files /\ nextSstId' = nextSstId /\ proc' = proc
      /\ writes' = writes /\ faults' = faults /\ flushed' = flushed
  BY DEF CompactInstall, history
<1>2. FileShapes /\ MemShape /\ IdInv /\ TableInv
  BY DEF FaultInv, Shapes
<1>3. /\ proc = "open" /\ ListsNameFiles(Installed)
      /\ \A r \in flushed : Readable(r, DOMAIN files)
      /\ job.src \in 0..(MaxLevel - 1)
  BY <1>1, DoneFacts
<1>4. MemShape'
  BY <1>1, <1>2 DEF MemShape
<1>5. CASE job.src = 0
  <2>1. job' = [ph |-> "build"]
    BY <1>1, <1>5
  <2>2. FileShapes' /\ TableInv'
    BY <1>1, <1>2 DEF FileShapes, TableInv
  <2>3. IdInv'
    BY <1>1, <1>2, <1>3, <2>1 DEF IdInv
  <2>4. ListsNameFiles(lists)' /\ ListShapes'
    BY <1>1, <1>3 DEF ListsNameFiles, OfLevel, ListShapes
  <2>5. \A r \in flushed' : Readable(r, DOMAIN files)'
    BY <1>1, <1>3 DEF Readable, RecsOf
  <2> QED
    BY <1>4, <2>1, <2>2, <2>3, <2>4, <2>5, QuietFaultInv
<1>6. CASE job.src # 0
  <2> DEFINE ls == Installed
             src == job.src - 1
  <2>1. src \in 0..(MaxLevel - 1)
    BY <1>3, <1>6, BoundsAssumption
  <2>2. job' = Compacting(ls, src) /\ lists' = ls
    BY <1>1, <1>6
  <2>3. ListsNameFiles(ls)
    BY <1>3
  <2> HIDE DEF ls, src
  <2> QED
    BY <1>1, <1>2, <1>3, <1>4, <2>1, <2>2, <2>3, StartFaultInv
<1> QED
  BY <1>5, <1>6

\* The oldest table becomes a file of level 0.
LEMMA FlushBuildFault ==
    ASSUME FaultInv, FlushBuild
    PROVE  FaultInv'
<1>0. PICK id : id = nextSstId
  OBVIOUS
<1>1. /\ job.ph = "build" /\ lists' = [lists EXCEPT ![0] = <<id>> \o @]
      /\ nextSstId' = id + 1 /\ job' = Idle /\ proc' = proc
      /\ writes' = writes /\ faults' = faults
  BY <1>0 DEF FlushBuild
<1>2. PICK n \in DOMAIN mem :
         /\ files' = Created(id, 0, TableOf(SubSeq(mem, 1, n)), FALSE)
         /\ flushed' = flushed \cup Range(TableOf(SubSeq(mem, 1, n)))
         /\ mem' = SubSeq(mem, n + 1, Len(mem))
  BY <1>0 DEF FlushBuild
<1> DEFINE table == TableOf(SubSeq(mem, 1, n))
<1>3. FileShapes /\ ListShapes /\ MemShape /\ IdInv /\ TableInv
  BY DEF FaultInv, Shapes
<1>4. proc = "open"
  BY <1>1, <1>3 DEF IdInv, Idle
<1>5. ListsNameFiles(lists) /\ \A r \in flushed : Readable(r, DOMAIN files)
  BY <1>1, <1>4, QuietFacts
<1>6. SubSeq(mem, 1, n) \in Seq(Recs) /\ mem' \in Seq(Recs)
  <2>1. mem \in Seq(Recs)
    BY <1>3 DEF MemShape
  <2>2. n \in 0..Len(mem)
    BY <1>2, <2>1, SeqBasics
  <2> QED
    BY <1>2, <2>1, <2>2, SplitRange
<1>7. table \in Seq(Recs) /\ Ordered(table, BeforeRel)
  BY <1>6, TableFacts
<1> HIDE DEF table
<1>8. files' = Created(id, 0, table, FALSE) /\ flushed' = flushed \cup Range(table)
  BY <1>2 DEF table
<1>9. 0 \in 0..MaxLevel
  BY BoundsAssumption
<1>10. /\ id \notin DOMAIN files /\ id \in Nat
       /\ DOMAIN files' = DOMAIN files \cup {id}
       /\ files'[id] = [level |-> 0, recs |-> table, torn |-> FALSE]
       /\ FileShapes' /\ TableInv'
       /\ \A i, l : OfLevel(i, l) => OfLevel(i, l)'
       /\ \A r : Readable(r, DOMAIN files) => Readable(r, DOMAIN files)'
       /\ \A i \in DOMAIN files' : i \in 1..id
  BY <1>0, <1>3, <1>4, <1>7, <1>8, <1>9, Creates
<1>11. Range(table) \subseteq Recs
  BY <1>7, FiniteElements
<1>12. MemShape'
  BY <1>1, <1>3, <1>6, <1>8, <1>11 DEF MemShape
<1>13. IdInv'
  <2>1. id \in Nat \ {0}
    BY <1>0, <1>3 DEF IdInv
  <2>2. id + 1 \in Nat \ {0} /\ \A i \in DOMAIN files' : i \in 1..(id + 1) /\ i < id + 1
    BY <1>10, <2>1
  <2>3. job'.ph # "compact"
    BY <1>1 DEF Idle
  <2> QED
    BY <1>1, <1>4, <2>2, <2>3 DEF IdInv
<1>14. /\ lists \in [0..MaxLevel -> Seq(Nat)] /\ <<id>> \o lists[0] \in Seq(Nat)
       /\ Range(<<id>> \o lists[0]) = Range(lists[0]) \cup {id}
  <2> DEFINE old == lists[0]
  <2>1. lists \in [0..MaxLevel -> Seq(Nat)] /\ old \in Seq(Nat)
    BY <1>3, <1>9 DEF ListShapes
  <2> HIDE DEF old
  <2>2. <<id>> \o old \in Seq(Nat)
    BY <1>10, <2>1, PushFacts
  <2>3. \A e \in Nat : Range(<<e>> \o old) = Range(old) \cup {e}
    BY <2>1, EndRanges
  <2> QED
    BY <1>10, <2>1, <2>2, <2>3 DEF old
<1>15. ListsNameFiles(lists)' /\ ListShapes'
  <2>1. lists' \in [0..MaxLevel -> Seq(Nat)]
    BY <1>1, <1>9, <1>14
  <2>2. ASSUME NEW l \in 0..MaxLevel, NEW i \in Range(lists'[l]) PROVE OfLevel(i, l)'
    <3>1. \A j \in Range(lists[l]) : OfLevel(j, l)'
      BY <1>5, <1>10 DEF ListsNameFiles
    <3>2. OfLevel(id, 0)'
      BY <1>10 DEF OfLevel
    <3>3. i \in Range(lists[l]) \/ (l = 0 /\ i = id)
      <4>1. l = 0 => lists'[l] = <<id>> \o lists[0]
        BY <1>1, <1>9, <1>14
      <4>2. l # 0 => lists'[l] = lists[l]
        BY <1>1, <1>14
      <4> QED
        BY <1>14, <2>2, <4>1, <4>2
    <3> QED
      BY <3>1, <3>2, <3>3
  <2> QED
    BY <2>1, <2>2 DEF ListsNameFiles, ListShapes
<1>16. \A r \in flushed' : Readable(r, DOMAIN files)'
  <2>1. ASSUME NEW r \in Range(table) PROVE Readable(r, DOMAIN files)'
    BY <1>10 DEF Readable, RecsOf
  <2> QED
    BY <1>5, <1>8, <1>10, <2>1
<1> QED
  BY <1>1, <1>10, <1>12, <1>13, <1>15, <1>16, QuietFaultInv

\* The job ends, with or without a torn file, or the process dies.
LEMMA EndFault ==
    ASSUME FaultInv, proc = "open",
           \/ files' = files
           \/ \E level \in 0..MaxLevel : files' = Created(nextSstId, level, <<>>, TRUE),
           job' = Idle, lists' = lists, flushed' = flushed, MemShape',
           nextSstId' \in {nextSstId, nextSstId + 1},
           \/ /\ proc' = "open" /\ nextSstId' = nextSstId + 1
              /\ \A l \in 0..MaxLevel : \A i \in Range(lists[l]) : OfLevel(i, l)
           \/ proc' = "closed"
    PROVE  FaultInv'
<1>0. PICK id : id = nextSstId
  OBVIOUS
<1>1. FileShapes /\ ListShapes /\ IdInv /\ TableInv /\ KeepInv
  BY DEF FaultInv, Shapes
<1>2. \A r \in flushed : Readable(r, DOMAIN files)
  BY <1>1 DEF KeepInv
<1>3. /\ FileShapes' /\ TableInv'
      /\ \A i, l : OfLevel(i, l) => OfLevel(i, l)'
      /\ \A r : Readable(r, DOMAIN files) => Readable(r, DOMAIN files)'
      /\ \A i \in DOMAIN files' : i \in 1..id
  <2>1. CASE files' = files
    <3>1. \A i \in DOMAIN files : i \in 1..id
      BY <1>0, <1>1 DEF IdInv
    <3>2. (\A i, l : OfLevel(i, l) => OfLevel(i, l)') /\ \A r : Readable(r, DOMAIN files) => Readable(r, DOMAIN files)'
      BY <2>1 DEF OfLevel, Readable, RecsOf
    <3> QED
      BY <1>1, <2>1, <3>1, <3>2 DEF FileShapes, TableInv
  <2>2. CASE \E level \in 0..MaxLevel : files' = Created(nextSstId, level, <<>>, TRUE)
    <3>1. PICK level \in 0..MaxLevel : files' = Created(nextSstId, level, <<>>, TRUE)
      BY <2>2
    <3>2. <<>> \in Seq(Recs) /\ Ordered(<<>>, BeforeRel) /\ TRUE \in BOOLEAN
      BY DEF Ordered
    <3> DEFINE none == <<>>
    <3> HIDE DEF none
    <3>3. files' = Created(nextSstId, level, none, TRUE) /\ none \in Seq(Recs) /\ Ordered(none, BeforeRel)
      BY <3>1, <3>2 DEF none
    <3> QED
      BY <1>0, <1>1, <3>3, Creates
  <2> QED
    BY <2>1, <2>2
<1>4. IdInv'
  <2>1. id \in Nat \ {0} /\ \A i \in DOMAIN files' : i \in 1..id
    BY <1>0, <1>1, <1>3 DEF IdInv
  <2>2. /\ id + 1 \in Nat \ {0}
        /\ \A i \in DOMAIN files' : i \in 1..(id + 1) /\ i < id + 1
    BY <2>1
  <2>3. job'.ph # "compact"
    BY DEF Idle
  <2>4. nextSstId' = id \/ nextSstId' = id + 1
    BY <1>0
  <2>5. proc' = "open" => nextSstId' = id + 1
    BY <1>0
  <2> QED
    BY <2>1, <2>2, <2>3, <2>4, <2>5 DEF IdInv
<1>5. ListShapes' /\ (proc' = "open" => ListsNameFiles(lists)')
  BY <1>1, <1>3 DEF ListShapes, ListsNameFiles
<1>6. \A r \in flushed' : Readable(r, DOMAIN files)'
  BY <1>2, <1>3
<1> QED
  BY <1>3, <1>4, <1>5, <1>6, QuietFaultInv

\* flush_last finds nothing.
LEMMA FlushNothingFault ==
    ASSUME FaultInv, FlushNothing
    PROVE  FaultInv'
<1>1. /\ job.ph = "build" /\ nextSstId' = nextSstId + 1 /\ job' = Idle
      /\ mem' = mem /\ files' = files /\ lists' = lists /\ proc' = proc
      /\ writes' = writes /\ faults' = faults /\ flushed' = flushed
  BY DEF FlushNothing, history
<1>2. MemShape /\ IdInv
  BY DEF FaultInv, Shapes
<1>3. proc = "open"
  BY <1>1, <1>2 DEF IdInv, Idle
<1>4. \A l \in 0..MaxLevel : \A i \in Range(lists[l]) : OfLevel(i, l)
  BY <1>1, <1>3, QuietFacts DEF ListsNameFiles
<1>5. MemShape'
  BY <1>1, <1>2 DEF MemShape
<1> QED
  BY <1>1, <1>3, <1>4, <1>5, EndFault

\* The level of the file that the job is about to write.
LEMMA LevelWritten ==
    ASSUME JobShape, job.ph = "build" \/ job.ph = "compact"
    PROVE  (IF job.ph = "build" THEN 0 ELSE job.src + 1) \in 0..MaxLevel
<1>1. 0 \in 0..MaxLevel
  BY BoundsAssumption
<1>2. job.ph = "compact" => job.src + 1 \in 0..MaxLevel
  BY JobFields
<1> QED
  BY <1>1, <1>2

\* Building a file throws.
LEMMA BuildFailsFault ==
    ASSUME FaultInv, BuildFails
    PROVE  FaultInv'
<1> DEFINE level == IF job.ph = "build" THEN 0 ELSE job.src + 1
<1>1. /\ nextSstId' = nextSstId + 1 /\ job' = Idle /\ faults' = faults + 1
      /\ mem' = mem /\ lists' = lists /\ proc' = proc /\ writes' = writes /\ flushed' = flushed
      /\ files' = files \/ files' = Created(nextSstId, level, <<>>, TRUE)
      /\ job.ph = "build" \/ (job.ph = "compact" /\ job.rest # <<>>)
  BY DEF BuildFails
<1>2. MemShape /\ IdInv /\ JobShape /\ ListInv
  BY DEF FaultInv, Shapes
<1>3. proc = "open"
  BY <1>1, <1>2 DEF IdInv, Idle
<1>4. \A l \in 0..MaxLevel : \A i \in Range(lists[l]) : OfLevel(i, l)
  BY <1>1, <1>2, <1>3 DEF ListInv
<1>5. MemShape'
  BY <1>1, <1>2 DEF MemShape
<1>6. level \in 0..MaxLevel
  BY <1>1, <1>2, LevelWritten
<1> HIDE DEF level
<1>7. files' = files \/ \E l \in 0..MaxLevel : files' = Created(nextSstId, l, <<>>, TRUE)
  BY <1>1, <1>6
<1> QED
  BY <1>1, <1>3, <1>4, <1>5, <1>7, EndFault

\* The process dies.
LEMMA CrashFault ==
    ASSUME FaultInv, Crash
    PROVE  FaultInv'
<1> DEFINE level == IF job.ph = "build" THEN 0 ELSE job.src + 1
<1>1. /\ nextSstId' = nextSstId /\ job' = Idle /\ faults' = faults + 1
      /\ mem' = <<>> /\ lists' = lists /\ proc = "open" /\ proc' = "closed"
      /\ writes' = writes /\ flushed' = flushed
      /\ files' = files
           \/ (files' = Created(nextSstId, level, <<>>, TRUE) /\ (job.ph = "build" \/ job.ph = "compact"))
  BY DEF Crash
<1>2. MemShape /\ JobShape
  BY DEF FaultInv, Shapes
<1>3. MemShape'
  <2>1. <<>> \in Seq(Recs)
    OBVIOUS
  <2> QED
    BY <1>1, <1>2, <2>1 DEF MemShape
<1>4. job.ph = "build" \/ job.ph = "compact" => level \in 0..MaxLevel
  BY <1>2, LevelWritten
<1> HIDE DEF level
<1>5. files' = files \/ \E l \in 0..MaxLevel : files' = Created(nextSstId, l, <<>>, TRUE)
  BY <1>1, <1>4
<1> QED
  BY <1>1, <1>3, <1>5, EndFault

\* LSMEngine::clear: nothing is left.
LEMMA ClearFault ==
    ASSUME FaultInv, Clear
    PROVE  FaultInv'
<1>1. /\ mem' = <<>> /\ lists' = NoLists /\ files' = [i \in {} |-> files[i]] /\ flushed' = {}
      /\ nextSstId' = nextSstId /\ job' = job /\ proc' = proc /\ writes' = writes
      /\ faults' = faults /\ proc = "open" /\ job = Idle
  BY DEF Clear
<1>2. MemShape /\ IdInv
  BY DEF FaultInv, Shapes
<1>3. DOMAIN files' = {}
  BY <1>1
<1>4. MemShape'
  <2>1. <<>> \in Seq(Recs)
    OBVIOUS
  <2> QED
    BY <1>1, <1>2, <2>1 DEF MemShape
<1>5. FileShapes' /\ TableInv'
  BY <1>3 DEF FileShapes, TableInv
<1>6. IdInv'
  BY <1>1, <1>2, <1>3 DEF IdInv, Idle
<1>7. ListShapes' /\ ListsNameFiles(lists)'
  <2>1. NoLists \in [0..MaxLevel -> Seq(Nat)]
    BY DEF NoLists
  <2>2. ASSUME NEW l \in 0..MaxLevel PROVE Range(NoLists[l]) = {}
    BY DEF NoLists, Range
  <2> QED
    BY <1>1, <2>1, <2>2 DEF ListShapes, ListsNameFiles
<1> QED
  BY <1>1, <1>4, <1>5, <1>6, <1>7, QuietFaultInv

\* ~LSM, and an engine that cannot be opened: nothing on disk changes.
LEMMA CloseFault ==
    ASSUME FaultInv, Close \/ ReopenFails
    PROVE  FaultInv'
<1>1. /\ mem' = mem /\ files' = files /\ lists' = lists /\ nextSstId' = nextSstId /\ job' = job
      /\ writes' = writes /\ faults' = faults /\ flushed' = flushed
      /\ job = Idle /\ proc' \in {"closed", "broken"}
  <2>1. CASE Close
    BY <2>1 DEF Close, history
  <2>2. CASE ReopenFails
    BY <2>2 DEF ReopenFails, history, FaultInv, IdInv
  <2> QED
    BY <2>1, <2>2
<1>2. FileShapes /\ ListShapes /\ MemShape /\ IdInv /\ TableInv /\ KeepInv
  BY DEF FaultInv, Shapes
<1>3. FileShapes' /\ ListShapes' /\ MemShape' /\ TableInv'
  BY <1>1, <1>2 DEF FileShapes, ListShapes, MemShape, TableInv
<1>4. IdInv'
  BY <1>1, <1>2 DEF IdInv, Idle
<1>5. \A r \in flushed' : Readable(r, DOMAIN files)'
  BY <1>1, <1>2 DEF KeepInv, Readable, RecsOf
<1> QED
  BY <1>1, <1>3, <1>4, <1>5, QuietFaultInv

\* The lists are made anew from the files on disk, none of which is torn.
LEMMA ReopenFault ==
    ASSUME FaultInv, Reopen
    PROVE  FaultInv'
<1>1. /\ mem' = mem /\ files' = files /\ job' = job
      /\ writes' = writes /\ faults' = faults /\ flushed' = flushed
      /\ lists' = [l \in 0..MaxLevel |-> LevelFromDisk(l)] /\ nextSstId' = ReopenNext
      /\ proc = "closed" /\ proc' = "open" /\ \A i \in DOMAIN files : ~files[i].torn
  BY DEF Reopen, history
<1>2. FileShapes /\ MemShape /\ IdInv /\ TableInv /\ KeepInv
  BY DEF FaultInv, Shapes
<1>3. job = Idle
  BY <1>1, <1>2 DEF IdInv
<1>4. FileShapes' /\ MemShape' /\ TableInv'
  BY <1>1, <1>2 DEF FileShapes, MemShape, TableInv
<1>5. IdInv'
  <2>1. ReopenNext \in Nat \ {0} /\ \A i \in DOMAIN files : i \in 1..ReopenNext /\ i < ReopenNext
    BY <1>2, ReopenNextFacts
  <2> QED
    BY <1>1, <1>3, <2>1 DEF IdInv, Idle
<1>6. \A l \in 0..MaxLevel :
         /\ LevelFromDisk(l) \in Seq(Nat)
         /\ Range(LevelFromDisk(l)) = {i \in DOMAIN files : files[i].level = l}
  BY <1>2, DiskLists
<1>7. ListShapes' /\ ListsNameFiles(lists)'
  <2>1. \A l \in 0..MaxLevel : lists'[l] = LevelFromDisk(l)
    BY <1>1
  <2>2. lists' \in [0..MaxLevel -> Seq(Nat)]
    BY <1>1, <1>6
  <2>3. ASSUME NEW l \in 0..MaxLevel, NEW i \in Range(lists'[l]) PROVE OfLevel(i, l)'
    BY <1>1, <1>6, <2>1, <2>3 DEF OfLevel
  <2> QED
    BY <2>2, <2>3 DEF ListShapes, ListsNameFiles
<1>8. \A r \in flushed' : Readable(r, DOMAIN files)'
  BY <1>1, <1>2 DEF KeepInv, Readable, RecsOf
<1> QED
  BY <1>1, <1>3, <1>4, <1>5, <1>7, <1>8, QuietFaultInv

\* A new engine.
LEMMA InitFault ==
    ASSUME SInit
    PROVE  FaultInv
<1>1. /\ mem = <<>> /\ lists = NoLists /\ nextSstId = 1 /\ job = Idle /\ proc = "open"
      /\ writes = 0 /\ faults = 0 /\ flushed = {} /\ DOMAIN files = {}
  BY DEF SInit
<1>2. FileShapes /\ TableInv
  BY <1>1 DEF FileShapes, TableInv
<1>3. Shapes
  <2>1. <<>> \in Seq(Recs) /\ NoLists \in [0..MaxLevel -> Seq(Nat)]
    BY DEF NoLists
  <2> QED
    BY <1>1, <1>2, <2>1 DEF Shapes, ListShapes, JobShape, MemShape
<1>4. job.ph = "idle"
  BY <1>1 DEF Idle
<1>5. IdInv
  BY <1>1, <1>4 DEF IdInv
<1>6. ListInv
  <2>1. ASSUME NEW l \in 0..MaxLevel PROVE Range(NoLists[l]) = {}
    BY DEF NoLists, Range
  <2>2. NextLists = NoLists
    BY <1>1, <1>4 DEF NextLists
  <2> QED
    BY <1>1, <2>1, <2>2 DEF ListInv
<1>7. KeepInv
  BY <1>1 DEF KeepInv
<1> QED
  BY <1>2, <1>3, <1>5, <1>6, <1>7 DEF FaultInv

\* Every step keeps the invariant, failing ones too.
LEMMA StepFault ==
    ASSUME FaultInv, [SNext]_svars
    PROVE  FaultInv'
<1>1. CASE \E k \in Keys, v \in 1..MaxVer : Write(k, v)
  BY <1>1, WriteFault
<1>2. CASE FlushStart
  BY <1>2, FlushStartFault
<1>3. CASE CompactWrite
  BY <1>3, CompactWriteFault
<1>4. CASE CompactDelete
  BY <1>4, CompactDeleteFault
<1>5. CASE CompactInstall
  BY <1>5, CompactInstallFault
<1>6. CASE FlushBuild
  BY <1>6, FlushBuildFault
<1>7. CASE FlushNothing
  BY <1>7, FlushNothingFault
<1>8. CASE BuildFails
  BY <1>8, BuildFailsFault
<1>9. CASE Clear
  BY <1>9, ClearFault
<1>10. CASE Close \/ ReopenFails
  BY <1>10, CloseFault
<1>11. CASE Crash
  BY <1>11, CrashFault
<1>12. CASE Reopen
  BY <1>12, ReopenFault
<1>13. CASE UNCHANGED svars
  <2>1. /\ mem' = mem /\ files' = files /\ lists' = lists /\ nextSstId' = nextSstId /\ job' = job
        /\ proc' = proc /\ writes' = writes /\ faults' = faults /\ flushed' = flushed
    BY <1>13 DEF svars, history
  <2>2. MemShape'
    BY <2>1 DEF FaultInv, Shapes, MemShape
  <2> QED
    BY <2>1, <2>2, SameDisk
<1> QED
  BY <1>1, <1>2, <1>3, <1>4, <1>5, <1>6, <1>7, <1>8, <1>9, <1>10, <1>11, <1>12, <1>13 DEF SNext

\* Over flush, compaction, clear, failing builds and deletes, crashes and
\* reopening: the lists name readable files of their level, ids are handed out
\* once, and a compaction writes a record before it deletes the files it was in.
THEOREM FaultInvariance == SSpec => []FaultInv
<1>1. SInit => FaultInv
  BY InitFault
<1>2. FaultInv /\ [SNext]_svars => FaultInv'
  BY StepFault
<1> QED
  BY <1>1, <1>2, PTL DEF SSpec

\* full_compact writes every new file before it deletes an old one: whatever
\* fails or crashes, each flushed record is in a readable file, at every moment.
THEOREM FlushedKeptAlways == SSpec => []FlushedKept
<1>1. FaultInv => FlushedKept
  BY DEF FaultInv, KeepInv, FlushedKept, Readable, RecsOf
<1> QED
  BY <1>1, FaultInvariance, PTL

-----------------------------------------------------------------------------
(* While nothing has failed, the levels are in order.                       *)

\* Smaller sets keep the relations between levels.
LEMMA SubOrders ==
    ASSUME NEW A, NEW B, NEW X, X \subseteq A, NEW Y, Y \subseteq B
    PROVE  (Newer(A, B) => Newer(X, Y)) /\ (KeysBelow(A, B) => KeysBelow(X, Y))
BY DEF Newer, KeysBelow

\* Only the memtable and the process change.
LEMMA SameOrder ==
    ASSUME OrderInv, files' = files, lists' = lists, job' = job, flushed' = flushed, MemNewer'
    PROVE  OrderInv'
<1>1. Live' = Live /\ NextLists' = NextLists
  BY DEF Live, NextLists, Installed
<1>2. \A i : RecsOf(i)' = RecsOf(i)
  BY DEF RecsOf
<1>3. FilesWhole' /\ LevelRoom'
  BY DEF OrderInv, FilesWhole, LevelRoom
<1>4. ListsExact'
  BY <1>1 DEF OrderInv, ListsExact, Exact
<1>5. LevelOrder'
  BY <1>1, <1>2 DEF OrderInv, LevelOrder, Layered
<1>6. RestOrder'
  BY <1>1, <1>2 DEF OrderInv, RestOrder
<1>7. FlushedExact'
  BY <1>1, <1>2 DEF OrderInv, FlushedExact
<1> QED
  BY <1>3, <1>4, <1>5, <1>6, <1>7 DEF OrderInv

\* No compaction runs, and none does next; the files stay.
LEMMA QuietOrder ==
    ASSUME FilesWhole, Layered(DOMAIN files), files' = files, flushed' = flushed,
           flushed = UNION {RecsOf(i) : i \in DOMAIN files},
           Exact(lists', DOMAIN files), job'.ph # "compact", MemNewer', LevelRoom'
    PROVE  OrderInv'
<1>1. Live' = DOMAIN files /\ NextLists' = lists'
  BY DEF Live, NextLists
<1>2. \A i : RecsOf(i)' = RecsOf(i)
  BY DEF RecsOf
<1>3. FilesWhole'
  BY DEF FilesWhole
<1>4. ListsExact'
  BY <1>1 DEF ListsExact, Exact
<1>5. LevelOrder'
  BY <1>1, <1>2 DEF LevelOrder, Layered
<1>6. RestOrder'
  BY DEF RestOrder
<1>7. FlushedExact'
  BY <1>1, <1>2 DEF FlushedExact
<1> QED
  BY <1>3, <1>4, <1>5, <1>6, <1>7 DEF OrderInv

\* full_compact takes two neighbouring levels out and merges them.
LEMMA StartOrder ==
    ASSUME FileShapes, TableInv, FilesWhole, NEW ls, ListsNameFiles(ls), Exact(ls, DOMAIN files),
           Layered(DOMAIN files), flushed = UNION {RecsOf(i) : i \in DOMAIN files},
           NEW src \in 0..(MaxLevel - 1), job' = Compacting(ls, src), lists' = ls,
           files' = files, flushed' = flushed, MemNewer', Len(ls[0]) <= Ratio
    PROVE  OrderInv'
<1> DEFINE c == Compacting(ls, src)
           O == Range(ls[src]) \cup Range(ls[src + 1])
<1>1. /\ c.ph = "compact" /\ c.src = src /\ c.new = <<>>
      /\ Range(c.old) = O /\ Range(c.rest) = UNION {RecsOf(i) : i \in O}
  BY CompactingFacts
<1>2. Ordered(c.rest, AheadRel)
  BY CompactingOrder
<1> HIDE DEF c
<1>3. job' = c
  BY DEF c
<1>4. src \in 0..MaxLevel /\ src + 1 \in 0..MaxLevel /\ src \in Nat /\ src # src + 1
  BY BoundsAssumption
<1>5. O = {i \in DOMAIN files : files[i].level = src \/ files[i].level = src + 1}
  BY <1>4 DEF Exact
<1> HIDE DEF O
<1>6. Live' = DOMAIN files \ O
  BY <1>1, <1>3 DEF Live
<1>7. NextLists' = [ls EXCEPT ![src] = <<>>, ![src + 1] = <<>>]
  BY <1>1, <1>3 DEF NextLists, Installed
<1>8. \A i : RecsOf(i)' = RecsOf(i)
  BY DEF RecsOf
<1>9. FilesWhole'
  BY DEF FilesWhole
<1>10. ls \in [0..MaxLevel -> Seq(Nat)]
  BY DEF ListsNameFiles
<1>11. ListsExact'
  <2>1. ASSUME NEW l \in 0..MaxLevel
        PROVE  /\ Range(NextLists'[l]) = {i \in Live' : files[i].level = l}
               /\ \A p, q \in DOMAIN NextLists'[l] :
                    p < q => IF l = 0 THEN NextLists'[l][p] > NextLists'[l][q]
                             ELSE NextLists'[l][p] < NextLists'[l][q]
    <3>1. CASE l = src \/ l = src + 1
      <4>1. NextLists'[l] = <<>>
        BY <1>4, <1>7, <1>10, <3>1
      <4>2. {i \in Live' : files[i].level = l} = {}
        BY <1>5, <1>6, <3>1
      <4>3. Range(<<>>) = {} /\ DOMAIN <<>> = {}
        BY DEF Range
      <4> QED
        BY <4>1, <4>2, <4>3
    <3>2. CASE l # src /\ l # src + 1
      <4>1. NextLists'[l] = ls[l]
        BY <1>4, <1>7, <1>10, <3>2
      <4>2. {i \in Live' : files[i].level = l} = {i \in DOMAIN files : files[i].level = l}
        BY <1>5, <1>6, <3>2
      <4> QED
        BY <4>1, <4>2 DEF Exact
    <3> QED
      BY <3>1, <3>2
  <2> QED
    BY <2>1 DEF ListsExact, Exact
<1>12. LevelOrder'
  BY <1>6, <1>8 DEF LevelOrder, Layered
<1>13. RestOrder'
  <2>1. ASSUME NEW i \in Live'
        PROVE  /\ files[i].level <= src => Newer(RecsOf(i), Range(c.rest))
               /\ files[i].level > src + 1 => Newer(Range(c.rest), RecsOf(i))
               /\ files[i].level # src + 1
    <3>1. i \in DOMAIN files /\ files[i].level # src /\ files[i].level # src + 1
      BY <1>5, <1>6
    <3>2. files[i].level \in Nat
      BY <3>1, FileFields
    <3>3. ASSUME files[i].level <= src, NEW j \in O PROVE Newer(RecsOf(i), RecsOf(j))
      <4>1. j \in DOMAIN files /\ files[i].level < files[j].level
        BY <1>4, <1>5, <3>1, <3>2, <3>3
      <4> QED
        BY <3>1, <4>1 DEF Layered
    <3>4. ASSUME files[i].level > src + 1, NEW j \in O PROVE Newer(RecsOf(j), RecsOf(i))
      <4>1. j \in DOMAIN files /\ files[j].level < files[i].level
        BY <1>4, <1>5, <3>1, <3>2, <3>4
      <4> QED
        BY <3>1, <4>1 DEF Layered
    <3> QED
      BY <1>1, <3>1, <3>3, <3>4 DEF Newer
  <2> QED
    BY <1>1, <1>2, <1>3, <1>8, <2>1 DEF RestOrder
<1>14. FlushedExact'
  <2>1. flushed = (UNION {RecsOf(i) : i \in DOMAIN files \ O}) \cup Range(c.rest)
    BY <1>1, <1>5
  <2> QED
    BY <1>1, <1>3, <1>6, <1>8, <2>1 DEF FlushedExact
<1>15. LevelRoom'
  BY <1>1, <1>3 DEF LevelRoom
<1> QED
  BY <1>9, <1>11, <1>12, <1>13, <1>14, <1>15 DEF OrderInv

\* What an idle or building engine knows of its levels.
LEMMA QuietLevels ==
    ASSUME OrderInv, job.ph # "compact"
    PROVE  /\ FilesWhole /\ Exact(lists, DOMAIN files) /\ Layered(DOMAIN files)
           /\ flushed = UNION {RecsOf(i) : i \in DOMAIN files} /\ MemNewer /\ LevelRoom
<1>1. Live = DOMAIN files /\ NextLists = lists
  BY DEF Live, NextLists
<1> QED
  BY <1>1 DEF OrderInv, ListsExact, LevelOrder, FlushedExact

\* A write: the memtable grows by the newest record.
LEMMA WriteOrder ==
    ASSUME FaultInv, OrderInv, NEW k \in Keys, NEW v \in 1..MaxVer, Write(k, v)
    PROVE  OrderInv'
<1> DEFINE e == [key |-> k, ver |-> v, n |-> writes + 1]
<1>1. /\ mem' = Append(mem, e) /\ writes' = writes + 1
      /\ files' = files /\ lists' = lists /\ job' = job /\ flushed' = flushed
  BY DEF Write
<1>2. mem \in Seq(Recs) /\ writes \in Nat /\ flushed \subseteq Recs
  BY DEF FaultInv, Shapes, MemShape
<1>3. e \in Recs /\ e.n = writes + 1
  BY <1>2 DEF Recs
<1> HIDE DEF e
<1>4. Len(mem') = Len(mem) + 1 /\ Len(mem) \in Nat /\ mem'[Len(mem) + 1] = e
      /\ (\A p \in 1..Len(mem) : mem'[p] = mem[p])
      /\ DOMAIN mem' = 1..(Len(mem) + 1) /\ DOMAIN mem = 1..Len(mem)
  <2>1. Append(mem, e) \in Seq(Recs) /\ Len(Append(mem, e)) = Len(mem) + 1
        /\ Append(mem, e)[Len(mem) + 1] = e /\ \A i \in DOMAIN mem : Append(mem, e)[i] = mem[i]
    BY <1>2, <1>3, AppendFacts
  <2>2. Len(mem) \in Nat /\ DOMAIN mem = 1..Len(mem)
    BY <1>2, SeqBasics
  <2>3. mem' \in Seq(Recs)
    BY <1>1, <2>1
  <2>4. DOMAIN mem' = 1..Len(mem')
    BY <2>3, SeqBasics
  <2> QED
    BY <1>1, <2>1, <2>2, <2>4
<1>5. /\ Len(mem) <= writes /\ \A p \in DOMAIN mem : mem[p].n = writes - Len(mem) + p
      /\ \A r \in flushed : r.n <= writes - Len(mem)
  BY DEF OrderInv, MemNewer
<1>6. MemNewer'
  <2>1. writes' - Len(mem') = writes - Len(mem) /\ Len(mem') <= writes'
    BY <1>1, <1>2, <1>4, <1>5
  <2>2. ASSUME NEW p \in DOMAIN mem' PROVE mem'[p].n = writes - Len(mem) + p
    <3>1. CASE p = Len(mem) + 1
      BY <1>2, <1>3, <1>4, <3>1
    <3>2. CASE p # Len(mem) + 1
      BY <1>4, <1>5, <3>2
    <3> QED
      BY <3>1, <3>2
  <2> QED
    BY <1>1, <1>5, <2>1, <2>2 DEF MemNewer
<1> QED
  BY <1>1, <1>6, SameOrder

\* A flush starts.
LEMMA FlushStartOrder ==
    ASSUME FaultInv, OrderInv, FlushStart
    PROVE  OrderInv'
<1>1. /\ proc = "open" /\ job = Idle /\ files' = files /\ lists' = lists
      /\ flushed' = flushed /\ mem' = mem /\ writes' = writes
      /\ job' = IF Full(0) THEN Compacting(lists, Deepest) ELSE [ph |-> "build"]
  BY DEF FlushStart
<1>2. job.ph # "compact"
  BY <1>1 DEF Idle
<1>3. ListsNameFiles(lists) /\ FileShapes /\ TableInv
  BY <1>1, <1>2, QuietFacts DEF FaultInv, Shapes
<1>4. /\ FilesWhole /\ Exact(lists, DOMAIN files) /\ Layered(DOMAIN files)
      /\ flushed = UNION {RecsOf(i) : i \in DOMAIN files} /\ MemNewer /\ LevelRoom
  BY <1>2, QuietLevels
<1>5. MemNewer'
  BY <1>1, <1>4 DEF MemNewer
<1>6. CASE Full(0)
  <2>1. job' = Compacting(lists, Deepest) /\ Len(lists[0]) <= Ratio
    BY <1>1, <1>4, <1>6 DEF LevelRoom
  <2> QED
    BY <1>1, <1>3, <1>4, <1>5, <2>1, DeepestFacts, StartOrder
<1>7. CASE ~Full(0)
  <2>1. job' = [ph |-> "build"]
    BY <1>1, <1>7
  <2>2. lists[0] \in Seq(Nat)
    BY <1>3, BoundsAssumption DEF ListsNameFiles
  <2>3. Len(lists[0]) \in Nat
    BY <2>2
  <2>4. LevelRoom'
    BY <1>1, <1>4, <1>7, <2>3, RatioAssumption DEF LevelRoom, Full
  <2>5. Exact(lists', DOMAIN files)
    BY <1>1, <1>4
  <2> QED
    BY <1>1, <1>4, <1>5, <2>1, <2>4, <2>5, QuietOrder
<1> QED
  BY <1>6, <1>7

\* A file closed between two keys separates the keys.
LEMMA CutKeys ==
    ASSUME NEW rest \in Seq(Recs), Ordered(rest, AheadRel), NEW n \in DOMAIN rest, MayCut(rest, n)
    PROVE  /\ SubSeq(rest, 1, n) \in Seq(Recs) /\ SubSeq(rest, n + 1, Len(rest)) \in Seq(Recs)
           /\ SubSeq(rest, 1, n) # <<>>
           /\ Range(rest) = Range(SubSeq(rest, 1, n)) \cup Range(SubSeq(rest, n + 1, Len(rest)))
           /\ Ordered(SubSeq(rest, 1, n), AheadRel)
           /\ Ordered(SubSeq(rest, n + 1, Len(rest)), AheadRel)
           /\ KeysBelow(Range(SubSeq(rest, 1, n)), Range(SubSeq(rest, n + 1, Len(rest))))
<1> DEFINE a == SubSeq(rest, 1, n)
           b == SubSeq(rest, n + 1, Len(rest))
           m == Len(rest)
<1>1. m \in Nat /\ DOMAIN rest = 1..m /\ n \in 0..m /\ n \in 1..m
  BY SeqBasics
<1>2. /\ a \in Seq(Recs) /\ b \in Seq(Recs) /\ Len(a) = n /\ Len(b) = m - n
      /\ \A i \in 1..n : a[i] = rest[i]
      /\ \A i \in 1..(m - n) : b[i] = rest[n + i]
      /\ Range(rest) = Range(a) \cup Range(b)
  BY ZenonT(40), <1>1, SplitRange
<1> HIDE DEF a, b
<1>3. DOMAIN a = 1..n /\ DOMAIN b = 1..(m - n)
  BY <1>2, SeqBasics
<1>4. a # <<>>
  BY <1>1, <1>3
<1>5. \A p, q \in 1..m : p < q => <<rest[p], rest[q]>> \in AheadRel
  BY <1>1 DEF Ordered
<1>6. \A p, q \in 1..m : p < q => rest[p].key <= rest[q].key
  <2> SUFFICES ASSUME NEW p \in 1..m, NEW q \in 1..m, p < q PROVE rest[p].key <= rest[q].key
    OBVIOUS
  <2>1. rest[p] \in Recs /\ rest[q] \in Recs
    BY <1>1, SeqBasics
  <2>2. Ahead(rest[p], rest[q])
    BY <1>5 DEF AheadRel
  <2> DEFINE x == rest[p]
             y == rest[q]
  <2> HIDE DEF x, y
  <2>3. x.key \in Nat /\ y.key \in Nat /\ Ahead(x, y)
    BY <2>1, <2>2, RecFields DEF x, y
  <2>4. x.key <= y.key
    BY <2>3 DEF Ahead, Before, SameSlot
  <2> QED
    BY <2>4 DEF x, y
<1>7. Ordered(a, AheadRel)
  BY <1>1, <1>2, <1>3, <1>5 DEF Ordered
<1>8. Ordered(b, AheadRel)
  <2> SUFFICES ASSUME NEW p \in 1..(m - n), NEW q \in 1..(m - n), p < q
               PROVE  <<b[p], b[q]>> \in AheadRel
    BY <1>3 DEF Ordered
  <2>1. n + p \in 1..m /\ n + q \in 1..m /\ n + p < n + q
    BY <1>1
  <2> QED
    BY <1>2, <1>5, <2>1
<1>9. KeysBelow(Range(a), Range(b))
  <2> SUFFICES ASSUME NEW p \in 1..n, NEW q \in 1..(m - n) PROVE a[p].key < b[q].key
    BY <1>3 DEF KeysBelow, Range
  <2>1. p \in 1..m /\ n + q \in 1..m /\ n + 1 \in 1..m /\ p <= n /\ n + 1 <= n + q /\ n < m /\ n < n + 1
    BY <1>1
  <2>2. rest[n].key # rest[n + 1].key
    BY <2>1 DEF MayCut
  <2>3. rest[p].key \in Nat /\ rest[n].key \in Nat /\ rest[n + 1].key \in Nat /\ rest[n + q].key \in Nat
    <3>1. \A i \in 1..m : rest[i].key \in Nat
      BY <1>1, SeqBasics, RecFields
    <3> QED
      BY <1>1, <2>1, <3>1
  <2>4. rest[p].key <= rest[n].key
    BY <1>1, <1>6, <2>1, <2>3
  <2>5. rest[n + 1].key <= rest[n + q].key
    BY <1>1, <1>6, <2>1, <2>3
  <2>6. rest[n].key <= rest[n + 1].key
    BY <1>1, <1>6, <2>1
  <2>7. rest[p].key < rest[n + q].key
    BY SMTT(20), <2>2, <2>3, <2>4, <2>5, <2>6
  <2> QED
    BY <1>2, <2>7
<1> QED
  BY <1>2, <1>4, <1>7, <1>8, <1>9 DEF a, b

\* A new file joins the files D: it stands at its place among them.
Joins(id, D) ==
    \A i \in D :
        /\ files[i].level < files[id].level => Newer(RecsOf(i), RecsOf(id))
        /\ files[i].level > files[id].level => Newer(RecsOf(id), RecsOf(i))
        /\ files[i].level = files[id].level =>
             IF files[id].level = 0 THEN Newer(RecsOf(id), RecsOf(i))
             ELSE KeysBelow(RecsOf(i), RecsOf(id))

\* Layers stay layers when a file with the largest id joins at its place.
LEMMA JoinLayers ==
    ASSUME NEW D, D \subseteq Nat, Layered(D)', NEW id \in Nat, \A i \in D : i < id, Joins(id, D)',
           \A i \in D \cup {id} : files'[i].level \in Nat
    PROVE  Layered(D \cup {id})'
<1> SUFFICES ASSUME NEW i \in D \cup {id}, NEW j \in D \cup {id}
             PROVE  /\ files'[i].level < files'[j].level => Newer(RecsOf(i)', RecsOf(j)')
                    /\ files'[i].level = 0 /\ files'[j].level = 0 /\ i > j
                         => Newer(RecsOf(i)', RecsOf(j)')
                    /\ files'[i].level > 0 /\ files'[i].level = files'[j].level /\ i < j
                         => KeysBelow(RecsOf(i)', RecsOf(j)')
  BY DEF Layered
<1> DEFINE x == files'[i].level
           y == files'[j].level
<1>1. x \in Nat /\ y \in Nat /\ i \in Nat /\ j \in Nat
  OBVIOUS
<1>2. CASE i \in D /\ j \in D
  BY <1>2 DEF Layered
<1>3. CASE i = id /\ j = id
  <2>1. ~(x < y) /\ ~(i > j) /\ ~(i < j)
    BY <1>1, <1>3
  <2> QED
    BY <2>1
<1>4. CASE i \in D /\ j = id
  <2>1. i < j /\ ~(i > j)
    BY <1>1, <1>4
  <2>2. /\ x < y => Newer(RecsOf(i)', RecsOf(j)')
        /\ x = y => IF y = 0 THEN Newer(RecsOf(j)', RecsOf(i)') ELSE KeysBelow(RecsOf(i)', RecsOf(j)')
    BY <1>4 DEF Joins
  <2> HIDE DEF x, y
  <2>3. x > 0 /\ x = y => y # 0
    BY <1>1
  <2> QED
    BY <2>1, <2>2, <2>3 DEF x, y
<1>5. CASE i = id /\ j \in D
  <2>1. j < i /\ ~(i < j)
    BY <1>1, <1>5
  <2>2. /\ y > x => Newer(RecsOf(i)', RecsOf(j)')
        /\ y = x => IF x = 0 THEN Newer(RecsOf(i)', RecsOf(j)') ELSE KeysBelow(RecsOf(j)', RecsOf(i)')
    BY <1>5 DEF Joins
  <2> HIDE DEF x, y
  <2>3. x < y => y > x
    BY <1>1
  <2> QED
    BY <2>1, <2>2, <2>3 DEF x, y
<1> QED
  BY <1>2, <1>3, <1>4, <1>5

\* The relations between the files of D rest on those files only.
LEMMA LayersFrame ==
    ASSUME NEW D, Layered(D), \A i \in D : files'[i] = files[i]
    PROVE  Layered(D)'
<1>1. \A i \in D : RecsOf(i)' = RecsOf(i) /\ files'[i] = files[i]
  BY DEF RecsOf
<1> QED
  BY <1>1 DEF Layered

\* The list of a level grows by the newest file: at the front of level 0, at the
\* end of the others.
Grows(s, t, id, l) ==
    /\ Len(t) = Len(s) + 1
    /\ Range(t) = Range(s) \cup {id}
    /\ IF l = 0 THEN t[1] = id /\ \A p \in DOMAIN s : t[p + 1] = s[p]
       ELSE t[Len(s) + 1] = id /\ \A p \in DOMAIN s : t[p] = s[p]

ById(s, l) == \A p, q \in DOMAIN s : p < q => IF l = 0 THEN s[p] > s[q] ELSE s[p] < s[q]

\* The grown list is still by id.
LEMMA GrownById ==
    ASSUME NEW s \in Seq(Nat), NEW t \in Seq(Nat), NEW id \in Nat, NEW l,
           ById(s, l), Grows(s, t, id, l), \A i \in Range(s) : i < id
    PROVE  ById(t, l)
<1> DEFINE m == Len(s)
<1>1. m \in Nat /\ DOMAIN s = 1..m /\ DOMAIN t = 1..(m + 1)
  BY SeqBasics DEF Grows
<1>2. \A p \in 1..m : s[p] < id /\ s[p] \in Nat
  BY <1>1, SeqBasics DEF Range
<1>3. ASSUME NEW p \in 1..(m + 1), NEW q \in 1..(m + 1), p < q
      PROVE  IF l = 0 THEN t[p] > t[q] ELSE t[p] < t[q]
  <2>1. CASE l = 0
    <3>1. t[1] = id /\ \A k \in 1..m : t[k + 1] = s[k]
      BY <1>1, <2>1 DEF Grows
    <3>2. q - 1 \in 1..m /\ (q - 1) + 1 = q
      BY <1>1, <1>3
    <3>3. t[q] = s[q - 1]
      BY <3>1, <3>2
    <3>4. CASE p = 1
      BY <1>2, <2>1, <3>1, <3>2, <3>3, <3>4
    <3>5. CASE p # 1
      <4>1. p - 1 \in 1..m /\ (p - 1) + 1 = p /\ p - 1 < q - 1
        BY <1>1, <1>3, <3>5
      <4>2. t[p] = s[p - 1]
        BY <3>1, <4>1
      <4>3. s[p - 1] > s[q - 1]
        BY <1>1, <2>1, <3>2, <4>1 DEF ById
      <4> QED
        BY <2>1, <3>3, <4>2, <4>3
    <3> QED
      BY <3>4, <3>5
  <2>2. CASE l # 0
    <3>1. t[m + 1] = id /\ \A k \in 1..m : t[k] = s[k]
      BY <1>1, <2>2 DEF Grows
    <3>2. p \in 1..m
      BY <1>1, <1>3
    <3>3. CASE q = m + 1
      BY <1>2, <2>2, <3>1, <3>2, <3>3
    <3>4. CASE q # m + 1
      <4>1. q \in 1..m
        BY <1>1, <3>4
      <4>2. s[p] < s[q]
        BY <1>1, <1>3, <2>2, <3>2, <4>1 DEF ById
      <4> QED
        BY <2>2, <3>1, <3>2, <4>1, <4>2
    <3> QED
      BY <3>3, <3>4
  <2> QED
    BY <2>1, <2>2
<1> QED
  BY <1>1, <1>3 DEF ById

\* A new file id of level k joins the files D, and the lists ls become ms.
Extends(ls, ms, D, id, k) ==
    /\ ls \in [0..MaxLevel -> Seq(Nat)] /\ ms \in [0..MaxLevel -> Seq(Nat)]
    /\ Grows(ls[k], ms[k], id, k)
    /\ \A l \in 0..MaxLevel : l # k => ms[l] = ls[l]
    /\ \A i \in D : i < id /\ files'[i] = files[i]
    /\ files'[id].level = k

ExactNext(ms, D) ==
    \A l \in 0..MaxLevel : Range(ms[l]) = {i \in D : files'[i].level = l} /\ ById(ms[l], l)

\* Lists that have the files of D have those of D and a new one, once the list
\* of its level grows by it.
LEMMA ExactGrows ==
    ASSUME NEW D, NEW id \in Nat, NEW ls, NEW ms, NEW k \in 0..MaxLevel,
           Exact(ls, D), Extends(ls, ms, D, id, k)
    PROVE  ExactNext(ms, D \cup {id})
<1> USE DEF Extends
<1> SUFFICES ASSUME NEW l \in 0..MaxLevel
             PROVE  Range(ms[l]) = {i \in D \cup {id} : files'[i].level = l} /\ ById(ms[l], l)
  BY DEF ExactNext
<1>1. Range(ls[l]) = {i \in D : files[i].level = l} /\ ById(ls[l], l)
  BY DEF Exact, ById
<1>2. CASE l = k
  <2> DEFINE s == ls[l]
             t == ms[l]
  <2>1. s \in Seq(Nat) /\ t \in Seq(Nat) /\ Grows(s, t, id, l) /\ ById(s, l)
    BY <1>1, <1>2
  <2>2. Range(t) = Range(s) \cup {id} /\ \A i \in Range(s) : i < id
    BY <1>1, <2>1 DEF Grows
  <2>3. ById(t, l)
    <3> HIDE DEF s, t
    <3> QED
      BY <2>1, <2>2, GrownById
  <2> QED
    BY <1>1, <1>2, <2>2, <2>3
<1>3. CASE l # k
  BY <1>1, <1>3
<1> QED
  BY <1>2, <1>3

\* Compaction writes a file of what is left.
LEMMA CompactWriteOrder ==
    ASSUME FaultInv, OrderInv, CompactWrite
    PROVE  OrderInv'
<1>0. PICK id : id = nextSstId
  OBVIOUS
<1> DEFINE rest == job.rest
           src == job.src
<1>1. FileShapes /\ ListShapes /\ JobShape /\ IdInv /\ TableInv /\ ListInv
  BY DEF FaultInv, Shapes
<1>2. /\ job.ph = "compact" /\ mem' = mem /\ lists' = lists /\ writes' = writes
      /\ flushed' = flushed
  BY DEF CompactWrite, history
<1>3. PICK n \in DOMAIN rest :
         /\ MayCut(rest, n)
         /\ files' = Created(id, src + 1, SubSeq(rest, 1, n), FALSE)
         /\ job' = [job EXCEPT !.rest = SubSeq(@, n + 1, Len(@)), !.new = Append(@, id)]
  BY <1>0 DEF CompactWrite
<1> DEFINE a == SubSeq(rest, 1, n)
           b == SubSeq(rest, n + 1, Len(rest))
           new == job.new
<1>4. /\ job \in Compactions /\ src \in 0..(MaxLevel - 1) /\ src \in Nat /\ src + 1 \in 0..MaxLevel
      /\ src \in 0..MaxLevel /\ src # src + 1
      /\ new \in Seq(Nat) /\ rest \in Seq(Recs) /\ job.old \in Seq(Nat)
  BY <1>1, <1>2, JobFields
<1>5. Ordered(rest, AheadRel)
  BY <1>2 DEF OrderInv, RestOrder
<1>6. /\ a \in Seq(Recs) /\ b \in Seq(Recs) /\ a # <<>> /\ Range(rest) = Range(a) \cup Range(b)
      /\ Ordered(a, AheadRel) /\ Ordered(b, AheadRel) /\ KeysBelow(Range(a), Range(b))
  <2> HIDE DEF rest
  <2> QED
    BY <1>3, <1>4, <1>5, CutKeys
<1>7. proc = "open"
  BY <1>1, <1>2 DEF IdInv, Idle
<1>8. /\ job'.ph = "compact" /\ job'.src = src /\ job'.rest = b
      /\ job'.new = Append(new, id) /\ job'.old = job.old
  BY <1>3, <1>4 DEF Compactions
<1>9. src + 1 # 0
  BY <1>4
<1> HIDE DEF a, b
<1>10. files' = Created(id, src + 1, a, FALSE)
  BY <1>3 DEF a
<1>11. /\ id \notin DOMAIN files /\ id \in Nat
       /\ DOMAIN files' = DOMAIN files \cup {id}
       /\ files'[id] = [level |-> src + 1, recs |-> a, torn |-> FALSE]
       /\ \A i \in DOMAIN files : files'[i] = files[i] /\ RecsOf(i)' = RecsOf(i)
  BY <1>0, <1>1, <1>4, <1>6, <1>7, <1>9, <1>10, Creates
<1>12. files'[id].level = src + 1 /\ RecsOf(id)' = Range(a) /\ files'[id].recs = a /\ ~files'[id].torn
  BY <1>11 DEF RecsOf
<1>13. PICK D : D = Live
  OBVIOUS
<1>14. /\ D \subseteq DOMAIN files /\ D \subseteq Nat /\ id \notin D /\ \A i \in D : i < id
       /\ \A i \in D : files'[i] = files[i] /\ RecsOf(i)' = RecsOf(i) /\ files[i].level \in Nat
  <2>1. D \subseteq DOMAIN files
    BY <1>13 DEF Live
  <2>2. \A i \in DOMAIN files : i \in Nat /\ i < id
    BY <1>0, <1>1, <1>7 DEF IdInv
  <2>3. \A i \in DOMAIN files : files[i].level \in Nat
    BY <1>1, FileFields
  <2> QED
    BY <1>11, <2>1, <2>2, <2>3
<1>15. Live' = D \cup {id}
  <2>1. \A i \in Range(job.old) : i # id
    <3>1. \A i \in Range(job.old) : i < id /\ i \in Nat
      BY <1>0, <1>1, <1>2, <1>4, FiniteElements DEF IdInv
    <3> QED
      BY <1>11, <3>1
  <2> QED
    BY <1>2, <1>8, <1>11, <1>13, <2>1 DEF Live
<1>16. \A i \in D :
         /\ files[i].level <= src => Newer(RecsOf(i), Range(rest))
         /\ files[i].level > src + 1 => Newer(Range(rest), RecsOf(i))
         /\ files[i].level = src + 1 => KeysBelow(RecsOf(i), Range(rest))
  BY <1>2, <1>13 DEF OrderInv, RestOrder
<1> HIDE DEF rest
<1>17. \A i \in D : \A S \in {Range(a), Range(b)} :
         /\ files[i].level <= src => Newer(RecsOf(i), S)
         /\ files[i].level > src + 1 => Newer(S, RecsOf(i))
         /\ files[i].level = src + 1 => KeysBelow(RecsOf(i), S)
  <2> SUFFICES ASSUME NEW i \in D, NEW S \in {Range(a), Range(b)}
               PROVE  /\ files[i].level <= src => Newer(RecsOf(i), S)
                      /\ files[i].level > src + 1 => Newer(S, RecsOf(i))
                      /\ files[i].level = src + 1 => KeysBelow(RecsOf(i), S)
    OBVIOUS
  <2>1. S \subseteq Range(rest)
    BY <1>6
  <2> QED
    BY <1>16, <2>1 DEF Newer, KeysBelow
<1>18. FilesWhole'
  <2>1. ASSUME NEW i \in DOMAIN files
        PROVE  ~files'[i].torn /\ files'[i].recs # <<>> /\ Ordered(files'[i].recs, AheadRel)
    BY <1>11 DEF OrderInv, FilesWhole
  <2> QED
    BY <1>6, <1>11, <1>12, <2>1 DEF FilesWhole
<1>19. LevelOrder'
  <2>1. Layered(D)'
    <3>1. Layered(D)
      BY <1>13 DEF OrderInv, LevelOrder
    <3> QED
      BY <1>14, <3>1, LayersFrame
  <2>2. Joins(id, D)'
    <3>1. ASSUME NEW i \in D
          PROVE  /\ files'[i].level < src + 1 => Newer(RecsOf(i)', Range(a))
                 /\ files'[i].level > src + 1 => Newer(Range(a), RecsOf(i)')
                 /\ files'[i].level = src + 1 => KeysBelow(RecsOf(i)', Range(a))
      <4>1. files'[i].level = files[i].level /\ RecsOf(i)' = RecsOf(i) /\ files[i].level \in Nat
        BY <1>14
      <4>2. files[i].level < src + 1 => files[i].level <= src
        BY <1>4, <4>1
      <4> QED
        BY <1>17, <4>1, <4>2
    <3> QED
      BY <1>9, <1>12, <3>1 DEF Joins, Newer, KeysBelow
  <2>3. \A i \in D \cup {id} : files'[i].level \in Nat
    BY <1>4, <1>12, <1>14
  <2>4. Layered(D \cup {id})'
    BY <1>11, <1>14, <2>1, <2>2, <2>3, JoinLayers
  <2> QED
    BY <1>15, <2>4 DEF LevelOrder, Layered
<1>20. RestOrder'
  <2>1. ASSUME NEW i \in D
        PROVE  /\ files'[i].level <= src => Newer(RecsOf(i)', Range(b))
               /\ files'[i].level > src + 1 => Newer(Range(b), RecsOf(i)')
               /\ files'[i].level = src + 1 => KeysBelow(RecsOf(i)', Range(b))
    BY <1>14, <1>17
  <2>2. /\ ~(files'[id].level <= src) /\ ~(files'[id].level > src + 1)
        /\ KeysBelow(RecsOf(id)', Range(b))
    BY <1>4, <1>6, <1>12
  <2> QED
    BY <1>6, <1>8, <1>15, <2>1, <2>2 DEF RestOrder, Newer, KeysBelow
<1>21. FlushedExact'
  <2>1. flushed = (UNION {RecsOf(i) : i \in D}) \cup Range(rest)
    BY <1>2, <1>13 DEF OrderInv, FlushedExact, rest
  <2>2. (UNION {RecsOf(i)' : i \in D \cup {id}}) = (UNION {RecsOf(i) : i \in D}) \cup Range(a)
    BY <1>12, <1>14
  <2>3. flushed = (UNION {RecsOf(i)' : i \in D \cup {id}}) \cup Range(b)
    BY <1>6, <2>1, <2>2
  <2> QED
    BY <1>2, <1>8, <1>15, <2>3 DEF FlushedExact
<1>22. ListsExact'
  <2> DEFINE ls == [lists EXCEPT ![src] = <<>>, ![src + 1] = new]
             ms == [lists EXCEPT ![src] = <<>>, ![src + 1] = Append(new, id)]
  <2>1. NextLists = ls /\ NextLists' = ms
    BY <1>2, <1>8 DEF NextLists, Installed
  <2>2. lists \in [0..MaxLevel -> Seq(Nat)] /\ <<>> \in Seq(Nat)
    BY <1>1 DEF ListShapes
  <2> HIDE DEF new
  <2>3. /\ Append(new, id) \in Seq(Nat) /\ Len(Append(new, id)) = Len(new) + 1
        /\ Append(new, id)[Len(new) + 1] = id /\ \A i \in DOMAIN new : Append(new, id)[i] = new[i]
    BY SMTT(20), <1>4, <1>11, AppendFacts
  <2>4. \A e \in Nat : Range(Append(new, e)) = Range(new) \cup {e}
    BY <1>4, EndRanges
  <2>5. /\ ls \in [0..MaxLevel -> Seq(Nat)] /\ ms \in [0..MaxLevel -> Seq(Nat)]
        /\ ls[src + 1] = new /\ ms[src + 1] = Append(new, id)
        /\ \A l \in 0..MaxLevel : l # src + 1 => ms[l] = ls[l]
    BY <1>4, <2>2, <2>3
  <2>6. Grows(ls[src + 1], ms[src + 1], id, src + 1)
    BY <1>9, <1>11, <2>3, <2>4, <2>5 DEF Grows
  <2>7. Exact(ls, D)
    BY <1>13, <2>1 DEF OrderInv, ListsExact
  <2> HIDE DEF ls, ms
  <2>8. ExactNext(ms, D \cup {id})
    <3> DEFINE k == src + 1
    <3>1. k \in 0..MaxLevel /\ Extends(ls, ms, D, id, k)
      BY <1>4, <1>12, <1>14, <2>5, <2>6 DEF Extends
    <3> HIDE DEF k
    <3> QED
      BY <1>11, <2>7, <3>1, ExactGrows
  <2> QED
    BY <1>15, <2>1, <2>8 DEF ListsExact, Exact, ById, ExactNext
<1>23. MemNewer'
  BY <1>2 DEF OrderInv, MemNewer
<1>24. LevelRoom'
  BY <1>2, <1>8 DEF OrderInv, LevelRoom
<1> QED
  BY <1>18, <1>19, <1>20, <1>21, <1>22, <1>23, <1>24 DEF OrderInv

\* Compaction deletes an old file.
LEMMA CompactDeleteOrder ==
    ASSUME FaultInv, OrderInv, CompactDelete, faults' = faults
    PROVE  OrderInv'
<1> DEFINE old == job.old
           h == Head(old)
<1>1. JobShape /\ faults \in Nat
  BY DEF FaultInv, Shapes, MemShape
<1>2. /\ job.ph = "compact" /\ job.rest = <<>> /\ old # <<>>
      /\ mem' = mem /\ lists' = lists /\ writes' = writes /\ flushed' = flushed
      /\ job' = [job EXCEPT !.old = Tail(@)] /\ files' = Removed(h)
  BY <1>1 DEF CompactDelete
<1>3. job \in Compactions /\ old \in Seq(Nat)
  BY <1>1, <1>2, JobFields
<1>4. Range(old) = {h} \cup Range(Tail(old))
  BY <1>2, <1>3, EndRanges
<1>5. /\ job'.ph = "compact" /\ job'.src = job.src /\ job'.rest = job.rest /\ job'.new = job.new
      /\ job'.old = Tail(old)
  BY <1>2, <1>3 DEF Compactions
<1>6. DOMAIN files' = DOMAIN files \ {h} /\ \A i \in DOMAIN files : i # h => files'[i] = files[i]
  BY <1>2 DEF Removed
<1>7. Live' = Live /\ Live \subseteq DOMAIN files /\ h \notin Live
  BY <1>2, <1>4, <1>5, <1>6 DEF Live
<1>8. NextLists' = NextLists
  BY <1>2, <1>5 DEF NextLists, Installed
<1>9. \A i \in Live : files'[i] = files[i] /\ RecsOf(i)' = RecsOf(i)
  BY <1>6, <1>7 DEF RecsOf
<1>10. FilesWhole'
  BY <1>6 DEF OrderInv, FilesWhole
<1>11. ListsExact'
  BY <1>7, <1>8, <1>9 DEF OrderInv, ListsExact, Exact
<1>12. LevelOrder'
  BY <1>7, <1>9 DEF OrderInv, LevelOrder, Layered
<1>13. RestOrder'
  BY <1>2, <1>5, <1>7, <1>9 DEF OrderInv, RestOrder
<1>14. FlushedExact'
  <2>1. {RecsOf(i)' : i \in Live} = {RecsOf(i) : i \in Live}
    BY <1>9
  <2> QED
    BY <1>2, <1>5, <1>7, <2>1 DEF OrderInv, FlushedExact
<1>15. MemNewer' /\ LevelRoom'
  BY <1>2, <1>5 DEF OrderInv, MemNewer, LevelRoom
<1> QED
  BY <1>10, <1>11, <1>12, <1>13, <1>14, <1>15 DEF OrderInv

\* A finished compaction is installed.
LEMMA CompactInstallOrder ==
    ASSUME FaultInv, OrderInv, CompactInstall
    PROVE  OrderInv'
<1>1. /\ job.ph = "compact" /\ job.rest = <<>> /\ job.old = <<>> /\ lists' = Installed
      /\ job' = IF job.src = 0 THEN [ph |-> "build"] ELSE Compacting(Installed, job.src - 1)
      /\ mem' = mem /\ files' = files /\ writes' = writes /\ flushed' = flushed
  BY DEF CompactInstall, history
<1>2. FileShapes /\ TableInv /\ ListShapes
  BY DEF FaultInv, Shapes
<1>3. /\ ListsNameFiles(Installed) /\ job.src \in 0..(MaxLevel - 1)
      /\ Live = DOMAIN files /\ NextLists = Installed
  BY <1>1, DoneFacts
<1>4. FilesWhole /\ Exact(Installed, DOMAIN files) /\ Layered(DOMAIN files) /\ LevelRoom
  BY <1>3 DEF OrderInv, ListsExact, LevelOrder
<1>5. flushed = UNION {RecsOf(i) : i \in DOMAIN files}
  <2>1. Range(job.rest) = {}
    BY <1>1 DEF Range
  <2> QED
    BY <1>1, <1>3, <2>1 DEF OrderInv, FlushedExact
<1>6. MemNewer'
  BY <1>1 DEF OrderInv, MemNewer
<1>7. lists \in [0..MaxLevel -> Seq(Nat)] /\ 0 \in 0..MaxLevel
  BY <1>2, BoundsAssumption DEF ListShapes
<1>8. CASE job.src = 0
  <2>1. job' = [ph |-> "build"]
    BY <1>1, <1>8
  <2>2. lists'[0] = <<>>
    BY <1>1, <1>7, <1>8 DEF Installed
  <2>3. LevelRoom'
    BY <2>2, RatioAssumption DEF LevelRoom
  <2>4. Exact(lists', DOMAIN files)
    BY <1>1, <1>4
  <2> QED
    BY <1>1, <1>4, <1>5, <1>6, <2>1, <2>3, <2>4, QuietOrder
<1>9. CASE job.src # 0
  <2> DEFINE ls == Installed
             src == job.src - 1
  <2>1. src \in 0..(MaxLevel - 1)
    BY <1>3, <1>9, BoundsAssumption
  <2>2. job' = Compacting(ls, src) /\ lists' = ls
    BY <1>1, <1>9
  <2>3. ls[0] = lists[0]
    <3>1. job.src + 1 # 0
      BY <1>3
    <3> QED
      BY <1>7, <1>9, <3>1 DEF Installed
  <2>4. ListsNameFiles(ls) /\ Exact(ls, DOMAIN files) /\ Len(ls[0]) <= Ratio
    BY <1>3, <1>4, <2>3 DEF LevelRoom
  <2> HIDE DEF ls, src
  <2> QED
    BY <1>1, <1>2, <1>4, <1>5, <1>6, <2>1, <2>2, <2>4, StartOrder
<1> QED
  BY <1>8, <1>9

\* A sequence has at most as many elements as places.
LEMMA CountElements ==
    ASSUME NEW T, NEW s \in Seq(T)
    PROVE  Cardinality(Range(s)) <= Len(s)
<1>1. Len(s) \in Nat /\ DOMAIN s = 1..Len(s)
  BY SeqBasics
<1>2. s \in [1..Len(s) -> Range(s)]
  BY <1>1 DEF Range
<1>3. s \in Surjection(1..Len(s), Range(s))
  BY <1>1, <1>2 DEF Surjection, Range
<1>4. ExistsSurjection(1..Len(s), Range(s))
  BY <1>3 DEF ExistsSurjection
<1> QED
  BY <1>1, <1>4, FS_SurjCardinalityBound

\* The table of the n oldest writes: it has records, all of them from these
\* writes, and each of them is newer than what was flushed before.
LEMMA OldestTable ==
    ASSUME MemShape, MemNewer, NEW n \in DOMAIN mem
    PROVE  /\ TableOf(SubSeq(mem, 1, n)) \in Seq(Recs)
           /\ TableOf(SubSeq(mem, 1, n)) # <<>>
           /\ Ordered(TableOf(SubSeq(mem, 1, n)), BeforeRel)
           /\ Ordered(TableOf(SubSeq(mem, 1, n)), AheadRel)
           /\ \A r \in Range(TableOf(SubSeq(mem, 1, n))) :
                r.n <= writes - Len(mem) + n /\ \A s \in flushed : r.n > s.n
           /\ SubSeq(mem, n + 1, Len(mem)) \in Seq(Recs)
           /\ Len(SubSeq(mem, n + 1, Len(mem))) = Len(mem) - n
           /\ \A p \in 1..(Len(mem) - n) : SubSeq(mem, n + 1, Len(mem))[p].n = writes - Len(mem) + n + p
<1> DEFINE old == SubSeq(mem, 1, n)
           left == SubSeq(mem, n + 1, Len(mem))
           m == Len(mem)
           base == writes - Len(mem)
           table == TableOf(old)
<1>1. /\ mem \in Seq(Recs) /\ writes \in Nat /\ flushed \subseteq Recs
      /\ Len(mem) <= writes /\ \A p \in DOMAIN mem : mem[p].n = base + p
      /\ \A r \in flushed : r.n <= base
  BY DEF MemShape, MemNewer
<1>2. m \in Nat /\ DOMAIN mem = 1..m /\ n \in 0..m /\ n \in 1..m /\ base \in Nat
  BY <1>1, SeqBasics
<1>3. /\ old \in Seq(Recs) /\ left \in Seq(Recs) /\ Len(old) = n /\ Len(left) = m - n
      /\ \A i \in 1..n : old[i] = mem[i]
      /\ \A i \in 1..(m - n) : left[i] = mem[n + i]
  <2>1. mem \in Seq(Recs) /\ n \in 0..Len(mem)
    BY <1>1, <1>2
  <2> QED
    BY <2>1, SplitRange
<1> HIDE DEF base
<1>4. ASSUME NEW p \in 1..(m - n) PROVE left[p].n = base + n + p
  <2>1. n + p \in 1..m /\ base + (n + p) = base + n + p
    BY <1>2
  <2> QED
    BY <1>1, <1>2, <1>3, <2>1
<1> HIDE DEF old, left
<1>5. table \in Seq(Recs) /\ Range(table) = Kept(old) /\ Ordered(table, BeforeRel)
  BY <1>3, TableFacts
<1> HIDE DEF table
<1>6. Ordered(table, AheadRel)
  BY <1>5 DEF Ordered, BeforeRel, AheadRel, Ahead
<1>7. DOMAIN old = 1..n
  BY <1>3, SeqBasics
<1>8. \A i \in 1..n : old[i].n = base + i
  <2>1. \A i \in 1..n : i \in 1..m
    BY <1>2
  <2> QED
    BY <1>1, <1>2, <1>3, <2>1
<1>9. \A r \in Range(old) : \E i \in 1..n : r.n = base + i
  BY <1>7, <1>8 DEF Range
<1>10. old[n] \in Kept(old)
  <2>1. old[n] \in Range(old) /\ old[n].n = base + n
    BY <1>2, <1>7, <1>8 DEF Range
  <2>2. \A s \in Range(old) : s.n <= base + n
    BY <1>2, <1>9
  <2> QED
    BY <2>1, <2>2 DEF Kept
<1>11. table # <<>>
  BY <1>5, <1>10 DEF Range
<1>12. ASSUME NEW r \in Range(table) PROVE r.n <= base + n /\ \A s \in flushed : r.n > s.n
  <2>1. r \in Range(old)
    BY <1>5 DEF Kept
  <2>2. PICK i \in 1..n : r.n = base + i
    BY <1>9, <2>1
  <2>3. ASSUME NEW s \in flushed PROVE r.n > s.n
    <3>1. s.n \in Nat /\ s.n <= base
      BY <1>1, RecFields
    <3> QED
      BY <1>2, <2>2, <3>1
  <2> QED
    BY <1>2, <2>2, <2>3
<1> QED
  BY <1>3, <1>4, <1>5, <1>6, <1>11, <1>12 DEF table, old, left, base

\* The oldest table becomes a file of level 0.
LEMMA FlushBuildOrder ==
    ASSUME FaultInv, OrderInv, FlushBuild
    PROVE  OrderInv'
<1>0. PICK id : id = nextSstId
  OBVIOUS
<1>1. /\ job.ph = "build" /\ lists' = [lists EXCEPT ![0] = <<id>> \o @]
      /\ nextSstId' = id + 1 /\ job' = Idle /\ writes' = writes
  BY <1>0 DEF FlushBuild
<1>2. PICK n \in DOMAIN mem :
         /\ files' = Created(id, 0, TableOf(SubSeq(mem, 1, n)), FALSE)
         /\ flushed' = flushed \cup Range(TableOf(SubSeq(mem, 1, n)))
         /\ mem' = SubSeq(mem, n + 1, Len(mem))
  BY <1>0 DEF FlushBuild
<1> DEFINE table == TableOf(SubSeq(mem, 1, n))
           base == writes - Len(mem)
<1>3. FileShapes /\ ListShapes /\ MemShape /\ IdInv /\ TableInv
  BY DEF FaultInv, Shapes
<1>4. proc = "open"
  BY <1>1, <1>3 DEF IdInv, Idle
<1>5. /\ FilesWhole /\ Exact(lists, DOMAIN files) /\ Layered(DOMAIN files)
      /\ flushed = UNION {RecsOf(i) : i \in DOMAIN files} /\ MemNewer /\ LevelRoom
  BY <1>1, QuietLevels
<1>6. /\ table \in Seq(Recs) /\ table # <<>> /\ Ordered(table, BeforeRel) /\ Ordered(table, AheadRel)
      /\ \A r \in Range(table) : r.n <= base + n /\ \A s \in flushed : r.n > s.n
      /\ mem' \in Seq(Recs) /\ Len(mem') = Len(mem) - n
      /\ \A p \in 1..(Len(mem) - n) : mem'[p].n = base + n + p
  BY <1>2, <1>3, <1>5, OldestTable
<1> HIDE DEF table
<1>7. files' = Created(id, 0, table, FALSE) /\ flushed' = flushed \cup Range(table)
  BY <1>2 DEF table
<1>8. 0 \in 0..MaxLevel
  BY BoundsAssumption
<1>9. /\ id \notin DOMAIN files /\ id \in Nat
      /\ DOMAIN files' = DOMAIN files \cup {id}
      /\ files'[id] = [level |-> 0, recs |-> table, torn |-> FALSE]
      /\ \A i \in DOMAIN files : files'[i] = files[i] /\ RecsOf(i)' = RecsOf(i)
  BY <1>0, <1>3, <1>4, <1>6, <1>7, <1>8, Creates
<1>10. files'[id].level = 0 /\ RecsOf(id)' = Range(table) /\ files'[id].recs = table /\ ~files'[id].torn
  BY <1>9 DEF RecsOf
<1>11. PICK D : D = DOMAIN files
  OBVIOUS
<1>12. /\ D \subseteq Nat /\ \A i \in D : i < id
       /\ \A i \in D : files'[i] = files[i] /\ RecsOf(i)' = RecsOf(i) /\ files[i].level \in Nat
  <2>1. \A i \in DOMAIN files : i \in Nat /\ i < id
    BY <1>0, <1>3, <1>4 DEF IdInv
  <2>2. \A i \in DOMAIN files : files[i].level \in Nat
    BY <1>3, FileFields
  <2> QED
    BY <1>9, <1>11, <2>1, <2>2
<1>13. job'.ph = "idle"
  BY <1>1 DEF Idle
<1>14. Live' = D \cup {id} /\ NextLists' = lists'
  BY <1>9, <1>11, <1>13 DEF Live, NextLists
<1>15. \A i \in D : Newer(Range(table), RecsOf(i))
  BY <1>5, <1>6, <1>11 DEF Newer
<1>16. FilesWhole'
  <2>1. ASSUME NEW i \in DOMAIN files
        PROVE  ~files'[i].torn /\ files'[i].recs # <<>> /\ Ordered(files'[i].recs, AheadRel)
    BY <1>5, <1>9 DEF FilesWhole
  <2> QED
    BY <1>6, <1>9, <1>10, <2>1 DEF FilesWhole
<1>17. LevelOrder'
  <2>1. Layered(D)'
    <3>1. Layered(D)
      BY <1>5, <1>11
    <3> QED
      BY <1>12, <3>1, LayersFrame
  <2>2. Joins(id, D)'
    <3>1. ASSUME NEW i \in D PROVE ~(files'[i].level < 0) /\ Newer(Range(table), RecsOf(i)')
      BY <1>12, <1>15
    <3> QED
      BY <1>10, <3>1 DEF Joins, Newer
  <2>3. \A i \in D \cup {id} : files'[i].level \in Nat
    BY <1>10, <1>12
  <2>4. Layered(D \cup {id})'
    BY <1>9, <1>12, <2>1, <2>2, <2>3, JoinLayers
  <2> QED
    BY <1>14, <2>4 DEF LevelOrder, Layered
<1>18. RestOrder'
  BY <1>13 DEF RestOrder
<1>19. FlushedExact'
  <2>1. (UNION {RecsOf(i)' : i \in D \cup {id}}) = (UNION {RecsOf(i) : i \in D}) \cup Range(table)
    BY <1>10, <1>12
  <2>2. flushed' = UNION {RecsOf(i)' : i \in D \cup {id}}
    BY <1>5, <1>7, <1>11, <2>1
  <2> QED
    BY <1>13, <1>14, <2>2 DEF FlushedExact
<1>20. /\ lists \in [0..MaxLevel -> Seq(Nat)] /\ lists' \in [0..MaxLevel -> Seq(Nat)]
       /\ Grows(lists[0], lists'[0], id, 0) /\ \A l \in 0..MaxLevel : l # 0 => lists'[l] = lists[l]
  <2> DEFINE s == lists[0]
  <2>1. lists \in [0..MaxLevel -> Seq(Nat)] /\ s \in Seq(Nat)
    BY <1>3, <1>8 DEF ListShapes
  <2> HIDE DEF s
  <2>2. /\ <<id>> \o s \in Seq(Nat) /\ Len(<<id>> \o s) = Len(s) + 1
        /\ (<<id>> \o s)[1] = id /\ \A i \in DOMAIN s : (<<id>> \o s)[i + 1] = s[i]
    BY <1>9, <2>1, PushFacts
  <2>3. \A e \in Nat : Range(<<e>> \o s) = Range(s) \cup {e}
    BY <2>1, EndRanges
  <2>4. lists' = [lists EXCEPT ![0] = <<id>> \o s]
    BY <1>1 DEF s
  <2> DEFINE t == <<id>> \o s
  <2>5. Grows(s, t, id, 0) /\ t \in Seq(Nat)
    BY <1>9, <2>2, <2>3 DEF Grows
  <2>6. lists' = [lists EXCEPT ![0] = t]
    BY <2>4
  <2> HIDE DEF t
  <2> QED
    BY <1>8, <2>1, <2>5, <2>6 DEF s
<1>21. ListsExact'
  <2> DEFINE ms == lists'
  <2>1. Extends(lists, ms, D, id, 0)
    BY <1>10, <1>12, <1>20 DEF Extends
  <2>2. Exact(lists, D)
    BY <1>5, <1>11
  <2> HIDE DEF ms
  <2>3. ExactNext(ms, D \cup {id})
    BY <1>8, <1>9, <2>1, <2>2, ExactGrows
  <2> QED
    BY <1>14, <2>3 DEF ListsExact, Exact, ById, ExactNext, ms
<1>22. LevelRoom'
  <2>1. Len(lists'[0]) = Len(lists[0]) + 1 /\ lists[0] \in Seq(Nat)
    BY <1>8, <1>20 DEF Grows
  <2>2. Len(lists[0]) \in Nat /\ Len(lists[0]) < Ratio
    BY <1>1, <1>5, <2>1 DEF LevelRoom
  <2>3. Len(lists'[0]) <= Ratio
    BY <2>1, <2>2, RatioAssumption
  <2> QED
    BY <1>13, <2>3 DEF LevelRoom
<1>23. MemNewer'
  <2>1. mem \in Seq(Recs) /\ writes \in Nat /\ flushed \subseteq Recs /\ Len(mem) <= writes
        /\ \A r \in flushed : r.n <= base
    BY <1>3, <1>5 DEF MemShape, MemNewer
  <2>2. Len(mem) \in Nat /\ n \in 1..Len(mem) /\ base \in Nat
    BY <1>2, <2>1, SeqBasics
  <2>3. DOMAIN mem' = 1..(Len(mem) - n)
    BY <1>6, SeqBasics
  <2>4. writes - (Len(mem) - n) = base + n /\ Len(mem) - n <= writes
    BY <2>1, <2>2
  <2>5. \A r \in flushed' : r.n <= base + n
    <3>1. \A r \in flushed : r.n \in Nat
      BY <2>1, RecFields
    <3>2. \A r \in flushed : r.n <= base + n
      BY <2>1, <2>2, <3>1
    <3> QED
      BY <1>6, <1>7, <3>2
  <2> HIDE DEF base
  <2> QED
    BY <1>1, <1>6, <2>3, <2>4, <2>5 DEF MemNewer
<1> QED
  BY <1>16, <1>17, <1>18, <1>19, <1>21, <1>22, <1>23 DEF OrderInv

\* flush_last finds nothing.
LEMMA FlushNothingOrder ==
    ASSUME OrderInv, FlushNothing
    PROVE  OrderInv'
<1>1. /\ job.ph = "build" /\ job' = Idle /\ mem' = mem /\ files' = files /\ lists' = lists
      /\ writes' = writes /\ flushed' = flushed
  BY DEF FlushNothing, history
<1>2. /\ FilesWhole /\ Exact(lists, DOMAIN files) /\ Layered(DOMAIN files)
      /\ flushed = UNION {RecsOf(i) : i \in DOMAIN files} /\ MemNewer /\ LevelRoom
  BY <1>1, QuietLevels
<1>3. job'.ph = "idle"
  BY <1>1 DEF Idle
<1>4. MemNewer' /\ LevelRoom'
  BY <1>1, <1>2, <1>3 DEF MemNewer, LevelRoom
<1>5. Exact(lists', DOMAIN files)
  BY <1>1, <1>2
<1> QED
  BY <1>1, <1>2, <1>3, <1>4, <1>5, QuietOrder

\* An engine without files, records or jobs.
LEMMA EmptyOrder ==
    ASSUME mem = <<>>, lists = NoLists, DOMAIN files = {}, flushed = {}, job = Idle, writes \in Nat
    PROVE  OrderInv
<1>1. job.ph = "idle"
  BY DEF Idle
<1>2. Live = {} /\ NextLists = NoLists
  BY <1>1 DEF Live, NextLists
<1>3. FilesWhole /\ RestOrder
  BY <1>1 DEF FilesWhole, RestOrder
<1>4. ListsExact
  <2>1. ASSUME NEW l \in 0..MaxLevel PROVE NoLists[l] = <<>> /\ Range(NoLists[l]) = {} /\ DOMAIN NoLists[l] = {}
    BY DEF NoLists, Range
  <2> QED
    BY <1>2, <2>1 DEF ListsExact, Exact
<1>5. LevelOrder
  BY <1>2 DEF LevelOrder, Layered
<1>6. FlushedExact
  BY <1>1, <1>2 DEF FlushedExact
<1>7. MemNewer
  BY DEF MemNewer
<1>8. LevelRoom
  <2>1. NoLists[0] = <<>>
    BY BoundsAssumption DEF NoLists
  <2> QED
    BY <1>1, <2>1, RatioAssumption DEF LevelRoom
<1> QED
  BY <1>3, <1>4, <1>5, <1>6, <1>7, <1>8 DEF OrderInv

\* LSMEngine::clear.
LEMMA ClearOrder ==
    ASSUME FaultInv, Clear
    PROVE  OrderInv'
<1>1. /\ mem' = <<>> /\ lists' = NoLists /\ files' = [i \in {} |-> files[i]] /\ flushed' = {}
      /\ job' = Idle /\ writes' = writes
  BY DEF Clear
<1>2. DOMAIN files' = {} /\ writes' \in Nat
  BY <1>1 DEF FaultInv, Shapes, MemShape
<1>3. job'.ph = "idle"
  BY <1>1 DEF Idle
<1>4. Live' = {} /\ NextLists' = NoLists
  BY <1>1, <1>2, <1>3 DEF Live, NextLists
<1>5. FilesWhole' /\ RestOrder'
  BY <1>2, <1>3 DEF FilesWhole, RestOrder
<1>6. ListsExact'
  <2>1. ASSUME NEW l \in 0..MaxLevel PROVE NoLists[l] = <<>> /\ Range(NoLists[l]) = {} /\ DOMAIN NoLists[l] = {}
    BY DEF NoLists, Range
  <2> QED
    BY <1>4, <2>1 DEF ListsExact, Exact
<1>7. LevelOrder'
  BY <1>4 DEF LevelOrder, Layered
<1>8. FlushedExact'
  BY <1>1, <1>3, <1>4 DEF FlushedExact
<1>9. MemNewer'
  BY <1>1, <1>2 DEF MemNewer
<1>10. LevelRoom'
  <2>1. NoLists[0] = <<>>
    BY BoundsAssumption DEF NoLists
  <2> QED
    BY <1>1, <1>3, <2>1, RatioAssumption DEF LevelRoom
<1> QED
  BY <1>5, <1>6, <1>7, <1>8, <1>9, <1>10 DEF OrderInv

\* Reopening finds the levels as they were.
LEMMA ReopenOrder ==
    ASSUME FaultInv, OrderInv, Reopen
    PROVE  OrderInv'
<1>1. /\ mem' = mem /\ files' = files /\ job' = job /\ writes' = writes /\ flushed' = flushed
      /\ lists' = [l \in 0..MaxLevel |-> LevelFromDisk(l)] /\ proc = "closed"
  BY DEF Reopen, history
<1>2. FileShapes /\ IdInv /\ ListShapes
  BY DEF FaultInv, Shapes
<1>3. job = Idle /\ job.ph = "idle"
  BY <1>1, <1>2 DEF IdInv, Idle
<1>4. /\ FilesWhole /\ Exact(lists, DOMAIN files) /\ Layered(DOMAIN files)
      /\ flushed = UNION {RecsOf(i) : i \in DOMAIN files} /\ MemNewer /\ LevelRoom
  BY <1>3, QuietLevels
<1>5. \A l \in 0..MaxLevel : lists'[l] = LevelFromDisk(l)
  BY <1>1
<1>6. Exact(lists', DOMAIN files)
  <2> SUFFICES ASSUME NEW l \in 0..MaxLevel
               PROVE  /\ Range(lists'[l]) = {i \in DOMAIN files : files[i].level = l}
                      /\ \A p, q \in DOMAIN lists'[l] :
                           p < q => IF l = 0 THEN lists'[l][p] > lists'[l][q]
                                    ELSE lists'[l][p] < lists'[l][q]
    BY DEF Exact
  <2> DEFINE L == LevelFromDisk(l)
  <2>1. /\ Range(L) = {i \in DOMAIN files : files[i].level = l}
        /\ \A p, q \in DOMAIN L : p < q => IF l = 0 THEN L[p] > L[q] ELSE L[p] < L[q]
    BY <1>2, DiskLists
  <2>2. lists'[l] = L
    BY <1>5
  <2> HIDE DEF L
  <2> QED
    BY <2>1, <2>2
<1>7. LevelRoom'
  <2>1. 0 \in 0..MaxLevel
    BY BoundsAssumption
  <2> DEFINE S == {i \in DOMAIN files : files[i].level = 0}
             s == lists[0]
  <2>2. Len(LevelFromDisk(0)) = Cardinality(S)
    BY <1>2, <2>1, DiskLists
  <2>3. s \in Seq(Nat) /\ Range(s) = S /\ Len(s) <= Ratio
    BY <1>2, <1>4, <2>1 DEF ListShapes, Exact, LevelRoom
  <2>4. IsFiniteSet(S)
    <3> HIDE DEF S, s
    <3> QED
      BY <2>3, FiniteElements
  <2> HIDE DEF S, s
  <2>5. Cardinality(S) <= Len(s) /\ Len(s) \in Nat
    BY <2>3, CountElements, SeqBasics
  <2>6. Cardinality(S) \in Nat
    BY <2>4, FS_CardinalityType
  <2>7. Cardinality(S) <= Ratio
    BY <2>3, <2>5, <2>6, RatioAssumption
  <2> QED
    BY <1>1, <1>3, <1>5, <2>1, <2>2, <2>7 DEF LevelRoom
<1>8. MemNewer'
  BY <1>1, <1>4 DEF MemNewer
<1> QED
  BY <1>1, <1>3, <1>4, <1>6, <1>7, <1>8, QuietOrder

\* A step that does not fail keeps the levels in order.
LEMMA StepOrder ==
    ASSUME FaultInv, NoFaultInv, [SNext]_svars
    PROVE  NoFaultInv'
<1>1. faults \in Nat
  BY DEF FaultInv, Shapes, MemShape
<1> SUFFICES ASSUME faults' = 0 PROVE OrderInv'
  BY DEF NoFaultInv
<1>2. CASE BuildFails \/ Crash
  <2>1. faults' = faults + 1
    BY <1>2 DEF BuildFails, Crash
  <2> QED
    BY <1>1, <2>1
<1>3. CASE CompactDelete
  <2>1. faults' = faults \/ faults' = faults + 1
    BY <1>3 DEF CompactDelete
  <2>2. faults' = faults /\ faults = 0
    BY <1>1, <2>1
  <2> QED
    BY <1>3, <2>2, CompactDeleteOrder DEF NoFaultInv
<1>4. CASE \E k \in Keys, v \in 1..MaxVer : Write(k, v)
  <2>1. faults' = faults
    BY <1>4 DEF Write
  <2> QED
    BY <1>4, <2>1, WriteOrder DEF NoFaultInv
<1>5. CASE FlushStart
  <2>1. faults' = faults
    BY <1>5 DEF FlushStart
  <2> QED
    BY <1>5, <2>1, FlushStartOrder DEF NoFaultInv
<1>6. CASE CompactWrite
  <2>1. faults' = faults
    BY <1>6 DEF CompactWrite, history
  <2> QED
    BY <1>6, <2>1, CompactWriteOrder DEF NoFaultInv
<1>7. CASE CompactInstall
  <2>1. faults' = faults
    BY <1>7 DEF CompactInstall, history
  <2> QED
    BY <1>7, <2>1, CompactInstallOrder DEF NoFaultInv
<1>8. CASE FlushBuild
  <2>1. faults' = faults
    BY <1>8 DEF FlushBuild
  <2> QED
    BY <1>8, <2>1, FlushBuildOrder DEF NoFaultInv
<1>9. CASE FlushNothing
  <2>1. faults' = faults
    BY <1>9 DEF FlushNothing, history
  <2> QED
    BY <1>9, <2>1, FlushNothingOrder DEF NoFaultInv
<1>10. CASE Clear
  BY <1>10, ClearOrder
<1>11. CASE Reopen
  <2>1. faults' = faults
    BY <1>11 DEF Reopen, history
  <2> QED
    BY <1>11, <2>1, ReopenOrder DEF NoFaultInv
<1>12. CASE Close \/ ReopenFails \/ UNCHANGED svars
  <2>1. /\ mem' = mem /\ files' = files /\ lists' = lists /\ job' = job
        /\ writes' = writes /\ faults' = faults /\ flushed' = flushed
    BY <1>12 DEF Close, ReopenFails, svars, history
  <2>2. OrderInv
    BY <2>1 DEF NoFaultInv
  <2>3. MemNewer'
    BY <2>1, <2>2 DEF OrderInv, MemNewer
  <2> QED
    BY <2>1, <2>2, <2>3, SameOrder
<1> QED
  BY <1>2, <1>3, <1>4, <1>5, <1>6, <1>7, <1>8, <1>9, <1>10, <1>11, <1>12 DEF SNext

\* While nothing has failed: the files hold exactly what was flushed, upper
\* levels are newer, and the keys of a level below 0 grow from file to file,
\* also for the part of a level that a compaction has written so far.
THEOREM LevelsInvariance == SSpec => []LevelsInv
<1>1. SInit => NoFaultInv
  <2>1. SInit => /\ mem = <<>> /\ lists = NoLists /\ DOMAIN files = {} /\ flushed = {}
                 /\ job = Idle /\ writes \in Nat
    BY DEF SInit
  <2> QED
    BY <2>1, EmptyOrder DEF NoFaultInv
<1>2. FaultInv /\ NoFaultInv /\ [SNext]_svars => NoFaultInv'
  BY StepOrder
<1> QED
  BY <1>1, <1>2, FaultInvariance, PTL DEF SSpec, LevelsInv

-----------------------------------------------------------------------------
(* What the invariant says of an open engine between two flushes.           *)

\* The keys of a file lie between its first and its last key.
LEMMA KeyBounds ==
    ASSUME FileShapes, FilesWhole, NEW i \in DOMAIN files
    PROVE  /\ FirstKey(i) \in Nat /\ LastKey(i) \in Nat
           /\ \E r \in RecsOf(i) : r.key = FirstKey(i)
           /\ \E r \in RecsOf(i) : r.key = LastKey(i)
           /\ \A r \in RecsOf(i) : FirstKey(i) <= r.key /\ r.key <= LastKey(i)
<1> DEFINE s == files[i].recs
           m == Len(s)
<1>1. s \in Seq(Recs) /\ s # <<>> /\ Ordered(s, AheadRel) /\ RecsOf(i) = Range(s)
      /\ FirstKey(i) = Head(s).key /\ LastKey(i) = Last(s).key
  BY FileFields DEF FilesWhole, RecsOf, FirstKey, LastKey
<1> HIDE DEF s
<1>2. m \in Nat /\ m > 0 /\ DOMAIN s = 1..m /\ \A p \in 1..m : s[p] \in Recs
  BY <1>1, SeqBasics
<1>3. Head(s) = s[1] /\ Last(s) = s[m]
  BY <1>1, EndFacts
<1>4. 1 \in 1..m /\ m \in 1..m /\ \A p \in 1..m : 1 <= p /\ p <= m
  BY <1>2
<1>5. ASSUME NEW p \in 1..m, NEW q \in 1..m, p <= q PROVE s[p].key <= s[q].key
  <2> DEFINE x == s[p]
             y == s[q]
  <2>1. x \in Recs /\ y \in Recs
    BY <1>2
  <2>2. p = q \/ p < q
    BY <1>2, <1>5
  <2>3. x = y \/ Ahead(x, y)
    BY <1>1, <1>2, <2>2 DEF Ordered, AheadRel
  <2> HIDE DEF x, y
  <2>4. x.key \in Nat /\ y.key \in Nat
    BY <2>1, RecFields
  <2>5. x.key <= y.key
    BY <2>3, <2>4 DEF Ahead, Before, SameSlot
  <2> QED
    BY <2>5 DEF x, y
<1>6. \A r \in Range(s) : s[1].key <= r.key /\ r.key <= s[m].key
  BY <1>2, <1>4, <1>5 DEF Range
<1>7. s[1] \in Range(s) /\ s[m] \in Range(s)
  BY <1>2, <1>4 DEF Range
<1>8. s[1].key \in Nat /\ s[m].key \in Nat
  BY <1>2, <1>4, RecFields
<1> QED
  BY <1>1, <1>3, <1>6, <1>7, <1>8

\* What an open and idle engine has.
LEMMA IdleFacts ==
    ASSUME LevelsInv, faults = 0, proc = "open", job = Idle
    PROVE  /\ FileShapes /\ ListsNameFiles(lists) /\ FilesWhole
           /\ Exact(lists, DOMAIN files) /\ Layered(DOMAIN files)
           /\ flushed = UNION {RecsOf(i) : i \in DOMAIN files} /\ MemShape /\ MemNewer
<1>1. job.ph # "compact"
  BY DEF Idle
<1>2. FaultInv /\ OrderInv
  BY DEF LevelsInv, NoFaultInv
<1>3. FileShapes /\ MemShape
  BY <1>2 DEF FaultInv, Shapes
<1>4. ListsNameFiles(lists)
  BY <1>1, <1>2, QuietFacts
<1> QED
  BY <1>1, <1>2, <1>3, <1>4, QuietLevels

\* Files of one level below 0: the one listed later has the larger keys.
LEMMA LevelKeys ==
    ASSUME FileShapes, ListsNameFiles(lists), FilesWhole, Exact(lists, DOMAIN files),
           Layered(DOMAIN files), NEW l \in 1..MaxLevel, NEW p \in DOMAIN lists[l],
           NEW q \in DOMAIN lists[l], p < q
    PROVE  /\ lists[l][p] \in DOMAIN files /\ lists[l][q] \in DOMAIN files
           /\ KeysBelow(RecsOf(lists[l][p]), RecsOf(lists[l][q]))
           /\ LastKey(lists[l][p]) < FirstKey(lists[l][q])
<1>1. l \in 0..MaxLevel /\ l # 0 /\ l > 0
  BY BoundsAssumption
<1>2. /\ Range(lists[l]) = {i \in DOMAIN files : files[i].level = l}
      /\ lists[l][p] < lists[l][q]
  BY <1>1 DEF Exact
<1> DEFINE i == lists[l][p]
           j == lists[l][q]
<1>3. i \in Range(lists[l]) /\ j \in Range(lists[l])
  BY DEF Range
<1>4. i \in DOMAIN files /\ j \in DOMAIN files /\ files[i].level = l /\ files[j].level = l /\ i < j
  BY <1>2, <1>3
<1> HIDE DEF i, j
<1>5. KeysBelow(RecsOf(i), RecsOf(j))
  BY <1>1, <1>4 DEF Layered
<1>6. PICK r \in RecsOf(i) : r.key = LastKey(i)
  BY <1>4, KeyBounds
<1>7. PICK s \in RecsOf(j) : s.key = FirstKey(j)
  BY <1>4, KeyBounds
<1>8. LastKey(i) < FirstKey(j)
  BY <1>5, <1>6, <1>7 DEF KeysBelow
<1> QED
  BY <1>4, <1>5, <1>8 DEF i, j

\* While nothing has failed: ids are handed out once, the lists name readable
\* files of their level, and level 0, whose files every lookup reads, never has
\* more than Ratio of them.
THEOREM LevelTypes == SSpec => [](faults = 0 => STypeOK)
<1>1. ASSUME LevelsInv, faults = 0 PROVE STypeOK
  <2>1. IdInv /\ FaultInv /\ LevelRoom
    BY <1>1 DEF LevelsInv, NoFaultInv, FaultInv, OrderInv
  <2>2. nextSstId \in Nat /\ proc \in {"open", "closed", "broken"}
    BY <2>1 DEF IdInv
  <2>3. ASSUME proc = "open" PROVE nextSstId > Max(DOMAIN files \cup {0})
    <3> DEFINE S == DOMAIN files \cup {0}
    <3>1. S \subseteq 0..nextSstId /\ S # {} /\ \A i \in S : i < nextSstId
      BY <2>1, <2>3 DEF IdInv
    <3> HIDE DEF S
    <3>2. Max(S) \in S
      BY <2>2, <3>1, MaxBounded
    <3>3. Max(S) < nextSstId /\ Max(S) \in 0..nextSstId
      BY <3>1, <3>2
    <3> QED
      BY <2>2, <3>3 DEF S
  <2>4. ASSUME proc = "open", job = Idle PROVE ListsNameFiles(lists)
    BY <1>1, <2>4, IdleFacts
  <2> QED
    BY <2>1, <2>2, <2>3, <2>4 DEF STypeOK, ListsNameFiles, OfLevel, LevelRoom
<1> QED
  BY <1>1, LevelsInvariance, PTL

\* The comment in sst_get_, on which its binary search rests: while nothing has
\* failed, below level 0 the files of a level are ordered by key and do not
\* overlap.
THEOREM LevelsApart == SSpec => [](faults = 0 => LevelsDisjoint)
<1>1. ASSUME LevelsInv, faults = 0 PROVE LevelsDisjoint
  <2> SUFFICES ASSUME proc = "open", job = Idle, NEW l \in 1..MaxLevel,
                      NEW i \in DOMAIN lists[l], NEW j \in DOMAIN lists[l], i < j
               PROVE  LastKey(lists[l][i]) < FirstKey(lists[l][j])
    BY DEF LevelsDisjoint
  <2>1. /\ FileShapes /\ ListsNameFiles(lists) /\ FilesWhole
        /\ Exact(lists, DOMAIN files) /\ Layered(DOMAIN files)
    BY <1>1, IdleFacts
  <2> QED
    BY <2>1, LevelKeys
<1> QED
  BY <1>1, LevelsInvariance, PTL

-----------------------------------------------------------------------------
(* The binary search over a level.                                          *)

\* The middle of an interval lies in it.
LEMMA MiddleFacts ==
    ASSUME NEW l \in Nat, NEW r \in Nat
    PROVE  /\ (l + r) \div 2 \in Nat
           /\ l < r => l <= (l + r) \div 2 /\ (l + r) \div 2 < r
OBVIOUS

\* Each turn of the search narrows the interval.
LEMMA SearchUnfold ==
    ASSUME NEW T, NEW ids \in Seq(T), NEW k
    PROVE  /\ SearchTurns(ids, k)[0] = <<0, Len(ids)>>
           /\ \A n \in 0..(Len(ids) - 1) :
                SearchTurns(ids, k)[n + 1] = Narrow(ids, k, SearchTurns(ids, k)[n])
<1> DEFINE m == Len(ids)
           S == Nat \X Nat
           F(p) == Narrow(ids, k, p)
           G(f) == [n \in 0..m |-> IF n = 0 THEN <<0, m>> ELSE F(f[n - 1])]
           step == [x \in Nat \X S |-> F(x[2])]
           at == CHOOSE f : f = G(f)
<1>1. m \in Nat
  BY SeqBasics
<1>2. SearchTurns(ids, k) = at
  BY DEF SearchTurns
<1>3. \A p \in S : F(p) \in S
  <2> SUFFICES ASSUME NEW p \in S PROVE F(p) \in S
    OBVIOUS
  <2> DEFINE l == p[1]
             r == p[2]
             mid == (l + r) \div 2
  <2>1. l \in Nat /\ r \in Nat /\ p = <<l, r>>
    OBVIOUS
  <2>2. F(p) = p \/ F(p) = <<mid + 1, r>> \/ F(p) = <<l, mid>>
    BY DEF Narrow
  <2> HIDE DEF l, r, F
  <2>3. mid \in Nat /\ mid + 1 \in Nat
    BY <2>1, MiddleFacts
  <2> HIDE DEF mid
  <2> QED
    BY <2>1, <2>2, <2>3
<1> HIDE DEF F
<1>4. step \in [Nat \X S -> S] /\ <<0, m>> \in S
  BY <1>1, <1>3
<1>5. PICK f \in [0..m -> S] :
         f[0] = <<0, m>> /\ \A n \in 0..(m - 1) : f[n + 1] = step[<<n, f[n]>>]
  <2> HIDE DEF step, m, S
  <2> DEFINE x0 == <<0, m>>
  <2> HIDE DEF x0
  <2>1. Unrolled(S, x0, step, m)
    BY <1>1, <1>4, Recursion DEF x0
  <2> QED
    BY <2>1 DEF Unrolled, x0
<1>6. f = G(f)
  <2>1. ASSUME NEW n \in 0..m, n # 0 PROVE f[n] = F(f[n - 1])
    <3>1. n - 1 \in 0..(m - 1) /\ (n - 1) + 1 = n /\ n - 1 \in 0..m /\ n - 1 \in Nat
      BY <1>1, <2>1
    <3>2. f[n - 1] \in S
      BY <3>1
    <3>3. f[(n - 1) + 1] = step[<<n - 1, f[n - 1]>>]
      BY <1>5, <3>1
    <3>4. step[<<n - 1, f[n - 1]>>] = F(f[n - 1])
      BY <3>1, <3>2
    <3> QED
      BY <3>1, <3>3, <3>4
  <2>2. \A n \in 0..m : f[n] = IF n = 0 THEN <<0, m>> ELSE F(f[n - 1])
    BY <1>5, <2>1
  <2>3. f = [n \in 0..m |-> f[n]]
    OBVIOUS
  <2> QED
    BY <2>2, <2>3
<1>7. at = G(at)
  <2>1. \E x : x = G(x)
    BY <1>6, Zenon
  <2> HIDE DEF G
  <2> QED
    BY <2>1, Zenon
<1> HIDE DEF at
<1>8. \A n \in 0..m : at[n] = IF n = 0 THEN <<0, m>> ELSE F(at[n - 1])
  <2>1. at = [n \in 0..m |-> IF n = 0 THEN <<0, m>> ELSE F(at[n - 1])]
    BY <1>7, Zenon
  <2> QED
    BY <2>1
<1>9. at[0] = <<0, m>>
  BY <1>1, <1>8
<1>10. ASSUME NEW n \in 0..(m - 1) PROVE at[n + 1] = F(at[n])
  <2>1. n + 1 \in 0..m /\ n + 1 # 0 /\ (n + 1) - 1 = n
    BY <1>1
  <2> QED
    BY <1>8, <2>1
<1> QED
  BY <1>2, <1>9, <1>10 DEF F

Covers(i, k) == FirstKey(i) <= k /\ k <= LastKey(i)

\* The files have keys, and those listed later have larger ones.
KeySorted(ids) ==
    /\ \A p \in DOMAIN ids :
         FirstKey(ids[p]) \in Nat /\ LastKey(ids[p]) \in Nat /\ FirstKey(ids[p]) <= LastKey(ids[p])
    /\ \A p, q \in DOMAIN ids : p < q => LastKey(ids[p]) < FirstKey(ids[q])

Middle(l, r) == (l + r) \div 2

\* The search goes no further.
Settled(ids, k, l, r) == l >= r \/ Covers(ids[Middle(l, r) + 1], k)

\* Files that have the key are in the part that is left.
Encloses(ids, k, l, r) == \A t \in DOMAIN ids : Covers(ids[t], k) => l < t /\ t <= r

\* One turn: the search is settled, or it goes on in a smaller part.
LEMMA NarrowFacts ==
    ASSUME NEW T, NEW ids \in Seq(T), NEW k \in Nat, KeySorted(ids),
           NEW l \in 0..Len(ids), NEW r \in 0..Len(ids), l <= r, Encloses(ids, k, l, r)
    PROVE  \E l2, r2 \in 0..Len(ids) :
             /\ Narrow(ids, k, <<l, r>>) = <<l2, r2>> /\ l2 <= r2 /\ Encloses(ids, k, l2, r2)
             /\ Settled(ids, k, l, r) => l2 = l /\ r2 = r
             /\ ~Settled(ids, k, l, r) => r2 - l2 < r - l
<1> DEFINE m == Len(ids)
           mid == Middle(l, r)
           i == ids[mid + 1]
<1>1. m \in Nat /\ DOMAIN ids = 1..m /\ l \in Nat /\ r \in Nat
  BY SeqBasics
<1>2. CASE Settled(ids, k, l, r)
  <2>1. Narrow(ids, k, <<l, r>>) = <<l, r>>
    BY <1>2 DEF Settled, Covers, Middle, Narrow
  <2> QED
    BY <1>2, <2>1
<1>3. CASE ~Settled(ids, k, l, r)
  <2>1. l < r /\ ~Covers(i, k)
    BY <1>1, <1>3 DEF Settled
  <2>2. mid \in Nat /\ l <= mid /\ mid < r
    BY <1>1, <2>1, MiddleFacts DEF Middle
  <2>3. Narrow(ids, k, <<l, r>>) = IF LastKey(i) < k THEN <<mid + 1, r>> ELSE <<l, mid>>
    <3>1. ~(l >= r) /\ ~(FirstKey(i) <= k /\ k <= LastKey(i))
      BY <1>1, <2>1 DEF Covers
    <3> QED
      BY <3>1 DEF Narrow, Middle
  <2> HIDE DEF mid
  <2>4. mid + 1 \in 1..m
    BY <1>1, <2>2
  <2>5. FirstKey(i) \in Nat /\ LastKey(i) \in Nat
    BY <1>1, <2>4 DEF KeySorted
  <2>6. CASE LastKey(i) < k
    <3>1. Narrow(ids, k, <<l, r>>) = <<mid + 1, r>>
      BY <2>3, <2>6
    <3>2. ASSUME NEW t \in DOMAIN ids, Covers(ids[t], k) PROVE mid + 1 < t /\ t <= r
      <4>1. l < t /\ t <= r /\ t \in 1..m
        BY <1>1, <3>2 DEF Encloses
      <4>2. FirstKey(ids[t]) \in Nat /\ LastKey(ids[t]) \in Nat /\ k <= LastKey(ids[t])
            /\ FirstKey(ids[t]) <= LastKey(ids[t])
        BY <3>2 DEF KeySorted, Covers
      <4>3. t # mid + 1
        BY <2>5, <2>6, <4>2
      <4>4. t < mid + 1 => LastKey(ids[t]) < FirstKey(i)
        BY <1>1, <2>4 DEF KeySorted
      <4>5. FirstKey(i) <= LastKey(i)
        BY <1>1, <2>4 DEF KeySorted
      <4>6. ~(t < mid + 1)
        BY <2>5, <2>6, <4>2, <4>4, <4>5
      <4> QED
        BY <2>4, <4>1, <4>3, <4>6
    <3>3. mid + 1 \in 0..m /\ mid + 1 <= r /\ r - (mid + 1) < r - l
      BY <1>1, <2>2
    <3>4. Encloses(ids, k, mid + 1, r)
      BY <3>2 DEF Encloses
    <3> QED
      BY <1>3, <3>1, <3>3, <3>4
  <2>7. CASE ~(LastKey(i) < k)
    <3>1. Narrow(ids, k, <<l, r>>) = <<l, mid>>
      BY <2>3, <2>7
    <3>2. k < FirstKey(i)
      BY <2>1, <2>5, <2>7 DEF Covers
    <3>3. ASSUME NEW t \in DOMAIN ids, Covers(ids[t], k) PROVE l < t /\ t <= mid
      <4>1. l < t /\ t <= r /\ t \in 1..m
        BY <1>1, <3>3 DEF Encloses
      <4>2. FirstKey(ids[t]) \in Nat /\ LastKey(ids[t]) \in Nat /\ FirstKey(ids[t]) <= k
        BY <3>3 DEF KeySorted, Covers
      <4>3. t # mid + 1
        BY <2>5, <3>2, <4>2
      <4>4. mid + 1 < t => LastKey(i) < FirstKey(ids[t])
        BY <1>1, <2>4 DEF KeySorted
      <4>5. FirstKey(i) <= LastKey(i)
        BY <1>1, <2>4 DEF KeySorted
      <4>6. ~(mid + 1 < t)
        BY <2>5, <3>2, <4>2, <4>4, <4>5
      <4> QED
        BY <2>2, <4>1, <4>3, <4>6
    <3>4. mid \in 0..m /\ l <= mid /\ mid - l < r - l
      BY <1>1, <2>2
    <3>5. Encloses(ids, k, l, mid)
      BY <3>3 DEF Encloses
    <3> QED
      BY <1>3, <3>1, <3>4, <3>5
  <2> QED
    BY <2>6, <2>7
<1> QED
  BY <1>2, <1>3

\* After n turns: the search is settled, or n files are dropped.
Searched(ids, k, at, n) ==
    \E l, r \in 0..Len(ids) :
        /\ at = <<l, r>> /\ l <= r /\ Encloses(ids, k, l, r)
        /\ Settled(ids, k, l, r) \/ r - l <= Len(ids) - n

\* Each turn keeps what the search knows.
LEMMA SearchFacts ==
    ASSUME NEW T, NEW ids \in Seq(T), NEW k \in Nat, KeySorted(ids)
    PROVE  Searched(ids, k, SearchTurns(ids, k)[Len(ids)], Len(ids))
<1> DEFINE m == Len(ids)
           at == SearchTurns(ids, k)
           P == {n \in 0..m : Searched(ids, k, at[n], n)}
<1>1. m \in Nat /\ DOMAIN ids = 1..m
  BY SeqBasics
<1>2. at[0] = <<0, m>> /\ \A n \in 0..(m - 1) : at[n + 1] = Narrow(ids, k, at[n])
  BY SearchUnfold
<1> HIDE DEF at
<1>3. 0 \in P
  <2>1. 0 \in 0..m /\ m \in 0..m /\ 0 <= m /\ m - 0 <= m - 0
    BY <1>1
  <2>2. Encloses(ids, k, 0, m)
    BY <1>1 DEF Encloses
  <2>3. Searched(ids, k, at[0], 0)
    BY <1>2, <2>1, <2>2 DEF Searched
  <2> QED
    BY <2>1, <2>3
<1>4. ASSUME NEW n \in 0..(m - 1), n \in P PROVE n + 1 \in P
  <2>1. PICK l, r \in 0..m :
          /\ at[n] = <<l, r>> /\ l <= r /\ Encloses(ids, k, l, r)
          /\ Settled(ids, k, l, r) \/ r - l <= m - n
    BY <1>4 DEF Searched
  <2>2. PICK l2, r2 \in 0..m :
          /\ Narrow(ids, k, <<l, r>>) = <<l2, r2>> /\ l2 <= r2 /\ Encloses(ids, k, l2, r2)
          /\ Settled(ids, k, l, r) => l2 = l /\ r2 = r
          /\ ~Settled(ids, k, l, r) => r2 - l2 < r - l
    BY <2>1, NarrowFacts
  <2>3. at[n + 1] = <<l2, r2>>
    BY <1>2, <2>1, <2>2
  <2>4. Settled(ids, k, l2, r2) \/ r2 - l2 <= m - (n + 1)
    <3>1. CASE Settled(ids, k, l, r)
      BY <2>2, <3>1
    <3>2. CASE ~Settled(ids, k, l, r)
      <4>1. r - l <= m - n /\ r2 - l2 < r - l
        BY <2>1, <2>2, <3>2
      <4>2. r2 - l2 <= m - (n + 1)
        BY <1>1, <4>1
      <4> QED
        BY <4>2
    <3> QED
      BY <3>1, <3>2
  <2>5. Searched(ids, k, at[n + 1], n + 1)
    BY <2>2, <2>3, <2>4 DEF Searched
  <2>6. n + 1 \in 0..m
    BY <1>1
  <2> QED
    BY <2>5, <2>6
<1>5. \A n \in 0..m : n \in P
  <2> HIDE DEF P, m
  <2> QED
    BY <1>1, <1>3, <1>4, UpTo
<1>6. m \in 0..m
  BY <1>1
<1> QED
  BY <1>5, <1>6 DEF at

\* The search ends in a file of the level, and in the one that has the key.
LEMMA LocatedFacts ==
    ASSUME NEW T, NEW ids \in Seq(T), NEW k \in Nat, KeySorted(ids)
    PROVE  /\ Located(ids, k) \in Seq(T) /\ Len(Located(ids, k)) <= 1
           /\ Range(Located(ids, k)) \subseteq Range(ids)
           /\ \A t \in DOMAIN ids : Covers(ids[t], k) => ids[t] \in Range(Located(ids, k))
<1> DEFINE m == Len(ids)
           at == SearchTurns(ids, k)[m]
<1>1. m \in Nat /\ DOMAIN ids = 1..m /\ \A p \in 1..m : ids[p] \in T
  BY SeqBasics
<1>2. Searched(ids, k, at, m)
  BY SearchFacts
<1>3. Located(ids, k) = IF at[1] >= at[2] THEN <<>> ELSE <<ids[Middle(at[1], at[2]) + 1]>>
  BY DEF Located, Middle
<1> HIDE DEF at
<1>4. PICK l, r \in 0..m :
        /\ at = <<l, r>> /\ l <= r /\ Encloses(ids, k, l, r)
        /\ Settled(ids, k, l, r) \/ r - l <= m - m
  BY <1>2 DEF Searched
<1>5. at[1] = l /\ at[2] = r
  BY <1>4
<1>6. CASE l >= r
  <2>1. Located(ids, k) = <<>>
    BY <1>3, <1>5, <1>6
  <2>2. \A t \in DOMAIN ids : ~Covers(ids[t], k)
    <3> SUFFICES ASSUME NEW t \in DOMAIN ids, Covers(ids[t], k) PROVE FALSE
      OBVIOUS
    <3>1. l < t /\ t <= r /\ t \in 1..m
      BY <1>1, <1>4 DEF Encloses
    <3> QED
      BY <1>1, <1>6, <3>1
  <2>3. <<>> \in Seq(T) /\ Len(<<>>) <= 1 /\ Range(<<>>) = {}
    BY DEF Range
  <2> QED
    BY <2>1, <2>2, <2>3
<1>7. CASE l < r
  <2> DEFINE p == Middle(l, r) + 1
  <2>1. p \in 1..m
    <3>1. Middle(l, r) \in Nat /\ Middle(l, r) < r
      BY <1>1, <1>7, MiddleFacts DEF Middle
    <3> QED
      BY <1>1, <3>1
  <2>2. ~(l >= r)
    BY <1>1, <1>7
  <2>3. Located(ids, k) = <<ids[p]>>
    BY <1>3, <1>5, <2>2
  <2>4. Settled(ids, k, l, r)
    <3>1. ~(r - l <= m - m)
      BY <1>1, <1>7
    <3> QED
      BY <1>4, <3>1
  <2>5. Covers(ids[p], k)
    BY <2>2, <2>4 DEF Settled
  <2> HIDE DEF p
  <2>6. ASSUME NEW t \in DOMAIN ids, Covers(ids[t], k) PROVE t = p
    <3>1. /\ FirstKey(ids[t]) \in Nat /\ LastKey(ids[t]) \in Nat /\ FirstKey(ids[p]) \in Nat
          /\ LastKey(ids[p]) \in Nat /\ FirstKey(ids[t]) <= k /\ k <= LastKey(ids[t])
          /\ FirstKey(ids[p]) <= k /\ k <= LastKey(ids[p])
      BY <1>1, <2>1, <2>5, <2>6 DEF KeySorted, Covers
    <3>2. ~(LastKey(ids[t]) < FirstKey(ids[p])) /\ ~(LastKey(ids[p]) < FirstKey(ids[t]))
      BY <3>1
    <3>3. ~(t < p) /\ ~(p < t)
      BY <1>1, <2>1, <3>2 DEF KeySorted
    <3> QED
      BY <1>1, <2>1, <3>3
  <2>7. ids[p] \in Range(ids) /\ ids[p] \in T
    BY <1>1, <2>1 DEF Range
  <2> DEFINE e == ids[p]
  <2> HIDE DEF e
  <2>8. <<e>> \in Seq(T) /\ Len(<<e>>) <= 1 /\ Range(<<e>>) = {e}
    BY <2>7 DEF Range, e
  <2> QED
    BY <2>3, <2>6, <2>7, <2>8 DEF e
<1> QED
  BY <1>1, <1>6, <1>7

-----------------------------------------------------------------------------
(* sst_get_ returns the newest record.                                      *)

\* The records of A that a lookup of key k within cap may return.
Hits(A, k, cap) == {r \in A : r.key = k /\ (cap = 0 \/ r.ver <= cap)}

\* x has the largest version in H and, of that version, the last write.
Tops(x, H) == x \in H /\ \A s \in H : s.ver < x.ver \/ (s.ver = x.ver /\ s.n <= x.n)

\* What a lookup that sees the records H returns.
Answers(x, H) == IF H = {} THEN x = Missing ELSE Tops(x, H)

\* The records of one key within the cap have one newest record.
LEMMA OneAnswer ==
    ASSUME NEW A \in SUBSET Recs, NEW k, NEW cap, NEW x, NEW y,
           Answers(x, Hits(A, k, cap)), Answers(y, Hits(A, k, cap))
    PROVE  x = y
<1> DEFINE H == Hits(A, k, cap)
<1>1. CASE H = {}
  BY <1>1 DEF Answers
<1>2. CASE H # {}
  <2>1. Tops(x, H) /\ Tops(y, H)
    BY <1>2 DEF Answers
  <2>2. x \in Recs /\ y \in Recs /\ x.key = y.key
    BY <2>1 DEF Tops, Hits
  <2>3. /\ y.ver < x.ver \/ (y.ver = x.ver /\ y.n <= x.n)
        /\ x.ver < y.ver \/ (x.ver = y.ver /\ x.n <= y.n)
    BY <2>1 DEF Tops
  <2>4. x.ver \in Nat /\ y.ver \in Nat /\ x.n \in Nat /\ y.n \in Nat
    BY <2>2, RecFields
  <2>5. x.ver = y.ver /\ x.n = y.n
    BY <2>3, <2>4
  <2> QED
    BY <2>2, <2>5, RecFields DEF SameSlot
<1> QED
  BY <1>1, <1>2

\* A lookup in one table finds the newest record that it has.
LEMMA InTableFacts ==
    ASSUME NEW s \in Seq(Recs), Ordered(s, AheadRel), NEW k, NEW cap
    PROVE  Answers(InTable(s, k, cap), Hits(Range(s), k, cap))
<1> DEFINE m == Len(s)
           places == {p \in DOMAIN s : s[p].key = k /\ (cap = 0 \/ s[p].ver <= cap)}
           H == Hits(Range(s), k, cap)
<1>1. s \in Seq(Recs) /\ Ordered(s, AheadRel)
  OBVIOUS
<1>2. InTable(s, k, cap) = IF places = {} THEN Missing ELSE s[Min(places)]
  BY DEF InTable
<1>3. H = {r \in Range(s) : r.key = k /\ (cap = 0 \/ r.ver <= cap)}
  BY DEF Hits
<1> HIDE DEF H
<1>4. m \in Nat /\ DOMAIN s = 1..m /\ \A p \in 1..m : s[p] \in Recs
  BY <1>1, SeqBasics
<1>5. (\A p \in places : s[p] \in H) /\ \A r \in H : \E p \in places : r = s[p]
  BY <1>3 DEF Range
<1>6. CASE places = {}
  <2>1. H = {}
    BY <1>5, <1>6
  <2> QED
    BY <1>2, <1>6, <2>1 DEF Answers, H
<1>7. CASE places # {}
  <2>1. places \subseteq Nat /\ places \subseteq 1..m
    BY <1>4
  <2> DEFINE q == Min(places)
  <2>2. q \in places /\ \A p \in places : q <= p
    <3> HIDE DEF places
    <3> QED
      BY <1>7, <2>1, MinNat
  <2> HIDE DEF q
  <2>3. ASSUME NEW p \in places
        PROVE  s[p].ver < s[q].ver \/ (s[p].ver = s[q].ver /\ s[p].n <= s[q].n)
    <3>1. p \in 1..m /\ q \in 1..m /\ s[p].key = s[q].key /\ q <= p
      BY <2>1, <2>2
    <3>2. p = q \/ q < p
      BY <1>4, <3>1
    <3> DEFINE x == s[q]
               y == s[p]
    <3>3. x = y \/ Ahead(x, y)
      BY <1>1, <1>4, <3>1, <3>2 DEF Ordered, AheadRel
    <3>4. x \in Recs /\ y \in Recs /\ x.key = y.key
      BY <1>4, <3>1
    <3> HIDE DEF x, y
    <3>5. /\ x.ver \in Nat /\ y.ver \in Nat /\ x.n \in Nat /\ y.n \in Nat
          /\ x.key \in Nat /\ y.key \in Nat
      BY <3>4, RecFields
    <3>6. y.ver < x.ver \/ (y.ver = x.ver /\ y.n <= x.n)
      BY <3>3, <3>4, <3>5 DEF Ahead, Before, SameSlot
    <3> QED
      BY <3>6 DEF x, y
  <2>4. Tops(s[q], H)
    BY <1>5, <2>2, <2>3 DEF Tops
  <2>5. H # {} /\ InTable(s, k, cap) = s[q]
    BY <1>2, <1>5, <1>7, <2>2 DEF q
  <2> QED
    BY <2>4, <2>5 DEF Answers, H
<1> QED
  BY <1>6, <1>7

\* What is found first is kept, but for a larger version: with the newer records
\* first that is the newest of both.
LEMMA BetterFacts ==
    ASSUME NEW A \in SUBSET Recs, NEW B \in SUBSET Recs, Newer(A, B), NEW k, NEW cap, NEW x, NEW y,
           Answers(x, Hits(A, k, cap)), Answers(y, Hits(B, k, cap))
    PROVE  Answers(Better(x, y), Hits(A \cup B, k, cap))
<1> DEFINE G == Hits(A, k, cap)
           H == Hits(B, k, cap)
           z == Better(x, y)
<1>1. Hits(A \cup B, k, cap) = G \cup H /\ G \subseteq Recs /\ H \subseteq Recs
  BY DEF Hits
<1>2. \A r \in G, s \in H : r.ver = s.ver => r.n > s.n
  BY DEF Hits, Newer, SameSlot
<1>3. \A r \in Recs : r.ver \in Nat /\ r.ver > 0 /\ r.n \in Nat
  BY RecFields
<1>4. Missing.ver = 0
  BY DEF Missing
<1>5. Answers(x, G) /\ Answers(y, H)
  OBVIOUS
<1> HIDE DEF G, H
<1>6. CASE G = {} /\ H = {}
  <2>1. x = Missing /\ y = Missing
    BY <1>5, <1>6 DEF Answers
  <2> QED
    BY <1>1, <1>6, <2>1 DEF Answers, Better
<1>7. CASE G = {} /\ H # {}
  <2>1. x = Missing /\ Tops(y, H) /\ y \in Recs
    BY <1>1, <1>5, <1>7 DEF Answers, Tops
  <2>2. z = y
    BY <1>3, <1>4, <2>1 DEF Better
  <2>3. G \cup H = H
    BY <1>7
  <2> QED
    BY <1>1, <1>7, <2>1, <2>2, <2>3 DEF Answers
<1>8. CASE G # {} /\ H = {}
  <2>1. y = Missing /\ Tops(x, G) /\ x \in Recs
    BY <1>1, <1>5, <1>8 DEF Answers, Tops
  <2>2. z = x
    BY <1>3, <1>4, <2>1 DEF Better
  <2>3. G \cup H = G
    BY <1>8
  <2> QED
    BY <1>1, <1>8, <2>1, <2>2, <2>3 DEF Answers
<1>9. CASE G # {} /\ H # {}
  <2>1. Tops(x, G) /\ Tops(y, H) /\ x \in G /\ y \in H /\ x \in Recs /\ y \in Recs
    BY <1>1, <1>5, <1>9 DEF Answers, Tops
  <2>2. x.ver \in Nat /\ y.ver \in Nat /\ x.n \in Nat /\ y.n \in Nat
    BY <1>3, <2>1
  <2>3. CASE y.ver > x.ver
    <3>1. z = y
      BY <2>3 DEF Better
    <3>2. ASSUME NEW s \in G PROVE s.ver < y.ver
      <4>1. s.ver < x.ver \/ s.ver = x.ver
        BY <2>1 DEF Tops
      <4>2. s.ver \in Nat
        BY <1>1, <1>3
      <4> QED
        BY <2>2, <2>3, <4>1, <4>2
    <3>3. Tops(y, G \cup H)
      BY <2>1, <3>2 DEF Tops
    <3> QED
      BY <1>1, <1>9, <3>1, <3>3 DEF Answers
  <2>4. CASE ~(y.ver > x.ver)
    <3>1. z = x
      BY <2>4 DEF Better
    <3>2. ASSUME NEW s \in H PROVE s.ver < x.ver \/ (s.ver = x.ver /\ s.n <= x.n)
      <4>1. s.ver < y.ver \/ s.ver = y.ver
        BY <2>1 DEF Tops
      <4>2. s.ver \in Nat /\ s.n \in Nat
        BY <1>1, <1>3
      <4>3. s.ver = x.ver => x.n > s.n
        BY <1>2, <2>1
      <4> QED
        BY <2>2, <2>4, <4>1, <4>2, <4>3
    <3>3. Tops(x, G \cup H)
      BY <2>1, <3>2 DEF Tops
    <3> QED
      BY <1>1, <1>9, <3>1, <3>3 DEF Answers
  <2> QED
    BY <2>3, <2>4
<1> QED
  BY <1>6, <1>7, <1>8, <1>9

\* Each turn looks into one more table.
LEMMA BestUnfold ==
    ASSUME NEW T, NEW tables \in Seq(T), NEW k, NEW cap
    PROVE  /\ BestTurns(tables, k, cap)[0] = Missing
           /\ \A n \in 0..(Len(tables) - 1) :
                BestTurns(tables, k, cap)[n + 1] =
                  Better(BestTurns(tables, k, cap)[n], InTable(tables[n + 1], k, cap))
<1> DEFINE m == Len(tables)
           x(n) == InTable(tables[n], k, cap)
           S == {Missing} \cup {x(n) : n \in 1..m}
           F(n, p) == Better(p, x(n))
           G(f) == [n \in 0..m |-> IF n = 0 THEN Missing ELSE F(n, f[n - 1])]
           step == [y \in Nat \X S |-> IF y[1] + 1 \in 1..m THEN F(y[1] + 1, y[2]) ELSE y[2]]
           best == CHOOSE f : f = G(f)
<1>1. m \in Nat
  BY SeqBasics
<1>2. BestTurns(tables, k, cap) = best
  BY DEF BestTurns
<1>3. \A n \in 1..m : \A p \in S : F(n, p) \in S
  <2> HIDE DEF x
  <2> QED
    BY DEF Better
<1> HIDE DEF F
<1>4. step \in [Nat \X S -> S] /\ Missing \in S
  <2>1. Missing \in S
    OBVIOUS
  <2> HIDE DEF S
  <2> QED
    BY <1>3, <2>1
<1>5. PICK f \in [0..m -> S] :
         f[0] = Missing /\ \A n \in 0..(m - 1) : f[n + 1] = step[<<n, f[n]>>]
  <2> HIDE DEF step, m, S
  <2>1. Unrolled(S, Missing, step, m)
    BY <1>1, <1>4, Recursion
  <2> QED
    BY <2>1 DEF Unrolled
<1>6. f = G(f)
  <2> HIDE DEF S
  <2>1. ASSUME NEW n \in 0..m, n # 0 PROVE f[n] = F(n, f[n - 1])
    <3>1. n - 1 \in 0..(m - 1) /\ (n - 1) + 1 = n /\ n - 1 \in 0..m /\ n - 1 \in Nat /\ n \in 1..m
      BY <1>1, <2>1
    <3>2. f[n - 1] \in S
      BY <3>1
    <3>3. f[(n - 1) + 1] = step[<<n - 1, f[n - 1]>>]
      BY <1>5, <3>1
    <3>4. step[<<n - 1, f[n - 1]>>] = F((n - 1) + 1, f[n - 1])
      BY <3>1, <3>2
    <3> QED
      BY <3>1, <3>3, <3>4
  <2>2. \A n \in 0..m : f[n] = IF n = 0 THEN Missing ELSE F(n, f[n - 1])
    BY <1>5, <2>1
  <2>3. f = [n \in 0..m |-> f[n]]
    OBVIOUS
  <2> QED
    BY <2>2, <2>3
<1>7. best = G(best)
  <2>1. \E g : g = G(g)
    BY <1>6, Zenon
  <2> HIDE DEF G
  <2> QED
    BY <2>1, Zenon
<1> HIDE DEF best
<1>8. \A n \in 0..m : best[n] = IF n = 0 THEN Missing ELSE F(n, best[n - 1])
  <2>1. best = [n \in 0..m |-> IF n = 0 THEN Missing ELSE F(n, best[n - 1])]
    BY <1>7, Zenon
  <2> QED
    BY <2>1
<1>9. best[0] = Missing
  BY <1>1, <1>8
<1>10. ASSUME NEW n \in 0..(m - 1) PROVE best[n + 1] = F(n + 1, best[n])
  <2>1. n + 1 \in 0..m /\ n + 1 # 0 /\ (n + 1) - 1 = n
    BY <1>1
  <2> QED
    BY <1>8, <2>1
<1> QED
  BY <1>2, <1>9, <1>10 DEF F

\* The records of the first file are newer where both have a key and version.
NewerRel == {p \in (DOMAIN files) \X (DOMAIN files) : Newer(RecsOf(p[1]), RecsOf(p[2]))}

\* The pairs that the relation has.
LEMMA NewerPairs ==
    ASSUME NEW i \in DOMAIN files, NEW j \in DOMAIN files
    PROVE  <<i, j>> \in NewerRel <=> Newer(RecsOf(i), RecsOf(j))
BY DEF NewerRel

\* Tables in order, of which the earlier have the newer records.
NewestFirst(tables) ==
    /\ tables \in Seq(Seq(Recs))
    /\ \A i \in DOMAIN tables : Ordered(tables[i], AheadRel)
    /\ \A i, j \in DOMAIN tables : i < j => Newer(Range(tables[i]), Range(tables[j]))

\* Going through tables, the newer first, gives the newest record of all.
LEMMA BestFacts ==
    ASSUME NEW tables, NewestFirst(tables), NEW k, NEW cap
    PROVE  Answers(Best(tables, k, cap),
                   Hits(UNION {Range(tables[i]) : i \in DOMAIN tables}, k, cap))
<1> DEFINE m == Len(tables)
           best == BestTurns(tables, k, cap)
           x(n) == InTable(tables[n], k, cap)
           Seen(n) == UNION {Range(tables[q]) : q \in 1..n}
           P == {n \in 0..m : Answers(best[n], Hits(Seen(n), k, cap))}
<1>1. m \in Nat /\ DOMAIN tables = 1..m /\ \A q \in 1..m : tables[q] \in Seq(Recs)
  BY SeqBasics DEF NewestFirst
<1>2. best[0] = Missing /\ \A n \in 0..(m - 1) : best[n + 1] = Better(best[n], x(n + 1))
  <2>1. tables \in Seq(Seq(Recs))
    BY DEF NewestFirst
  <2> QED
    BY <2>1, BestUnfold
<1> HIDE DEF best
<1>3. ASSUME NEW q \in 1..m
      PROVE  Range(tables[q]) \subseteq Recs /\ Answers(x(q), Hits(Range(tables[q]), k, cap))
  <2> DEFINE s == tables[q]
  <2>1. s \in Seq(Recs) /\ Ordered(s, AheadRel)
    BY <1>1 DEF NewestFirst
  <2> HIDE DEF s
  <2>2. Range(s) \subseteq Recs /\ Answers(InTable(s, k, cap), Hits(Range(s), k, cap))
    BY <2>1, FiniteElements, InTableFacts
  <2> QED
    BY <2>2 DEF s
<1> HIDE DEF x
<1>4. 0 \in P
  <2>1. 1..0 = {}
    OBVIOUS
  <2>2. Seen(0) = {} /\ 0 \in 0..m
    BY <1>1, <2>1
  <2>3. Hits(Seen(0), k, cap) = {}
    BY <2>2 DEF Hits
  <2> QED
    BY <1>2, <2>2, <2>3 DEF Answers
<1>5. ASSUME NEW n \in 0..(m - 1), n \in P PROVE n + 1 \in P
  <2> DEFINE A == Seen(n)
             B == Range(tables[n + 1])
  <2>1. n + 1 \in 0..m /\ n + 1 \in 1..m /\ n \in Nat /\ \A q \in 1..n : q \in 1..m /\ q < n + 1
    BY <1>1
  <2>2. A \in SUBSET Recs /\ B \in SUBSET Recs
    BY <1>3, <2>1
  <2>3. Newer(A, B)
    <3> SUFFICES ASSUME NEW q \in 1..n PROVE Newer(Range(tables[q]), B)
      BY DEF Newer
    <3> QED
      BY <1>1, <2>1 DEF NewestFirst
  <2>4. Seen(n + 1) = A \cup B
    <3>1. 1..(n + 1) = (1..n) \cup {n + 1}
      BY <2>1
    <3> QED
      BY <3>1
  <2>5. Answers(best[n], Hits(A, k, cap))
    BY <1>5
  <2>6. Answers(x(n + 1), Hits(B, k, cap))
    BY <1>3, <2>1
  <2> HIDE DEF A, B, Seen
  <2>7. Answers(Better(best[n], x(n + 1)), Hits(A \cup B, k, cap))
    BY <2>2, <2>3, <2>5, <2>6, BetterFacts
  <2>8. Answers(best[n + 1], Hits(Seen(n + 1), k, cap))
    BY <1>2, <2>4, <2>7
  <2> QED
    BY <2>1, <2>8
<1>6. \A n \in 0..m : n \in P
  <2> HIDE DEF P, m
  <2> QED
    BY <1>1, <1>4, <1>5, UpTo
<1>7. Answers(best[m], Hits(Seen(m), k, cap))
  <2>1. m \in 0..m
    BY <1>1
  <2> QED
    BY <1>6, <2>1
<1>8. Seen(m) = UNION {Range(tables[i]) : i \in DOMAIN tables}
  BY <1>1
<1> QED
  BY <1>7, <1>8 DEF best, Best

\* The files of a level below 0 are sorted by key.
LEMMA LevelSorted ==
    ASSUME FileShapes, ListsNameFiles(lists), FilesWhole, Exact(lists, DOMAIN files),
           Layered(DOMAIN files), NEW l \in 1..MaxLevel
    PROVE  KeySorted(lists[l])
<1>1. l \in 0..MaxLevel
  BY BoundsAssumption
<1>2. ASSUME NEW p \in DOMAIN lists[l]
      PROVE  /\ FirstKey(lists[l][p]) \in Nat /\ LastKey(lists[l][p]) \in Nat
             /\ FirstKey(lists[l][p]) <= LastKey(lists[l][p])
  <2> DEFINE i == lists[l][p]
  <2>1. i \in DOMAIN files
    BY <1>1 DEF Exact, Range
  <2> HIDE DEF i
  <2>2. FirstKey(i) \in Nat /\ LastKey(i) \in Nat
    BY <2>1, KeyBounds
  <2>3. PICK r \in RecsOf(i) : r.key = LastKey(i)
    BY <2>1, KeyBounds
  <2>4. FirstKey(i) <= r.key
    BY <2>1, KeyBounds
  <2> QED
    BY <2>2, <2>3, <2>4 DEF i
<1>3. \A p, q \in DOMAIN lists[l] : p < q => LastKey(lists[l][p]) < FirstKey(lists[l][q])
  BY LevelKeys
<1> QED
  BY <1>2, <1>3 DEF KeySorted

\* A lookup visits the newer files first, and misses no file with the key.
LEMMA CandidatesFacts ==
    ASSUME FileShapes, ListsNameFiles(lists), FilesWhole, Exact(lists, DOMAIN files),
           Layered(DOMAIN files), NEW k \in Nat
    PROVE  /\ Candidates(k) \in Seq(Nat)
           /\ Range(Candidates(k)) \subseteq DOMAIN files
           /\ Ordered(Candidates(k), NewerRel)
           /\ \A i \in DOMAIN files : \A r \in RecsOf(i) : r.key = k => i \in Range(Candidates(k))
<1> DEFINE loc == [l \in 1..MaxLevel |-> Located(lists[l], k)]
           top == lists[0]
           low == FlattenSeq(loc)
           At(l) == {i \in DOMAIN files : files[i].level = l}
<1>1. MaxLevel \in Nat /\ 0 \in 0..MaxLevel /\ \A l \in 1..MaxLevel : l \in 0..MaxLevel /\ l \in Nat /\ l # 0
  BY BoundsAssumption
<1>2. \A l \in 0..MaxLevel : lists[l] \in Seq(Nat) /\ Range(lists[l]) = At(l)
  BY DEF ListsNameFiles, Exact
<1>3. Candidates(k) = top \o low
  BY DEF Candidates
<1>4. ASSUME NEW l \in 1..MaxLevel
      PROVE  /\ loc[l] \in Seq(Nat) /\ Len(loc[l]) <= 1 /\ Range(loc[l]) \subseteq At(l)
             /\ \A t \in DOMAIN lists[l] : Covers(lists[l][t], k) => lists[l][t] \in Range(loc[l])
  <2> DEFINE ids == lists[l]
  <2>1. ids \in Seq(Nat) /\ KeySorted(ids) /\ Range(ids) = At(l)
    BY <1>1, <1>2, LevelSorted
  <2>2. loc[l] = Located(ids, k)
    OBVIOUS
  <2> HIDE DEF ids, loc, At
  <2>3. /\ Located(ids, k) \in Seq(Nat) /\ Len(Located(ids, k)) <= 1
        /\ Range(Located(ids, k)) \subseteq Range(ids)
        /\ \A t \in DOMAIN ids : Covers(ids[t], k) => ids[t] \in Range(Located(ids, k))
    BY <2>1, LocatedFacts
  <2> QED
    BY <2>1, <2>2, <2>3 DEF ids
<1>5. loc \in Seq(Seq(Nat)) /\ DOMAIN loc = 1..MaxLevel
  <2>1. DOMAIN loc = 1..MaxLevel /\ loc = [l \in 1..MaxLevel |-> loc[l]]
    OBVIOUS
  <2> HIDE DEF loc
  <2>2. loc \in [1..MaxLevel -> Seq(Nat)]
    BY <1>4, <2>1
  <2> QED
    BY <1>1, <2>1, <2>2
<1> HIDE DEF loc
<1>6. ASSUME NEW i \in DOMAIN files, NEW j \in DOMAIN files, files[i].level < files[j].level
      PROVE  <<i, j>> \in NewerRel
  <2>1. Newer(RecsOf(i), RecsOf(j))
    BY <1>6 DEF Layered
  <2> QED
    BY <2>1, NewerPairs
<1>7. \A l \in 1..MaxLevel : Ordered(loc[l], NewerRel)
  <2> SUFFICES ASSUME NEW l \in 1..MaxLevel, NEW p \in DOMAIN loc[l], NEW q \in DOMAIN loc[l], p < q
               PROVE  FALSE
    BY DEF Ordered
  <2>1. Len(loc[l]) \in Nat /\ DOMAIN loc[l] = 1..Len(loc[l]) /\ Len(loc[l]) <= 1
    BY <1>4, SeqBasics
  <2> QED
    BY <2>1
<1>8. \A l, h \in 1..MaxLevel : l < h => AllBefore(Range(loc[l]), Range(loc[h]), NewerRel)
  BY <1>4, <1>6 DEF AllBefore
<1>9. /\ low \in Seq(Nat) /\ Range(low) = UNION {Range(loc[l]) : l \in DOMAIN loc}
      /\ Ordered(low, NewerRel)
  <2>1. /\ FlattenSeq(loc) \in Seq(Nat)
        /\ Range(FlattenSeq(loc)) = UNION {Range(loc[l]) : l \in DOMAIN loc}
        /\ (\A l \in DOMAIN loc : Ordered(loc[l], NewerRel))
             /\ (\A l, h \in DOMAIN loc : l < h => AllBefore(Range(loc[l]), Range(loc[h]), NewerRel))
           => Ordered(FlattenSeq(loc), NewerRel)
    BY <1>5, FlattenFacts
  <2> QED
    BY <1>5, <1>7, <1>8, <2>1
<1> HIDE DEF low
<1>10. top \in Seq(Nat) /\ Range(top) = At(0)
  BY <1>1, <1>2
<1>11. Ordered(top, NewerRel)
  <2> SUFFICES ASSUME NEW p \in DOMAIN top, NEW q \in DOMAIN top, p < q
               PROVE  <<top[p], top[q]>> \in NewerRel
    BY DEF Ordered
  <2>1. top[p] > top[q]
    BY <1>1 DEF Exact
  <2>2. top[p] \in At(0) /\ top[q] \in At(0)
    BY <1>10 DEF Range
  <2> DEFINE i == top[p]
             j == top[q]
  <2>3. i \in DOMAIN files /\ j \in DOMAIN files /\ files[i].level = 0 /\ files[j].level = 0 /\ i > j
    BY <2>1, <2>2
  <2> HIDE DEF i, j
  <2>4. Newer(RecsOf(i), RecsOf(j))
    BY <2>3 DEF Layered
  <2>5. <<i, j>> \in NewerRel
    BY <2>3, <2>4, NewerPairs
  <2> QED
    BY <2>5 DEF i, j
<1>12. AllBefore(Range(top), Range(low), NewerRel)
  <2> SUFFICES ASSUME NEW i \in At(0), NEW l \in 1..MaxLevel, NEW j \in Range(loc[l])
               PROVE  <<i, j>> \in NewerRel
    BY <1>5, <1>9, <1>10 DEF AllBefore
  <2>1. j \in At(l)
    BY <1>4
  <2>2. files[i].level < files[j].level
    BY <1>1, <2>1
  <2> QED
    BY <1>6, <2>1, <2>2
<1> HIDE DEF top
<1>13. /\ top \o low \in Seq(Nat) /\ Range(top \o low) = Range(top) \cup Range(low)
       /\ Ordered(top \o low, NewerRel)
  BY ZenonT(40), <1>9, <1>10, <1>11, <1>12, JoinFacts
<1>14. Range(top \o low) \subseteq DOMAIN files
  BY <1>4, <1>5, <1>9, <1>10, <1>13
<1>15. ASSUME NEW i \in DOMAIN files, NEW r \in RecsOf(i), r.key = k PROVE i \in Range(top \o low)
  <2>1. files[i].level \in 0..MaxLevel
    BY FileFields
  <2>2. CASE files[i].level = 0
    BY <1>10, <1>13, <2>2
  <2>3. CASE files[i].level # 0
    <3> DEFINE l == files[i].level
    <3>1. l \in 1..MaxLevel
      BY <2>1, <2>3
    <3>2. i \in Range(lists[l])
      BY <1>2, <2>1
    <3> HIDE DEF l
    <3>3. PICK t \in DOMAIN lists[l] : lists[l][t] = i
      BY <3>2 DEF Range
    <3>4. Covers(i, k)
      BY <1>15, KeyBounds DEF Covers
    <3>5. i \in Range(loc[l])
      BY <1>4, <3>1, <3>3, <3>4
    <3> QED
      BY <1>5, <1>9, <1>13, <3>1, <3>5
  <2> QED
    BY <2>2, <2>3
<1> QED
  BY <1>3, <1>13, <1>14, <1>15

\* sst_get_ returns the newest record on disk.
LEMMA SstGetFacts ==
    ASSUME FileShapes, ListsNameFiles(lists), FilesWhole, Exact(lists, DOMAIN files),
           Layered(DOMAIN files), NEW k \in Nat, NEW cap
    PROVE  Answers(SstGet(k, cap), Hits(UNION {RecsOf(i) : i \in DOMAIN files}, k, cap))
<1> DEFINE ids == Candidates(k)
           tables == [p \in DOMAIN ids |-> files[ids[p]].recs]
           A == UNION {Range(tables[p]) : p \in DOMAIN tables}
<1>1. /\ ids \in Seq(Nat) /\ Range(ids) \subseteq DOMAIN files /\ Ordered(ids, NewerRel)
      /\ \A i \in DOMAIN files : \A r \in RecsOf(i) : r.key = k => i \in Range(ids)
  BY CandidatesFacts
<1>2. SstGet(k, cap) = Best(tables, k, cap)
  BY DEF SstGet
<1> HIDE DEF ids
<1>3. Len(ids) \in Nat /\ DOMAIN ids = 1..Len(ids) /\ \A p \in DOMAIN ids : ids[p] \in DOMAIN files
  BY <1>1, SeqBasics DEF Range
<1>4. ASSUME NEW p \in DOMAIN ids
      PROVE  tables[p] \in Seq(Recs) /\ Ordered(tables[p], AheadRel) /\ Range(tables[p]) = RecsOf(ids[p])
  <2> DEFINE i == ids[p]
  <2>1. i \in DOMAIN files /\ tables[p] = files[i].recs
    BY <1>3
  <2> HIDE DEF i, tables
  <2>2. files[i].recs \in Seq(Recs) /\ Ordered(files[i].recs, AheadRel)
    BY <2>1, FileFields DEF FilesWhole
  <2> QED
    BY <2>1, <2>2 DEF RecsOf, i
<1>5. DOMAIN tables = DOMAIN ids
  OBVIOUS
<1>6. NewestFirst(tables)
  <2>1. tables \in Seq(Seq(Recs))
    <3>1. tables = [p \in 1..Len(ids) |-> tables[p]]
      BY <1>3
    <3> HIDE DEF tables
    <3>2. tables \in [1..Len(ids) -> Seq(Recs)]
      BY <1>3, <1>4, <3>1
    <3> QED
      BY <1>3, <3>2
  <2>2. ASSUME NEW p \in DOMAIN ids, NEW q \in DOMAIN ids, p < q
        PROVE  Newer(Range(tables[p]), Range(tables[q]))
    <3>1. <<ids[p], ids[q]>> \in NewerRel
      BY <1>1, <2>2 DEF Ordered
    <3>2. Newer(RecsOf(ids[p]), RecsOf(ids[q]))
      BY <1>3, <3>1, NewerPairs
    <3> HIDE DEF tables
    <3> QED
      BY <1>4, <3>2
  <2> HIDE DEF tables
  <2> QED
    BY <1>4, <1>5, <2>1, <2>2 DEF NewestFirst
<1>7. Answers(Best(tables, k, cap), Hits(A, k, cap))
  <2> HIDE DEF tables
  <2> QED
    BY <1>6, BestFacts
<1>8. Hits(A, k, cap) = Hits(UNION {RecsOf(i) : i \in DOMAIN files}, k, cap)
  <2> HIDE DEF tables
  <2>1. A \subseteq UNION {RecsOf(i) : i \in DOMAIN files}
    BY <1>3, <1>4, <1>5
  <2>2. ASSUME NEW i \in DOMAIN files, NEW r \in RecsOf(i), r.key = k PROVE r \in A
    <3>1. PICK p \in DOMAIN ids : ids[p] = i
      BY <1>1, <2>2 DEF Range
    <3> QED
      BY <1>4, <1>5, <3>1
  <2> QED
    BY <2>1, <2>2 DEF Hits
<1> QED
  BY <1>2, <1>7, <1>8

-----------------------------------------------------------------------------
(* The memtable, cut into tables anywhere.                                  *)

\* The table has the writes from a + 1 to e, and of each key and version the last.
HoldsWrites(table, a, e) ==
    /\ table \in Seq(Recs) /\ Ordered(table, AheadRel)
    /\ \A r \in Range(table) : \E p \in DOMAIN mem : a < p /\ p <= e /\ r = mem[p]
    /\ \A p \in DOMAIN mem : a < p /\ p <= e =>
         \E r \in Range(table) : SameSlot(r, mem[p]) /\ mem[p].n <= r.n

\* A run of writes as a table.
LEMMA RunFacts ==
    ASSUME MemShape, MemNewer, NEW e \in 0..Len(mem), NEW a \in 0..e
    PROVE  HoldsWrites(TableOf(SubSeq(mem, a + 1, e)), a, e)
<1> DEFINE run == SubSeq(mem, a + 1, e)
           table == TableOf(run)
           base == writes - Len(mem)
<1>1. /\ mem \in Seq(Recs) /\ writes \in Nat /\ Len(mem) <= writes
      /\ \A p \in DOMAIN mem : mem[p].n = base + p
  BY DEF MemShape, MemNewer
<1>2. Len(mem) \in Nat /\ DOMAIN mem = 1..Len(mem) /\ a \in Nat /\ e \in Nat /\ a <= e /\ base \in Nat
  BY <1>1, SeqBasics
<1>3. run \in Seq(Recs) /\ Len(run) = e - a /\ \A i \in 1..(e - a) : run[i] = mem[a + i]
  <2>1. /\ run \in Seq(Recs) /\ Len(run) = IF a < e THEN e - a ELSE 0
        /\ \A i \in 1..(e - a) : run[i] = mem[a + i]
    BY <1>1, <1>2, CutFacts
  <2>2. (IF a < e THEN e - a ELSE 0) = e - a
    BY <1>2
  <2> QED
    BY <2>1, <2>2
<1> HIDE DEF run, base
<1>4. DOMAIN run = 1..(e - a)
  BY <1>3, SeqBasics
<1>5. table \in Seq(Recs) /\ Range(table) = Kept(run) /\ Ordered(table, BeforeRel)
  BY <1>3, TableFacts
<1> HIDE DEF table
<1>6. Ordered(table, AheadRel)
  BY <1>5 DEF Ordered, BeforeRel, AheadRel, Ahead
<1>7. \A r \in Range(run) : \E p \in DOMAIN mem : a < p /\ p <= e /\ r = mem[p]
  <2> SUFFICES ASSUME NEW i \in 1..(e - a)
               PROVE  \E p \in DOMAIN mem : a < p /\ p <= e /\ run[i] = mem[p]
    BY <1>4 DEF Range
  <2>1. a + i \in 1..Len(mem) /\ a < a + i /\ a + i <= e
    BY <1>2
  <2> QED
    BY <1>2, <1>3, <2>1
<1>8. \A r \in Range(table) : \E p \in DOMAIN mem : a < p /\ p <= e /\ r = mem[p]
  BY <1>5, <1>7 DEF Kept
<1>9. ASSUME NEW p \in DOMAIN mem, a < p, p <= e
      PROVE  \E r \in Range(table) : SameSlot(r, mem[p]) /\ mem[p].n <= r.n
  <2> DEFINE Q == {q \in (a + 1)..e : SameSlot(mem[q], mem[p])}
             q == Max(Q)
  <2>1. p \in Q /\ Q \subseteq 0..e
    BY <1>2, <1>9 DEF SameSlot
  <2>2. q \in Q /\ \A x \in Q : x <= q
    <3> HIDE DEF Q
    <3> QED
      BY <1>2, <2>1, MaxBounded
  <2> HIDE DEF q
  <2>3. q \in (a + 1)..e /\ SameSlot(mem[q], mem[p]) /\ p <= q /\ q \in DOMAIN mem /\ q \in Nat
    BY <1>2, <2>1, <2>2
  <2>4. mem[q] \in Range(run)
    <3>1. q - a \in 1..(e - a) /\ a + (q - a) = q
      BY <1>2, <2>3
    <3>2. run[q - a] = mem[q]
      BY <1>3, <3>1
    <3> QED
      BY <1>4, <3>1, <3>2 DEF Range
  <2>5. ASSUME NEW s \in Range(run), SameSlot(mem[q], s) PROVE s.n <= mem[q].n
    <3>1. PICK x \in DOMAIN mem : a < x /\ x <= e /\ s = mem[x]
      BY <1>7
    <3>2. x \in Q
      BY <1>2, <2>3, <2>5, <3>1 DEF SameSlot
    <3>3. x <= q /\ x \in Nat
      BY <1>2, <2>2, <3>2
    <3> QED
      BY <1>1, <1>2, <2>3, <3>1, <3>3
  <2>6. mem[q] \in Kept(run)
    BY <2>4, <2>5 DEF Kept
  <2>7. mem[p].n <= mem[q].n
    BY <1>1, <1>2, <2>3
  <2> QED
    BY <1>5, <2>3, <2>6, <2>7
<1> QED
  BY <1>5, <1>6, <1>8, <1>9 DEF HoldsWrites, table, run

\* Of two runs of writes, the later has the newer records.
LEMMA RunsNewer ==
    ASSUME MemShape, MemNewer, NEW x, NEW y, NEW a \in Nat, NEW b \in Nat, NEW d \in Nat, NEW e \in Nat,
           HoldsWrites(x, a, e), HoldsWrites(y, b, d), d <= a
    PROVE  Newer(Range(x), Range(y))
<1>1. SUFFICES ASSUME NEW r \in Range(x), NEW s \in Range(y) PROVE r.n > s.n
  BY DEF Newer
<1>2. PICK p \in DOMAIN mem : a < p /\ p <= e /\ r = mem[p]
  BY DEF HoldsWrites
<1>3. PICK q \in DOMAIN mem : b < q /\ q <= d /\ s = mem[q]
  BY DEF HoldsWrites
<1>4. p \in Nat /\ q \in Nat /\ Len(mem) \in Nat /\ writes \in Nat
  BY SeqBasics DEF MemShape
<1>5. mem[p].n = writes - Len(mem) + p /\ mem[q].n = writes - Len(mem) + q
  BY DEF MemNewer
<1> QED
  BY <1>2, <1>3, <1>4, <1>5

\* Where the current table begins, and where a frozen one does.
LEMMA LastBeforeFacts ==
    ASSUME NEW m \in Nat, NEW F \in SUBSET (1..m)
    PROVE  /\ Max({0} \cup F) \in 0..m /\ Max({0} \cup F) \in {0} \cup F
           /\ \A d \in F : d <= Max({0} \cup F)
           /\ \A e \in F : /\ LastBefore(F, e) \in 0..e /\ LastBefore(F, e) \in {0} \cup F
                           /\ LastBefore(F, e) < e
                           /\ \A d \in F : d < e => d <= LastBefore(F, e)
<1>1. \A S \in SUBSET F : Max({0} \cup S) \in {0} \cup S /\ \A d \in {0} \cup S : d <= Max({0} \cup S)
  <2> SUFFICES ASSUME NEW S \in SUBSET F
               PROVE  Max({0} \cup S) \in {0} \cup S /\ \A d \in {0} \cup S : d <= Max({0} \cup S)
    OBVIOUS
  <2> DEFINE T == {0} \cup S
  <2>1. T \subseteq 0..m /\ T # {}
    OBVIOUS
  <2> HIDE DEF T
  <2>2. Max(T) \in T /\ \A d \in T : d <= Max(T)
    BY <2>1, MaxBounded
  <2> QED
    BY <2>2 DEF T
<1>2. /\ Max({0} \cup F) \in {0} \cup F /\ \A d \in {0} \cup F : d <= Max({0} \cup F)
  BY <1>1
<1>3. ASSUME NEW e \in F
      PROVE  /\ LastBefore(F, e) \in 0..e /\ LastBefore(F, e) \in {0} \cup F
             /\ LastBefore(F, e) < e
             /\ \A d \in F : d < e => d <= LastBefore(F, e)
  <2> DEFINE S == {d \in F : d < e}
  <2>1. S \in SUBSET F /\ e \in 1..m
    OBVIOUS
  <2>2. LastBefore(F, e) = Max({0} \cup S)
    BY DEF LastBefore
  <2>3. Max({0} \cup S) \in {0} \cup S /\ \A d \in {0} \cup S : d <= Max({0} \cup S)
    <3> HIDE DEF S
    <3> QED
      BY <1>1, <2>1
  <2> DEFINE x == LastBefore(F, e)
  <2>4. x \in {0} \cup S /\ \A d \in S : d <= x
    <3> HIDE DEF S
    <3> QED
      BY <2>2, <2>3
  <2> HIDE DEF x
  <2>5. x \in {0} \cup F /\ x < e /\ x \in Nat /\ e \in Nat
    BY <2>1, <2>4
  <2>6. x \in 0..e /\ \A d \in F : d < e => d <= x
    BY <2>4, <2>5
  <2> QED
    BY <2>5, <2>6 DEF x
<1>4. Max({0} \cup F) \in 0..m
  <2>1. {0} \cup F \subseteq 0..m
    OBVIOUS
  <2> QED
    BY <1>2, <2>1
<1> QED
  BY <1>2, <1>3, <1>4

\* What the frozen tables have: the writes up to the last place in F.
FrozenHold(tables, top) ==
    /\ \A i \in DOMAIN tables : \A r \in Range(tables[i]) :
         \E p \in DOMAIN mem : p <= top /\ r = mem[p]
    /\ \A p \in DOMAIN mem : p <= top =>
         \E i \in DOMAIN tables : \E r \in Range(tables[i]) :
            SameSlot(r, mem[p]) /\ mem[p].n <= r.n

\* The frozen tables, the newest first, hold all writes up to the last place in F.
LEMMA FrozenFacts ==
    ASSUME MemShape, MemNewer, NEW F \in SUBSET DOMAIN mem
    PROVE  NewestFirst(Frozen(F)) /\ FrozenHold(Frozen(F), Max({0} \cup F))
<1> DEFINE m == Len(mem)
           ends == InOrder(F, >)
           from(i) == LastBefore(F, ends[i])
           tables == [i \in DOMAIN ends |-> TableOf(SubSeq(mem, from(i) + 1, ends[i]))]
           top == Max({0} \cup F)
<1>1. m \in Nat /\ DOMAIN mem = 1..m /\ F \in SUBSET (1..m)
  BY SeqBasics DEF MemShape
<1>2. Frozen(F) = tables
  BY DEF Frozen
<1>3. /\ top \in 0..m /\ top \in {0} \cup F /\ \A d \in F : d <= top
      /\ \A e \in F : /\ LastBefore(F, e) \in 0..e /\ LastBefore(F, e) \in {0} \cup F
                      /\ LastBefore(F, e) < e
                      /\ \A d \in F : d < e => d <= LastBefore(F, e)
  <2> HIDE DEF m
  <2> QED
    BY <1>1, LastBeforeFacts
<1>4. ends \in Seq(Nat) /\ Range(ends) = F /\ \A p, q \in DOMAIN ends : p < q => ends[p] > ends[q]
  <2>1. F \subseteq Nat /\ IsFiniteSet(F)
    <3>1. IsFiniteSet(1..m)
      BY <1>1, FS_Interval
    <3> QED
      BY <1>1, <3>1, FS_Subset
  <2> QED
    BY <2>1, ListedDown
<1> HIDE DEF ends, top, m
<1>5. Len(ends) \in Nat /\ DOMAIN ends = 1..Len(ends) /\ \A i \in DOMAIN ends : ends[i] \in F
  BY <1>4, SeqBasics DEF Range
<1>6. ASSUME NEW i \in DOMAIN ends
      PROVE  /\ HoldsWrites(tables[i], from(i), ends[i])
             /\ from(i) \in Nat /\ ends[i] \in Nat /\ ends[i] <= top
  <2> DEFINE e == ends[i]
             a == LastBefore(F, e)
  <2>1. e \in F /\ e \in 0..m /\ e \in Nat /\ a \in 0..e /\ a \in Nat /\ e <= top
    BY <1>1, <1>3, <1>5
  <2>2. tables[i] = TableOf(SubSeq(mem, a + 1, e))
    OBVIOUS
  <2> HIDE DEF a, e, tables
  <2>3. HoldsWrites(TableOf(SubSeq(mem, a + 1, e)), a, e)
    BY <2>1, RunFacts DEF m
  <2> QED
    BY <2>1, <2>2, <2>3 DEF a, e
<1>7. DOMAIN tables = DOMAIN ends
  OBVIOUS
<1>8. ASSUME NEW p \in DOMAIN ends, NEW q \in DOMAIN ends, p < q
      PROVE  Newer(Range(tables[p]), Range(tables[q])) /\ ends[q] <= from(p)
  <2>1. ends[q] \in F /\ ends[p] \in F /\ ends[q] < ends[p]
    BY <1>4, <1>5, <1>8, <1>6
  <2>2. ends[q] <= from(p)
    BY <1>3, <2>1
  <2> HIDE DEF tables, from
  <2> QED
    BY <1>6, <2>2, RunsNewer
<1>9. NewestFirst(tables)
  <2>1. tables = [i \in 1..Len(ends) |-> tables[i]]
    BY <1>5
  <2> HIDE DEF tables, from
  <2>2. \A i \in DOMAIN ends : tables[i] \in Seq(Recs) /\ Ordered(tables[i], AheadRel)
    BY <1>6 DEF HoldsWrites
  <2>3. tables \in [1..Len(ends) -> Seq(Recs)]
    BY <1>5, <2>1, <2>2
  <2>4. tables \in Seq(Seq(Recs))
    BY <1>5, <2>3
  <2> QED
    BY <1>7, <1>8, <2>2, <2>4 DEF NewestFirst
<1>10. ASSUME NEW i \in DOMAIN ends, NEW r \in Range(tables[i])
       PROVE  \E p \in DOMAIN mem : p <= top /\ r = mem[p]
  <2> HIDE DEF tables, from
  <2>1. PICK p \in DOMAIN mem : from(i) < p /\ p <= ends[i] /\ r = mem[p]
    BY <1>6, <1>10 DEF HoldsWrites
  <2>2. p \in Nat /\ ends[i] \in Nat /\ ends[i] <= top /\ top \in Nat
    BY <1>1, <1>3, <1>6
  <2> QED
    BY <2>1, <2>2
<1>11. ASSUME NEW p \in DOMAIN mem, p <= top
       PROVE  \E i \in DOMAIN ends : \E r \in Range(tables[i]) : SameSlot(r, mem[p]) /\ mem[p].n <= r.n
  <2> DEFINE U == {e \in F : p <= e}
             e == Min(U)
  <2>1. p \in Nat /\ p > 0 /\ U \subseteq Nat /\ top \in F
    BY <1>1, <1>3, <1>11
  <2>2. top \in U
    BY <1>11, <2>1
  <2>3. e \in U /\ \A d \in U : e <= d
    <3> HIDE DEF U
    <3> QED
      BY <2>1, <2>2, MinNat
  <2> HIDE DEF e
  <2>4. e \in F /\ p <= e
    BY <2>3
  <2>5. PICK i \in DOMAIN ends : ends[i] = e
    BY <1>4, <2>4 DEF Range
  <2>6. from(i) \in {0} \cup F /\ from(i) < e /\ from(i) \in Nat /\ e \in Nat
    BY <1>1, <1>3, <2>4, <2>5
  <2>7. from(i) < p
    BY <2>1, <2>3, <2>6
  <2> HIDE DEF tables, from, U
  <2> QED
    BY <1>6, <2>4, <2>5, <2>7 DEF HoldsWrites
<1>12. FrozenHold(tables, top)
  <2> HIDE DEF tables
  <2> QED
    BY <1>7, <1>10, <1>11 DEF FrozenHold
<1> QED
  BY <1>2, <1>9, <1>12 DEF top

\* What the last write of a key and version hides need not be seen.
LEMMA HiddenFacts ==
    ASSUME NEW A \in SUBSET Recs, NEW B \in SUBSET Recs, A \subseteq B,
           \A r \in B : \E s \in A : SameSlot(s, r) /\ r.n <= s.n,
           NEW k, NEW cap, NEW x, Answers(x, Hits(A, k, cap))
    PROVE  Answers(x, Hits(B, k, cap))
<1> DEFINE G == Hits(A, k, cap)
           H == Hits(B, k, cap)
<1>1. G \subseteq H /\ H \subseteq Recs
  BY DEF Hits
<1>2. \A r \in H : \E s \in G : SameSlot(s, r) /\ r.n <= s.n
  BY DEF Hits, SameSlot
<1>3. Answers(x, G)
  OBVIOUS
<1> HIDE DEF G, H
<1>4. CASE G = {}
  BY <1>2, <1>3, <1>4 DEF Answers, H
<1>5. CASE G # {}
  <2>1. Tops(x, G)
    BY <1>3, <1>5 DEF Answers
  <2>2. ASSUME NEW r \in H PROVE r.ver < x.ver \/ (r.ver = x.ver /\ r.n <= x.n)
    <3>1. PICK s \in G : SameSlot(s, r) /\ r.n <= s.n
      BY <1>2
    <3>2. s.ver < x.ver \/ (s.ver = x.ver /\ s.n <= x.n)
      BY <2>1 DEF Tops
    <3>3. r.n \in Nat /\ s.n \in Nat /\ x.n \in Nat /\ r.ver = s.ver
      BY <1>1, <2>1, <3>1, RecFields DEF Tops, SameSlot
    <3> QED
      BY <3>1, <3>2, <3>3
  <2>3. Tops(x, H) /\ H # {}
    BY <1>1, <2>1, <2>2 DEF Tops
  <2> QED
    BY <2>3 DEF Answers, H
<1> QED
  BY <1>4, <1>5

\* MemTable::get_ returns the newest write, wherever tables were frozen.
LEMMA MemGetFacts ==
    ASSUME MemShape, MemNewer, NEW F \in SUBSET DOMAIN mem, NEW k, NEW cap
    PROVE  Answers(MemGet(F, k, cap), Hits(Range(mem), k, cap))
<1> DEFINE m == Len(mem)
           top == Max({0} \cup F)
           current == Current(F)
           tables == Frozen(F)
           A == Range(current)
           B == UNION {Range(tables[i]) : i \in DOMAIN tables}
<1>1. m \in Nat /\ DOMAIN mem = 1..m /\ F \in SUBSET (1..m) /\ Range(mem) \subseteq Recs
  BY SeqBasics, FiniteElements DEF MemShape
<1>2. top \in 0..m
  <2> HIDE DEF m
  <2> QED
    BY <1>1, LastBeforeFacts
<1>3. MemGet(F, k, cap) = Better(InTable(current, k, cap), Best(tables, k, cap))
  BY DEF MemGet
<1>4. HoldsWrites(current, top, m)
  <2>1. current = TableOf(SubSeq(mem, top + 1, m))
    BY DEF Current
  <2> HIDE DEF top, current
  <2>2. m \in 0..Len(mem) /\ top \in 0..m
    BY <1>1, <1>2
  <2> QED
    BY <2>1, <2>2, RunFacts
<1>5. NewestFirst(tables) /\ FrozenHold(tables, top)
  BY FrozenFacts
<1> HIDE DEF current, tables, top, m
<1>6. \A r \in A : \E p \in DOMAIN mem : top < p /\ r = mem[p]
  BY <1>4 DEF HoldsWrites
<1>7. \A r \in B : \E p \in DOMAIN mem : p <= top /\ r = mem[p]
  BY <1>5 DEF FrozenHold
<1>8. A \subseteq Range(mem) /\ B \subseteq Range(mem)
  BY <1>6, <1>7 DEF Range
<1>9. \A r \in Range(mem) : \E s \in A \cup B : SameSlot(s, r) /\ r.n <= s.n
  <2> SUFFICES ASSUME NEW p \in DOMAIN mem
               PROVE  \E s \in A \cup B : SameSlot(s, mem[p]) /\ mem[p].n <= s.n
    BY DEF Range
  <2>1. CASE p <= top
    <3>1. \E i \in DOMAIN tables : \E r \in Range(tables[i]) : SameSlot(r, mem[p]) /\ mem[p].n <= r.n
      BY <1>5, <2>1 DEF FrozenHold
    <3> QED
      BY <3>1
  <2>2. CASE ~(p <= top)
    <3>1. top < p /\ p <= m
      BY <1>1, <1>2, <2>2
    <3>2. \E r \in A : SameSlot(r, mem[p]) /\ mem[p].n <= r.n
      BY <1>4, <3>1 DEF HoldsWrites
    <3> QED
      BY <3>2
  <2> QED
    BY <2>1, <2>2
<1>10. Newer(A, B)
  <2> SUFFICES ASSUME NEW r \in A, NEW s \in B PROVE r.n > s.n
    BY DEF Newer
  <2>1. PICK p \in DOMAIN mem : top < p /\ r = mem[p]
    BY <1>6
  <2>2. PICK q \in DOMAIN mem : q <= top /\ s = mem[q]
    BY <1>7
  <2>3. p \in Nat /\ q \in Nat /\ top \in Nat /\ Len(mem) \in Nat /\ writes \in Nat
    BY <1>1, <1>2 DEF m, MemShape
  <2>4. mem[p].n = writes - Len(mem) + p /\ mem[q].n = writes - Len(mem) + q
    BY DEF MemNewer
  <2> QED
    BY <2>1, <2>2, <2>3, <2>4
<1>11. Answers(InTable(current, k, cap), Hits(A, k, cap))
  BY <1>4, InTableFacts DEF HoldsWrites
<1>12. Answers(Best(tables, k, cap), Hits(B, k, cap))
  BY <1>5, BestFacts
<1> HIDE DEF A, B
<1>13. A \in SUBSET Recs /\ B \in SUBSET Recs /\ A \cup B \in SUBSET Recs
  BY <1>1, <1>8
<1>14. Answers(MemGet(F, k, cap), Hits(A \cup B, k, cap))
  BY <1>3, <1>10, <1>11, <1>12, <1>13, BetterFacts
<1> QED
  BY <1>1, <1>8, <1>9, <1>13, <1>14, HiddenFacts

-----------------------------------------------------------------------------
(* LSMEngine::get.                                                          *)

\* The newest record is the expected one.
LEMMA ExpectedAnswer ==
    ASSUME NEW S \in SUBSET Recs, NEW k, NEW cap, NEW x, Answers(x, Hits(S, k, cap))
    PROVE  x = Expected(S, k, cap)
<1> DEFINE H == Hits(S, k, cap)
           e == CHOOSE r \in H : \A s \in H : s.ver < r.ver \/ (s.ver = r.ver /\ s.n <= r.n)
<1>1. Expected(S, k, cap) = IF H = {} THEN Missing ELSE e
  BY DEF Expected, Hits
<1>2. Answers(x, H)
  OBVIOUS
<1>3. Answers(Expected(S, k, cap), H)
  <2> HIDE DEF H
  <2>1. H # {} => Tops(e, H)
    <3>1. H # {} => \E r \in H : \A s \in H : s.ver < r.ver \/ (s.ver = r.ver /\ s.n <= r.n)
      BY <1>2 DEF Answers, Tops
    <3>2. H # {} => e \in H /\ \A s \in H : s.ver < e.ver \/ (s.ver = e.ver /\ s.n <= e.n)
      BY <3>1, Zenon
    <3> HIDE DEF e
    <3> QED
      BY <3>2 DEF Tops
  <2> HIDE DEF e
  <2> QED
    BY <1>1, <2>1 DEF Answers
<1> QED
  BY <1>2, <1>3, OneAnswer

\* A lookup over the SSTs, and one over memtable and SSTs wherever tables were
\* frozen, after any sequence of writes, flushes, cascading compactions and clean
\* restarts in which nothing failed: it returns the largest version within its cap
\* and, where one transaction wrote it several times, the last of its writes.
THEOREM LookupsNewest == SSpec => [](faults = 0 => ReadsNewest)
<1>1. ASSUME LevelsInv, faults = 0 PROVE ReadsNewest
  <2> SUFFICES ASSUME proc = "open", job = Idle, NEW k \in Keys, NEW cap \in 0..MaxVer
               PROVE  /\ SstGet(k, cap) = Expected(flushed, k, cap)
                      /\ \A F \in SUBSET DOMAIN mem :
                           Get(F, k, cap, SstGet(k, cap)) = Expected(flushed \cup Range(mem), k, cap)
    BY DEF ReadsNewest
  <2>1. /\ FileShapes /\ ListsNameFiles(lists) /\ FilesWhole
        /\ Exact(lists, DOMAIN files) /\ Layered(DOMAIN files)
        /\ flushed = UNION {RecsOf(i) : i \in DOMAIN files} /\ MemShape /\ MemNewer
    BY <1>1, IdleFacts
  <2>2. k \in Nat
    BY KeysAssumption
  <2> DEFINE x == SstGet(k, cap)
  <2>3. Answers(x, Hits(flushed, k, cap))
    BY <2>1, <2>2, SstGetFacts
  <2> HIDE DEF x
  <2>4. flushed \in SUBSET Recs /\ Range(mem) \in SUBSET Recs /\ flushed \cup Range(mem) \in SUBSET Recs
    <3>1. flushed \subseteq Recs /\ Range(mem) \subseteq Recs
      BY <2>1, FiniteElements DEF MemShape
    <3> QED
      BY <3>1
  <2>5. x = Expected(flushed, k, cap)
    BY <2>3, <2>4, ExpectedAnswer
  <2>6. Newer(Range(mem), flushed)
    <3> SUFFICES ASSUME NEW p \in DOMAIN mem, NEW s \in flushed PROVE mem[p].n > s.n
      BY DEF Newer, Range
    <3>1. mem[p].n = writes - Len(mem) + p /\ s.n <= writes - Len(mem)
      BY <2>1 DEF MemNewer
    <3>2. p \in Nat /\ p > 0 /\ Len(mem) \in Nat /\ writes \in Nat /\ s.n \in Nat
      BY <2>1, <2>4, SeqBasics, RecFields DEF MemShape
    <3> QED
      BY <3>1, <3>2
  <2>7. ASSUME NEW F \in SUBSET DOMAIN mem
        PROVE  Get(F, k, cap, x) = Expected(flushed \cup Range(mem), k, cap)
    <3> DEFINE y == MemGet(F, k, cap)
    <3>1. Answers(y, Hits(Range(mem), k, cap))
      BY <2>1, MemGetFacts
    <3>2. Get(F, k, cap, x) = Better(y, x)
      BY DEF Get
    <3> HIDE DEF y
    <3>3. Answers(Better(y, x), Hits(Range(mem) \cup flushed, k, cap))
      BY <2>3, <2>4, <2>6, <3>1, BetterFacts
    <3>4. Range(mem) \cup flushed = flushed \cup Range(mem)
      OBVIOUS
    <3> QED
      BY <2>4, <3>2, <3>3, <3>4, ExpectedAnswer
  <2> QED
    BY <2>5, <2>7 DEF x
<1> QED
  BY <1>1, LevelsInvariance, PTL
=============================================================================
