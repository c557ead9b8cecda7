------------------------- MODULE RecordCodec_proofs -------------------------
(***************************************************************************)
(* The log's codec, for every width of bytes, lengths and ids, every list  *)
(* of records and every place where a file is cut: what encode writes,     *)
(* decode reads back, and decode accepts nothing else.                     *)
(***************************************************************************)
EXTENDS RecordCodec, ProofLemmas

Byte == 0..(Base - 1)

-----------------------------------------------------------------------------
(* Powers of the base.                                                      *)

\* The base is a number that has room for the codes of the operations.
LEMMA BaseFacts ==
    /\ Base \in Nat /\ Base > 5 /\ LenW \in Nat /\ LenW > 0 /\ IdW \in Nat
    /\ 0 \in Byte /\ \A b \in Byte : b \in Nat /\ b <= Base - 1
BY WidthsAssumption DEF Byte

\* How Pow multiplies.
LEMMA PowSteps ==
    ASSUME NEW w \in Nat
    PROVE  \E p \in [0..w -> Nat \ {0}] :
             /\ p[0] = 1 /\ \A k \in 0..w : k # 0 => p[k] = Base * p[k - 1]
             /\ Pow(w) = p[w]
<1> DEFINE S == Nat \ {0}
           G(f) == [i \in 0..w |-> IF i = 0 THEN 1 ELSE Base * f[i - 1]]
           step == [x \in Nat \X S |-> Base * x[2]]
           p == CHOOSE f : f = G(f)
<1>1. Pow(w) = p[w]
  BY DEF Pow
<1>2. step \in [Nat \X S -> S] /\ 1 \in S
  <2>1. ASSUME NEW x \in Nat \X S PROVE Base * x[2] \in S
    <3>1. x[2] \in Nat /\ x[2] > 0 /\ Base \in Nat /\ Base > 0
      BY BaseFacts
    <3> QED
      BY <3>1
  <2> QED
    BY <2>1
<1>3. PICK f \in [0..w -> S] :
        f[0] = 1 /\ \A k \in 0..w : k # 0 => f[k] = step[<<k - 1, f[k - 1]>>]
  <2> HIDE DEF step, S
  <2>1. Traced(S, 1, step, w)
    BY <1>2, RecursionBack
  <2> QED
    BY <2>1 DEF Traced
<1>4. ASSUME NEW k \in 0..w, k # 0 PROVE f[k] = Base * f[k - 1]
  <2>1. k - 1 \in 0..w /\ k - 1 \in Nat
    BY <1>4
  <2>2. <<k - 1, f[k - 1]>> \in Nat \X S
    BY <2>1
  <2> QED
    BY <1>3, <1>4, <2>2
<1>5. f = G(f)
  <2>1. f = [k \in 0..w |-> f[k]]
    OBVIOUS
  <2> QED
    BY <1>3, <1>4, <2>1
<1>6. p = G(p)
  <2>1. \E x : x = G(x)
    BY <1>5, Zenon
  <2> HIDE DEF G
  <2> QED
    BY <2>1, Zenon
<1> HIDE DEF p
<1>7. p[0] = 1 /\ \A k \in 0..w : k # 0 => p[k] = Base * p[k - 1]
  <2>1. \A k \in 0..w : p[k] = IF k = 0 THEN 1 ELSE Base * p[k - 1]
    BY <1>6
  <2>2. 0 \in 0..w
    OBVIOUS
  <2> QED
    BY <2>1, <2>2
<1> DEFINE P == {k \in 0..w : p[k] = f[k]}
<1>8. \A k \in 0..w : k \in P
  <2>1. 0 \in P
    BY <1>3, <1>7
  <2>2. ASSUME NEW k \in 0..(w - 1), k \in P PROVE k + 1 \in P
    <3>1. k + 1 \in 0..w /\ k + 1 # 0 /\ (k + 1) - 1 = k
      OBVIOUS
    <3> QED
      BY <1>4, <1>7, <2>2, <3>1
  <2> HIDE DEF P
  <2> QED
    BY <2>1, <2>2, UpTo
<1>9. p \in [0..w -> S]
  <2>1. p = [k \in 0..w |-> p[k]]
    BY <1>6
  <2> QED
    BY <1>8, <2>1
<1> QED
  BY <1>1, <1>7, <1>9

\* One byte more has Base times as many values.
LEMMA PowFacts ==
    /\ Pow(0) = 1
    /\ \A w \in Nat : Pow(w) \in Nat /\ Pow(w) > 0 /\ Pow(w + 1) = Base * Pow(w)
<1>1. Pow(0) = 1
  BY PowSteps
<1>2. ASSUME NEW w \in Nat PROVE Pow(w) \in Nat /\ Pow(w) > 0 /\ Pow(w + 1) = Base * Pow(w)
  <2>1. PICK p \in [0..w -> Nat \ {0}] :
          /\ p[0] = 1 /\ \A k \in 0..w : k # 0 => p[k] = Base * p[k - 1]
          /\ Pow(w) = p[w]
    BY PowSteps
  <2>2. w + 1 \in Nat
    OBVIOUS
  <2>3. PICK r \in [0..(w + 1) -> Nat \ {0}] :
          /\ r[0] = 1 /\ \A k \in 0..(w + 1) : k # 0 => r[k] = Base * r[k - 1]
          /\ Pow(w + 1) = r[w + 1]
    BY <2>2, PowSteps
  <2> DEFINE P == {k \in 0..w : r[k] = p[k]}
  <2>4. 0 \in P
    BY <2>1, <2>3
  <2>5. ASSUME NEW k \in 0..(w - 1), k \in P PROVE k + 1 \in P
    <3>1. k + 1 \in 0..w /\ k + 1 \in 0..(w + 1) /\ k + 1 # 0 /\ (k + 1) - 1 = k
      OBVIOUS
    <3> QED
      BY <2>1, <2>3, <2>5, <3>1
  <2>6. w \in P
    <3>1. w \in 0..w
      OBVIOUS
    <3> HIDE DEF P
    <3> QED
      BY <2>4, <2>5, <3>1, UpTo
  <2>7. w + 1 \in 0..(w + 1) /\ w + 1 # 0 /\ (w + 1) - 1 = w /\ w \in 0..w
    OBVIOUS
  <2>8. r[w + 1] = Base * r[w]
    BY <2>3, <2>7
  <2> QED
    BY <2>1, <2>3, <2>6, <2>7, <2>8
<1> QED
  BY <1>1, <1>2

-----------------------------------------------------------------------------
(* Numbers as bytes.                                                        *)

\* append_uint: what is left after each byte, and the bytes.
LEMMA UintSteps ==
    ASSUME NEW n \in Nat, NEW w \in Nat
    PROVE  /\ Uint(n, w) \in Seq(Byte) /\ Len(Uint(n, w)) = w
           /\ \E q \in [0..w -> Nat] :
                /\ q[0] = n /\ \A k \in 0..w : k # 0 => q[k] = q[k - 1] \div Base
                /\ \A i \in 1..w : Uint(n, w)[i] = q[i - 1] % Base
<1> DEFINE G(f) == [i \in 0..w |-> IF i = 0 THEN n ELSE f[i - 1] \div Base]
           step == [x \in Nat \X Nat |-> x[2] \div Base]
           q == CHOOSE f : f = G(f)
<1>1. Uint(n, w) = [i \in 1..w |-> q[i - 1] % Base]
  BY DEF Uint
<1>2. step \in [Nat \X Nat -> Nat]
  <2>1. ASSUME NEW x \in Nat \X Nat PROVE x[2] \div Base \in Nat
    <3>1. x[2] \in Nat /\ Base \in Nat /\ Base > 0
      BY BaseFacts
    <3> QED
      BY <3>1, DivMod
  <2> QED
    BY <2>1
<1>3. PICK f \in [0..w -> Nat] :
        f[0] = n /\ \A k \in 0..w : k # 0 => f[k] = step[<<k - 1, f[k - 1]>>]
  <2> HIDE DEF step
  <2>1. Traced(Nat, n, step, w)
    BY <1>2, RecursionBack
  <2> QED
    BY <2>1 DEF Traced
<1>4. ASSUME NEW k \in 0..w, k # 0 PROVE f[k] = f[k - 1] \div Base
  <2>1. k - 1 \in 0..w /\ k - 1 \in Nat
    BY <1>4
  <2>2. <<k - 1, f[k - 1]>> \in Nat \X Nat
    BY <2>1
  <2> QED
    BY <1>3, <1>4, <2>2
<1>5. f = G(f)
  <2>1. f = [k \in 0..w |-> f[k]]
    OBVIOUS
  <2> QED
    BY <1>3, <1>4, <2>1
<1>6. q = G(q)
  <2>1. \E x : x = G(x)
    BY <1>5, Zenon
  <2> HIDE DEF G
  <2> QED
    BY <2>1, Zenon
<1> HIDE DEF q
<1>7. q[0] = n /\ \A k \in 0..w : k # 0 => q[k] = q[k - 1] \div Base
  <2>1. \A k \in 0..w : q[k] = IF k = 0 THEN n ELSE q[k - 1] \div Base
    BY <1>6
  <2>2. 0 \in 0..w
    OBVIOUS
  <2> QED
    BY <2>1, <2>2
<1> DEFINE P == {k \in 0..w : q[k] = f[k]}
<1>8. \A k \in 0..w : k \in P
  <2>1. 0 \in P
    BY <1>3, <1>7
  <2>2. ASSUME NEW k \in 0..(w - 1), k \in P PROVE k + 1 \in P
    <3>1. k + 1 \in 0..w /\ k + 1 # 0 /\ (k + 1) - 1 = k
      OBVIOUS
    <3> QED
      BY <1>4, <1>7, <2>2, <3>1
  <2> HIDE DEF P
  <2> QED
    BY <2>1, <2>2, UpTo
<1>9. q \in [0..w -> Nat]
  <2>1. q = [k \in 0..w |-> q[k]]
    BY <1>6
  <2> QED
    BY <1>8, <2>1
<1>10. \A i \in 1..w : q[i - 1] % Base \in Byte
  <2>1. ASSUME NEW i \in 1..w PROVE q[i - 1] % Base \in Byte
    <3>1. i - 1 \in 0..w
      OBVIOUS
    <3>2. q[i - 1] \in Nat /\ Base \in Nat /\ Base > 0
      BY <1>9, <3>1, BaseFacts
    <3> QED
      BY <3>2, DivMod DEF Byte
  <2> QED
    BY <2>1
<1>11. Uint(n, w) \in Seq(Byte) /\ Len(Uint(n, w)) = w
  BY <1>1, <1>10
<1>12. \A i \in 1..w : Uint(n, w)[i] = q[i - 1] % Base
  BY <1>1
<1> QED
  BY <1>7, <1>9, <1>11, <1>12

\* The bytes of d from pos on are those of s.
Placed(d, pos, s) ==
    (pos - 1) + Len(s) <= Len(d) /\ \A i \in 1..Len(s) : d[(pos - 1) + i] = s[i]

\* The numbers that the bytes from pos on sum up to.
Sums(d, pos, w, v) ==
    /\ v \in [0..w -> Nat]
    /\ v[0] = 0 /\ \A k \in 0..w : k # 0 => v[k] = v[k - 1] + d[(pos - 1) + k] * Pow(k - 1)

\* read_uint: the sums after each byte.
LEMMA ReadUintSteps ==
    ASSUME NEW d \in Seq(Byte), NEW pos \in Nat, pos > 0, NEW w \in Nat, NEW end \in Nat,
           (pos - 1) + w <= Len(d), w <= end - pos
    PROVE  \E v : /\ Sums(d, pos, w, v)
                  /\ ReadUint(d, pos, w, end) = [ok |-> TRUE, val |-> v[w], pos |-> pos + w]
<1> DEFINE G(f) == [i \in 0..w |-> IF i = 0 THEN 0
                                   ELSE f[i - 1] + d[pos + i - 1] * Pow(i - 1)]
           step == [x \in Nat \X Nat |->
                      IF x[1] < w THEN x[2] + d[(pos - 1) + (x[1] + 1)] * Pow(x[1]) ELSE 0]
           v == CHOOSE f : f = G(f)
<1>1. ReadUint(d, pos, w, end) = [ok |-> TRUE, val |-> v[w], pos |-> pos + w]
  BY DEF ReadUint
<1>2. ASSUME NEW k \in 0..(w - 1)
      PROVE  d[(pos - 1) + (k + 1)] \in Nat /\ Pow(k) \in Nat
  <2>1. (pos - 1) + (k + 1) \in DOMAIN d
    BY SeqBasics
  <2>2. d[(pos - 1) + (k + 1)] \in Byte
    BY <2>1, SeqBasics
  <2>3. k \in Nat
    OBVIOUS
  <2>4. Pow(k) \in Nat
    BY <2>3, PowFacts
  <2> QED
    BY <2>2, <2>4, BaseFacts
<1>3. step \in [Nat \X Nat -> Nat]
  <2>1. ASSUME NEW x \in Nat \X Nat, x[1] < w
        PROVE  x[2] + d[(pos - 1) + (x[1] + 1)] * Pow(x[1]) \in Nat
    <3>1. x[1] \in 0..(w - 1) /\ x[2] \in Nat
      BY <2>1
    <3>2. d[(pos - 1) + (x[1] + 1)] \in Nat /\ Pow(x[1]) \in Nat
      BY <1>2, <3>1
    <3> QED
      BY SMTT(20), <3>1, <3>2
  <2> QED
    BY <2>1
<1>4. PICK f \in [0..w -> Nat] :
        f[0] = 0 /\ \A k \in 0..w : k # 0 => f[k] = step[<<k - 1, f[k - 1]>>]
  <2> HIDE DEF step
  <2>1. Traced(Nat, 0, step, w)
    BY <1>3, RecursionBack
  <2> QED
    BY <2>1 DEF Traced
<1>5. ASSUME NEW k \in 0..w, k # 0
      PROVE  f[k] = f[k - 1] + d[pos + k - 1] * Pow(k - 1)
  <2>1. k - 1 \in 0..w /\ k - 1 \in Nat /\ k - 1 < w /\ (pos - 1) + ((k - 1) + 1) = pos + k - 1
    BY <1>5
  <2>2. <<k - 1, f[k - 1]>> \in Nat \X Nat
    BY <2>1
  <2>3. step[<<k - 1, f[k - 1]>>] = f[k - 1] + d[(pos - 1) + ((k - 1) + 1)] * Pow(k - 1)
    BY <2>1, <2>2
  <2> QED
    BY <1>4, <1>5, <2>1, <2>3
<1>6. f = G(f)
  <2>1. f = [k \in 0..w |-> f[k]]
    OBVIOUS
  <2> QED
    BY <1>4, <1>5, <2>1
<1>7. v = G(v)
  <2>1. \E x : x = G(x)
    BY <1>6, Zenon
  <2> HIDE DEF G
  <2> QED
    BY <2>1, Zenon
<1> HIDE DEF v
<1>8. v[0] = 0 /\ \A k \in 0..w : k # 0 => v[k] = v[k - 1] + d[pos + k - 1] * Pow(k - 1)
  <2>1. \A k \in 0..w : v[k] = IF k = 0 THEN 0 ELSE v[k - 1] + d[pos + k - 1] * Pow(k - 1)
    BY <1>7
  <2>2. 0 \in 0..w
    OBVIOUS
  <2> QED
    BY <2>1, <2>2
<1> DEFINE P == {k \in 0..w : v[k] = f[k]}
<1>9. \A k \in 0..w : k \in P
  <2>1. 0 \in P
    BY <1>4, <1>8
  <2>2. ASSUME NEW k \in 0..(w - 1), k \in P PROVE k + 1 \in P
    <3>1. k + 1 \in 0..w /\ k + 1 # 0 /\ (k + 1) - 1 = k
      OBVIOUS
    <3>2. v[k + 1] = v[(k + 1) - 1] + d[pos + (k + 1) - 1] * Pow((k + 1) - 1)
      BY <1>8, <3>1
    <3>3. f[k + 1] = f[(k + 1) - 1] + d[pos + (k + 1) - 1] * Pow((k + 1) - 1)
      BY <1>5, <3>1
    <3> QED
      BY <2>2, <3>1, <3>2, <3>3
  <2> HIDE DEF P
  <2> QED
    BY <2>1, <2>2, UpTo
<1>10. v \in [0..w -> Nat]
  <2>1. v = [k \in 0..w |-> v[k]]
    BY <1>7
  <2> QED
    BY <1>9, <2>1
<1>11. ASSUME NEW k \in 0..w, k # 0
       PROVE  v[k] = v[k - 1] + d[(pos - 1) + k] * Pow(k - 1)
  <2>1. pos + k - 1 = (pos - 1) + k
    OBVIOUS
  <2> QED
    BY <1>8, <1>11, <2>1
<1>12. Sums(d, pos, w, v)
  BY <1>8, <1>10, <1>11 DEF Sums
<1> QED
  BY <1>1, <1>12

\* read_uint of what append_uint wrote: the number, unless it has more bytes.
LEMMA UintRead ==
    ASSUME NEW d \in Seq(Byte), NEW pos \in Nat, pos > 0, NEW w \in Nat, NEW end \in Nat,
           NEW n \in Nat, n < Pow(w), Placed(d, pos, Uint(n, w)), w <= end - pos
    PROVE  ReadUint(d, pos, w, end) = [ok |-> TRUE, val |-> n, pos |-> pos + w]
<1>1. Len(Uint(n, w)) = w
  BY UintSteps
<1>2. PICK q \in [0..w -> Nat] :
        /\ q[0] = n /\ \A k \in 0..w : k # 0 => q[k] = q[k - 1] \div Base
        /\ \A i \in 1..w : Uint(n, w)[i] = q[i - 1] % Base
  BY UintSteps
<1>3. (pos - 1) + w <= Len(d) /\ \A i \in 1..w : d[(pos - 1) + i] = q[i - 1] % Base
  BY <1>1, <1>2 DEF Placed
<1>4. PICK v : /\ Sums(d, pos, w, v)
               /\ ReadUint(d, pos, w, end) = [ok |-> TRUE, val |-> v[w], pos |-> pos + w]
  BY ZenonT(40), <1>3, ReadUintSteps
<1>5. /\ v \in [0..w -> Nat] /\ v[0] = 0
      /\ \A k \in 0..w : k # 0 => v[k] = v[k - 1] + d[(pos - 1) + k] * Pow(k - 1)
  BY <1>4 DEF Sums
<1> DEFINE P == {k \in 0..w : v[k] + q[k] * Pow(k) = n}
<1>6. 0 \in P
  BY <1>2, <1>5, PowFacts
<1>7. ASSUME NEW k \in 0..(w - 1), k \in P PROVE k + 1 \in P
  <2>1. k + 1 \in 0..w /\ k + 1 # 0 /\ (k + 1) - 1 = k /\ k + 1 \in 1..w /\ k \in 0..w /\ k \in Nat
    OBVIOUS
  <2>2. v[k + 1] = v[k] + d[(pos - 1) + (k + 1)] * Pow(k)
    BY <1>5, <2>1
  <2>3. d[(pos - 1) + (k + 1)] = q[k] % Base
    BY <1>3, <2>1
  <2>4. q[k + 1] = q[k] \div Base
    BY <1>2, <2>1
  <2>5. PICK a, m, p, x, y : /\ a = q[k] /\ m = q[k] % Base /\ p = Pow(k)
                             /\ x = v[k] /\ y = q[k + 1]
    OBVIOUS
  <2>6. a \in Nat /\ x \in Nat /\ y \in Nat /\ p \in Nat /\ Base \in Nat /\ Base > 0
    BY <1>2, <1>5, <2>1, <2>5, PowFacts, BaseFacts
  <2>7. m \in Nat /\ a = Base * y + m
    <3>1. a \div Base = y /\ a % Base = m
      BY <2>4, <2>5
    <3>2. a % Base \in 0..(Base - 1) /\ a = Base * (a \div Base) + (a % Base)
      BY <2>6, DivMod
    <3>3. m \in 0..(Base - 1) /\ a = Base * y + m
      BY <3>1, <3>2, Zenon
    <3> QED
      BY <2>6, <3>3
  <2>8. Pow(k + 1) = Base * p
    BY <2>1, <2>5, PowFacts
  <2>9. x + a * p = n
    BY <1>7, <2>5
  <2>10. (x + m * p) + y * (Base * p) = x + (Base * y + m) * p
    BY <2>6, <2>7
  <2>11. v[k + 1] + q[k + 1] * Pow(k + 1) = n
    BY <2>2, <2>3, <2>5, <2>7, <2>8, <2>9, <2>10
  <2> QED
    BY <2>1, <2>11
<1>8. w \in P
  <2>1. w \in 0..w
    OBVIOUS
  <2> HIDE DEF P
  <2> QED
    BY <1>6, <1>7, <2>1, UpTo
<1>9. v[w] = n
  <2>1. PICK a, p, x : a = q[w] /\ p = Pow(w) /\ x = v[w]
    OBVIOUS
  <2>2. w \in 0..w
    OBVIOUS
  <2>3. a \in Nat /\ p \in Nat /\ p > 0 /\ x \in Nat /\ x + a * p = n /\ n < p
    BY <1>2, <1>5, <1>8, <2>1, <2>2, PowFacts
  <2>4. a = 0
    <3>1. ASSUME a >= 1 PROVE a * p >= p
      BY <2>3, <3>1
    <3> QED
      BY <2>3, <3>1
  <2>5. x = n
    BY <2>3, <2>4
  <2> QED
    BY <2>1, <2>5
<1> QED
  BY <1>4, <1>9

\* What a read returns when it does not throw.
Gives(x, val, pos) == x = [ok |-> TRUE, val |-> val, pos |-> pos]

\* The same, with a name for the place after the number.
LEMMA UintReadTo ==
    ASSUME NEW d \in Seq(Byte), NEW pos \in Nat, pos > 0, NEW w \in Nat, NEW end \in Nat,
           NEW n \in Nat, n < Pow(w), Placed(d, pos, Uint(n, w)), w <= end - pos,
           NEW stop, stop = pos + w
    PROVE  Gives(ReadUint(d, pos, w, end), n, stop)
BY UintRead DEF Gives

\* The sums of bytes stay below the powers of the base.
LEMMA SumsBelow ==
    ASSUME NEW d \in Seq(Byte), NEW pos \in Nat, pos > 0, NEW w \in Nat, NEW v,
           Sums(d, pos, w, v), (pos - 1) + w <= Len(d)
    PROVE  v[w] \in Nat /\ v[w] < Pow(w)
<1>1. /\ v \in [0..w -> Nat] /\ v[0] = 0
      /\ \A k \in 0..w : k # 0 => v[k] = v[k - 1] + d[(pos - 1) + k] * Pow(k - 1)
  BY DEF Sums
<1> DEFINE P == {k \in 0..w : v[k] < Pow(k)}
<1>2. 0 \in P
  BY <1>1, PowFacts
<1>3. ASSUME NEW k \in 0..(w - 1), k \in P PROVE k + 1 \in P
  <2>1. k + 1 \in 0..w /\ k + 1 # 0 /\ (k + 1) - 1 = k /\ k \in 0..w /\ k \in Nat
    OBVIOUS
  <2>2. v[k + 1] = v[k] + d[(pos - 1) + (k + 1)] * Pow(k)
    BY <1>1, <2>1
  <2>3. PICK x, b, p : x = v[k] /\ b = d[(pos - 1) + (k + 1)] /\ p = Pow(k)
    OBVIOUS
  <2>4. b \in Byte
    <3>1. (pos - 1) + (k + 1) \in DOMAIN d
      BY SeqBasics
    <3> QED
      BY <2>3, <3>1, SeqBasics
  <2>5. x \in Nat /\ p \in Nat /\ x < p /\ b \in Nat /\ b <= Base - 1 /\ Base \in Nat
    BY <1>1, <1>3, <2>1, <2>3, <2>4, PowFacts, BaseFacts
  <2>6. Pow(k + 1) = Base * p
    BY <2>1, <2>3, PowFacts
  <2>7. b * p <= (Base - 1) * p
    BY <2>5
  <2>8. x + b * p < Base * p
    <3>1. (Base - 1) * p = Base * p - p
      BY <2>5
    <3> QED
      BY <2>5, <2>7, <3>1
  <2> QED
    BY <2>1, <2>2, <2>3, <2>6, <2>8
<1>4. w \in P
  <2>1. w \in 0..w
    OBVIOUS
  <2> HIDE DEF P
  <2> QED
    BY <1>2, <1>3, <2>1, UpTo
<1> QED
  BY <1>1, <1>4

\* The value of the bytes from each place on, the last one being the highest.
LEMMA HigherBytes ==
    ASSUME NEW d \in Seq(Byte), NEW pos \in Nat, pos > 0, NEW w \in Nat,
           (pos - 1) + w <= Len(d)
    PROVE  \E t \in [0..w -> Nat] :
             t[w] = 0 /\ \A k \in 0..(w - 1) : t[k] = Base * t[k + 1] + d[(pos - 1) + (k + 1)]
<1> DEFINE step == [x \in Nat \X Nat |->
                      IF x[1] < w THEN Base * x[2] + d[(pos - 1) + (w - x[1])] ELSE 0]
<1>1. ASSUME NEW k \in 0..(w - 1) PROVE d[(pos - 1) + (w - k)] \in Nat
  <2>1. (pos - 1) + (w - k) \in DOMAIN d
    BY SeqBasics
  <2>2. d[(pos - 1) + (w - k)] \in Byte
    BY <2>1, SeqBasics
  <2> QED
    BY <2>2, BaseFacts
<1>2. step \in [Nat \X Nat -> Nat]
  <2>1. ASSUME NEW x \in Nat \X Nat, x[1] < w
        PROVE  Base * x[2] + d[(pos - 1) + (w - x[1])] \in Nat
    <3>1. x[1] \in 0..(w - 1) /\ x[2] \in Nat /\ Base \in Nat
      BY <2>1, BaseFacts
    <3>2. d[(pos - 1) + (w - x[1])] \in Nat
      BY <1>1, <3>1
    <3>3. PICK y, q : y = x[2] /\ q = d[(pos - 1) + (w - x[1])]
      OBVIOUS
    <3>4. y \in Nat /\ q \in Nat
      BY <3>1, <3>2, <3>3
    <3>5. Base * y \in Nat
      BY <3>1, <3>4
    <3>6. Base * y + q \in Nat
      BY <3>4, <3>5
    <3> QED
      BY <3>3, <3>6
  <2> QED
    BY <2>1
<1>3. PICK u \in [0..w -> Nat] :
        u[0] = 0 /\ \A k \in 0..w : k # 0 => u[k] = step[<<k - 1, u[k - 1]>>]
  <2> HIDE DEF step
  <2>1. Traced(Nat, 0, step, w)
    BY <1>2, RecursionBack
  <2> QED
    BY <2>1 DEF Traced
<1> DEFINE t == [k \in 0..w |-> u[w - k]]
<1>4. t \in [0..w -> Nat] /\ t[w] = 0
  <2>1. \A k \in 0..w : w - k \in 0..w
    OBVIOUS
  <2>2. w \in 0..w /\ w - w = 0
    OBVIOUS
  <2> QED
    BY <1>3, <2>1, <2>2
<1>5. ASSUME NEW k \in 0..(w - 1) PROVE t[k] = Base * t[k + 1] + d[(pos - 1) + (k + 1)]
  <2>1. /\ w - k \in 0..w /\ w - k # 0 /\ (w - k) - 1 = w - (k + 1) /\ k \in 0..w
        /\ k + 1 \in 0..w /\ w - (k + 1) \in 0..w /\ w - (k + 1) \in Nat /\ w - (k + 1) < w
        /\ w - (w - (k + 1)) = k + 1
    OBVIOUS
  <2>2. <<w - (k + 1), u[w - (k + 1)]>> \in Nat \X Nat
    BY <2>1
  <2>3. u[w - k] = step[<<w - (k + 1), u[w - (k + 1)]>>]
    BY <1>3, <2>1
  <2>4. step[<<w - (k + 1), u[w - (k + 1)]>>]
          = Base * u[w - (k + 1)] + d[(pos - 1) + (w - (w - (k + 1)))]
    BY <2>1, <2>2
  <2>5. t[k] = u[w - k] /\ t[k + 1] = u[w - (k + 1)]
    BY <2>1
  <2> QED
    BY <2>1, <2>3, <2>4, <2>5
<1> HIDE DEF t
<1> QED
  BY <1>4, <1>5

\* append_uint of what read_uint returns: the bytes that were read.
LEMMA UintCanon ==
    ASSUME NEW d \in Seq(Byte), NEW pos \in Nat, pos > 0, NEW w \in Nat, NEW v,
           Sums(d, pos, w, v), (pos - 1) + w <= Len(d)
    PROVE  Placed(d, pos, Uint(v[w], w))
<1>1. /\ v \in [0..w -> Nat] /\ v[0] = 0
      /\ \A k \in 0..w : k # 0 => v[k] = v[k - 1] + d[(pos - 1) + k] * Pow(k - 1)
  BY DEF Sums
<1>2. v[w] \in Nat /\ w \in 0..w
  BY SumsBelow
<1>3. PICK t \in [0..w -> Nat] :
        t[w] = 0 /\ \A k \in 0..(w - 1) : t[k] = Base * t[k + 1] + d[(pos - 1) + (k + 1)]
  BY HigherBytes
<1>4. PICK q \in [0..w -> Nat] :
        /\ q[0] = v[w] /\ \A k \in 0..w : k # 0 => q[k] = q[k - 1] \div Base
        /\ \A i \in 1..w : Uint(v[w], w)[i] = q[i - 1] % Base
  BY <1>2, UintSteps
<1>5. ASSUME NEW k \in 0..(w - 1) PROVE d[(pos - 1) + (k + 1)] \in Byte
  <2>1. (pos - 1) + (k + 1) \in DOMAIN d
    BY SeqBasics
  <2> QED
    BY <2>1, SeqBasics
<1> DEFINE A == {k \in 0..w : v[k] + t[k] * Pow(k) = t[0]}
<1>6. 0 \in A
  <2>1. 0 \in 0..w
    OBVIOUS
  <2>2. t[0] \in Nat
    BY <1>3, <2>1
  <2>3. v[0] + t[0] * Pow(0) = t[0]
    BY <1>1, <2>2, PowFacts
  <2> QED
    BY <2>1, <2>3
<1>7. ASSUME NEW k \in 0..(w - 1), k \in A PROVE k + 1 \in A
  <2>1. k + 1 \in 0..w /\ k + 1 # 0 /\ (k + 1) - 1 = k /\ k \in 0..w /\ k \in Nat
    OBVIOUS
  <2>2. v[k + 1] = v[k] + d[(pos - 1) + (k + 1)] * Pow(k)
    BY <1>1, <2>1
  <2>3. PICK x, b, p, y : /\ x = v[k] /\ b = d[(pos - 1) + (k + 1)] /\ p = Pow(k)
                          /\ y = t[k + 1]
    OBVIOUS
  <2>4. b \in Nat
    BY <1>5, <2>3, BaseFacts
  <2>5. x \in Nat /\ p \in Nat /\ y \in Nat /\ Base \in Nat
    BY <1>1, <1>3, <2>1, <2>3, PowFacts, BaseFacts
  <2>6. Pow(k + 1) = Base * p
    BY <2>1, <2>3, PowFacts
  <2>7. t[k] = Base * y + b
    BY <1>3, <2>3
  <2>8. (x + b * p) + y * (Base * p) = x + (Base * y + b) * p
    BY <2>4, <2>5
  <2>9. x + (Base * y + b) * p = t[0]
    BY <1>7, <2>3, <2>7
  <2> QED
    BY <2>1, <2>2, <2>3, <2>6, <2>8, <2>9
<1>8. t[0] = v[w]
  <2>1. w \in A
    <3> HIDE DEF A
    <3> QED
      BY <1>2, <1>6, <1>7, UpTo
  <2>2. Pow(w) \in Nat
    BY PowFacts
  <2>3. 0 * Pow(w) = 0 /\ v[w] + 0 = v[w]
    BY <1>2, <2>2
  <2> QED
    BY <1>3, <2>1, <2>3
<1> DEFINE B == {k \in 0..w : q[k] = t[k]}
<1>9. ASSUME NEW k \in 0..(w - 1)
      PROVE  t[k] \div Base = t[k + 1] /\ t[k] % Base = d[(pos - 1) + (k + 1)]
  <2>1. PICK b, x, y : b = d[(pos - 1) + (k + 1)] /\ x = t[k] /\ y = t[k + 1]
    OBVIOUS
  <2>2. x \in Nat /\ y \in Nat /\ b \in 0..(Base - 1) /\ x = Base * y + b
    <3>1. k \in 0..w /\ k + 1 \in 0..w
      OBVIOUS
    <3> QED
      BY <1>3, <1>5, <2>1, <3>1 DEF Byte
  <2>3. Base \in Nat /\ Base > 0
    BY BaseFacts
  <2>4. x \div Base = y /\ x % Base = b
    BY <2>2, <2>3, DivModUnique
  <2> QED
    BY <2>1, <2>4
<1>10. \A k \in 0..w : k \in B
  <2>1. 0 \in B
    BY <1>4, <1>8
  <2>2. ASSUME NEW k \in 0..(w - 1), k \in B PROVE k + 1 \in B
    <3>1. k + 1 \in 0..w /\ k + 1 # 0 /\ (k + 1) - 1 = k
      OBVIOUS
    <3> QED
      BY <1>4, <1>9, <2>2, <3>1
  <2> HIDE DEF B
  <2> QED
    BY <2>1, <2>2, UpTo
<1>11. ASSUME NEW i \in 1..w PROVE Uint(v[w], w)[i] = d[(pos - 1) + i]
  <2>1. i - 1 \in 0..(w - 1) /\ i - 1 \in 0..w /\ (i - 1) + 1 = i
    OBVIOUS
  <2>2. q[i - 1] = t[i - 1]
    BY <1>10, <2>1
  <2> QED
    BY <1>4, <1>9, <2>1, <2>2
<1>12. Len(Uint(v[w], w)) = w
  BY <1>2, UintSteps
<1> QED
  BY <1>11, <1>12 DEF Placed

\* A number that read_uint accepts is made of the bytes at its place.
LEMMA UintAccepted ==
    ASSUME NEW d \in Seq(Byte), NEW pos \in Nat, pos > 0, NEW w \in Nat, NEW end \in Nat,
           end <= Len(d) + 1, ReadUint(d, pos, w, end).ok
    PROVE  \E n \in Nat :
             /\ n < Pow(w) /\ pos + w <= end /\ Placed(d, pos, Uint(n, w))
             /\ ReadUint(d, pos, w, end) = [ok |-> TRUE, val |-> n, pos |-> pos + w]
<1>1. w <= end - pos
  <2>1. ASSUME w > end - pos PROVE FALSE
    <3>1. ReadUint(d, pos, w, end) = Throws
      BY <2>1 DEF ReadUint
    <3>2. ~Throws.ok
      BY DEF Throws
    <3> QED
      BY <3>1, <3>2
  <2> QED
    BY <2>1
<1>2. (pos - 1) + w <= Len(d) /\ pos + w <= end
  BY <1>1, SeqBasics
<1>3. PICK v : /\ Sums(d, pos, w, v)
               /\ ReadUint(d, pos, w, end) = [ok |-> TRUE, val |-> v[w], pos |-> pos + w]
  BY <1>1, <1>2, ReadUintSteps
<1>4. v[w] \in Nat /\ v[w] < Pow(w)
  BY <1>2, <1>3, SumsBelow
<1>5. Placed(d, pos, Uint(v[w], w))
  BY <1>2, <1>3, UintCanon
<1> QED
  BY <1>2, <1>3, <1>4, <1>5

-----------------------------------------------------------------------------
(* Places of byte sequences.                                                *)

\* Two sequences one after the other.
LEMMA PlacedJoin ==
    ASSUME NEW d \in Seq(Byte), NEW pos \in Nat, pos > 0, NEW s \in Seq(Byte), NEW u \in Seq(Byte)
    PROVE  Placed(d, pos, s \o u) <=> Placed(d, pos, s) /\ Placed(d, pos + Len(s), u)
<1> DEFINE r == s \o u
<1>1. /\ Len(s) \in Nat /\ DOMAIN s = 1..Len(s) /\ Len(u) \in Nat /\ DOMAIN u = 1..Len(u)
      /\ Len(d) \in Nat
  BY SeqBasics
<1>2. /\ Len(r) = Len(s) + Len(u) /\ \A i \in 1..Len(s) : r[i] = s[i]
      /\ \A i \in 1..Len(u) : r[Len(s) + i] = u[i]
  BY <1>1, ConcatFacts
<1> HIDE DEF r
<1>3. ASSUME Placed(d, pos, r) PROVE Placed(d, pos, s)
  <2>1. \A i \in 1..Len(s) : i \in 1..Len(r)
    BY <1>1, <1>2
  <2>2. (pos - 1) + Len(s) <= Len(d)
    BY <1>1, <1>2, <1>3 DEF Placed
  <2> QED
    BY <1>2, <1>3, <2>1, <2>2 DEF Placed
<1>4. ASSUME Placed(d, pos, r) PROVE Placed(d, pos + Len(s), u)
  <2>1. ASSUME NEW i \in 1..Len(u) PROVE d[((pos + Len(s)) - 1) + i] = u[i]
    <3>1. Len(s) + i \in 1..Len(r) /\ ((pos + Len(s)) - 1) + i = (pos - 1) + (Len(s) + i)
      BY <1>1, <1>2
    <3> QED
      BY <1>2, <1>4, <3>1 DEF Placed
  <2>2. ((pos + Len(s)) - 1) + Len(u) <= Len(d)
    BY <1>1, <1>2, <1>4 DEF Placed
  <2> QED
    BY <2>1, <2>2 DEF Placed
<1>5. ASSUME Placed(d, pos, s), Placed(d, pos + Len(s), u) PROVE Placed(d, pos, r)
  <2>1. ((pos + Len(s)) - 1) + Len(u) <= Len(d)
    BY <1>5 DEF Placed
  <2>2. (pos - 1) + Len(r) <= Len(d)
    BY <1>1, <1>2, <2>1
  <2>3. ASSUME NEW i \in 1..Len(r) PROVE d[(pos - 1) + i] = r[i]
    <3>1. CASE i <= Len(s)
      <4>1. i \in 1..Len(s)
        BY <1>1, <3>1
      <4> QED
        BY <1>2, <1>5, <4>1 DEF Placed
    <3>2. CASE ~(i <= Len(s))
      <4>1. /\ i - Len(s) \in 1..Len(u) /\ Len(s) + (i - Len(s)) = i
            /\ ((pos + Len(s)) - 1) + (i - Len(s)) = (pos - 1) + i
        BY <1>1, <1>2, <3>2
      <4>2. d[((pos + Len(s)) - 1) + (i - Len(s))] = u[i - Len(s)]
        BY <1>5, <4>1 DEF Placed
      <4> QED
        BY <1>2, <4>1, <4>2
    <3> QED
      BY <3>1, <3>2
  <2> QED
    BY <2>2, <2>3 DEF Placed
<1> QED
  BY <1>3, <1>4, <1>5 DEF r

\* What is cut out at a place is the sequence placed there.
LEMMA PlacedCut ==
    ASSUME NEW d \in Seq(Byte), NEW pos \in Nat, pos > 0, NEW s \in Seq(Byte), Placed(d, pos, s)
    PROVE  SubSeq(d, pos, pos + Len(s) - 1) = s
<1> DEFINE m == pos - 1
           n == (pos - 1) + Len(s)
           r == SubSeq(d, m + 1, n)
<1>1. Len(s) \in Nat /\ DOMAIN s = 1..Len(s) /\ Len(d) \in Nat
  BY SeqBasics
<1>2. m \in Nat /\ n \in 0..Len(d) /\ m + 1 = pos /\ n = pos + Len(s) - 1 /\ n - m = Len(s)
  BY <1>1 DEF Placed
<1>3. /\ r \in Seq(Byte) /\ Len(r) = IF m < n THEN n - m ELSE 0
      /\ \A i \in 1..(n - m) : r[i] = d[m + i]
  <2> HIDE DEF m, n
  <2> QED
    BY <1>2, CutFacts
<1>4. Len(r) = Len(s) /\ \A i \in 1..Len(s) : r[i] = d[m + i]
  <2> HIDE DEF m, n, r
  <2> QED
    BY <1>1, <1>2, <1>3
<1>5. \A i \in 1..Len(s) : r[i] = s[i]
  BY <1>4 DEF Placed
<1> HIDE DEF r
<1>6. r = s
  BY <1>3, <1>4, <1>5, SeqEqual
<1> QED
  BY <1>2, <1>6 DEF r

\* The converse: what is cut out stands at its place.
LEMMA CutPlaced ==
    ASSUME NEW d \in Seq(Byte), NEW pos \in Nat, pos > 0, NEW n \in Nat, (pos - 1) + n <= Len(d)
    PROVE  /\ SubSeq(d, pos, pos + n - 1) \in Seq(Byte) /\ Len(SubSeq(d, pos, pos + n - 1)) = n
           /\ Placed(d, pos, SubSeq(d, pos, pos + n - 1))
<1> DEFINE m == pos - 1
           e == (pos - 1) + n
           r == SubSeq(d, m + 1, e)
<1>1. Len(d) \in Nat
  BY SeqBasics
<1>2. m \in Nat /\ e \in 0..Len(d) /\ m + 1 = pos /\ e = pos + n - 1 /\ e - m = n
  BY <1>1
<1>3. /\ r \in Seq(Byte) /\ Len(r) = IF m < e THEN e - m ELSE 0
      /\ \A i \in 1..(e - m) : r[i] = d[m + i]
  <2> HIDE DEF m, e
  <2> QED
    BY <1>2, CutFacts
<1>4. Len(r) = n
  <2> HIDE DEF m, e, r
  <2> QED
    BY <1>2, <1>3
<1>5. Placed(d, pos, r)
  <2>1. \A i \in 1..n : r[i] = d[(pos - 1) + i]
    BY <1>2, <1>3
  <2> HIDE DEF r
  <2> QED
    BY <1>4, <2>1 DEF Placed
<1> HIDE DEF m, e
<1> QED
  BY <1>2, <1>3, <1>4, <1>5

\* A sequence placed at the start that is as long as the whole is the whole.
LEMMA PlacedWhole ==
    ASSUME NEW d \in Seq(Byte), NEW s \in Seq(Byte), Placed(d, 1, s), Len(s) = Len(d)
    PROVE  s = d
<1>1. Len(d) \in Nat /\ DOMAIN d = 1..Len(d)
  BY SeqBasics
<1>2. \A i \in 1..Len(s) : d[(1 - 1) + i] = s[i] /\ (1 - 1) + i = i
  BY DEF Placed
<1>3. \A i \in 1..Len(s) : d[i] = s[i]
  BY <1>2
<1> QED
  BY <1>3, SeqEqual

-----------------------------------------------------------------------------
(* Strings and records.                                                     *)

\* The largest length is the largest number of LenW bytes.
LEMMA LengthFacts ==
    /\ MaxLength \in Nat /\ Pow(LenW) \in Nat /\ Pow(IdW) \in Nat
    /\ \A n \in Nat : n <= MaxLength <=> n < Pow(LenW)
    /\ HeaderSize \in Nat /\ HeaderSize = LenW + IdW + 1 /\ HeaderSize <= MaxLength
<1>1. Pow(LenW) \in Nat /\ Pow(LenW) > 0 /\ Pow(IdW) \in Nat
  BY BaseFacts, PowFacts
<1>2. PICK p : p = Pow(LenW)
  OBVIOUS
<1>3. MaxLength = p - 1 /\ p \in Nat /\ p > 0
  BY <1>1, <1>2 DEF MaxLength
<1>4. HeaderSize \in Nat /\ HeaderSize = LenW + IdW + 1
  BY BaseFacts DEF HeaderSize
<1> QED
  BY <1>1, <1>2, <1>3, <1>4, WidthsAssumption

\* A string takes its length field and its bytes.
LEMMA StrFacts ==
    ASSUME NEW text \in Seq(Byte)
    PROVE  Str(text) \in Seq(Byte) /\ Len(Str(text)) = LenW + Len(text)
<1> DEFINE u == Uint(Len(text), LenW)
<1>1. u \in Seq(Byte) /\ Len(u) = LenW
  BY BaseFacts, SeqBasics, UintSteps
<1>2. Str(text) = u \o text
  BY DEF Str
<1> HIDE DEF u
<1> QED
  BY <1>1, <1>2, ConcatFacts

\* read_string of what append_string wrote.
LEMMA StrRead ==
    ASSUME NEW d \in Seq(Byte), NEW pos \in Nat, pos > 0, NEW end \in Nat, NEW text \in Seq(Byte),
           Len(text) <= MaxLength, Placed(d, pos, Str(text)),
           pos + (LenW + Len(text)) <= end
    PROVE  ReadStr(d, pos, end) = [ok |-> TRUE, val |-> text, pos |-> pos + (LenW + Len(text))]
<1> DEFINE u == Uint(Len(text), LenW)
           n == ReadUint(d, pos, LenW, end)
<1>1. Len(text) \in Nat /\ Len(text) < Pow(LenW) /\ LenW \in Nat
  BY BaseFacts, SeqBasics, LengthFacts
<1>2. u \in Seq(Byte) /\ Len(u) = LenW
  BY <1>1, UintSteps
<1>3. Placed(d, pos, u) /\ Placed(d, pos + LenW, text)
  <2>1. Str(text) = u \o text
    BY DEF Str
  <2> HIDE DEF u
  <2> QED
    BY ZenonT(40), <1>2, <2>1, PlacedJoin
<1>4. n = [ok |-> TRUE, val |-> Len(text), pos |-> pos + LenW]
  <2>1. LenW <= end - pos
    BY <1>1
  <2> QED
    BY <1>1, <1>3, <2>1, UintRead
<1>5. SubSeq(d, pos + LenW, (pos + LenW) + Len(text) - 1) = text
  <2>1. pos + LenW \in Nat /\ pos + LenW > 0
    BY <1>1
  <2> QED
    BY <1>3, <2>1, PlacedCut
<1> HIDE DEF n
<1>6. /\ n.ok /\ n.val = Len(text) /\ n.pos = pos + LenW
      /\ ~(Len(text) > end - (pos + LenW)) /\ (pos + LenW) + Len(text) = pos + (LenW + Len(text))
  BY <1>1, <1>4
<1>7. ReadStr(d, pos, end) =
        IF ~n.ok THEN Throws
        ELSE IF n.val > end - n.pos THEN Throws
        ELSE [ok |-> TRUE, val |-> SubSeq(d, n.pos, n.pos + n.val - 1), pos |-> n.pos + n.val]
  BY DEF ReadStr, n
<1> QED
  BY <1>5, <1>6, <1>7

\* The same, with a name for the place after the string.
LEMMA StrReadTo ==
    ASSUME NEW d \in Seq(Byte), NEW pos \in Nat, pos > 0, NEW end \in Nat, NEW text \in Seq(Byte),
           Len(text) <= MaxLength, Placed(d, pos, Str(text)),
           NEW stop, stop = pos + (LenW + Len(text)), stop <= end
    PROVE  Gives(ReadStr(d, pos, end), text, stop)
BY StrRead DEF Gives

\* A string that read_string accepts stands at its place, within the record.
LEMMA StrAccepted ==
    ASSUME NEW d \in Seq(Byte), NEW pos \in Nat, pos > 0, NEW end \in Nat, end <= Len(d) + 1,
           ReadStr(d, pos, end).ok
    PROVE  \E text \in Seq(Byte) :
             /\ Len(text) <= MaxLength /\ Placed(d, pos, Str(text))
             /\ pos + (LenW + Len(text)) <= end
             /\ ReadStr(d, pos, end) =
                  [ok |-> TRUE, val |-> text, pos |-> pos + (LenW + Len(text))]
<1> DEFINE n == ReadUint(d, pos, LenW, end)
<1>1. ReadStr(d, pos, end) =
        IF ~n.ok THEN Throws
        ELSE IF n.val > end - n.pos THEN Throws
        ELSE [ok |-> TRUE, val |-> SubSeq(d, n.pos, n.pos + n.val - 1), pos |-> n.pos + n.val]
  BY DEF ReadStr
<1>2. ~Throws.ok
  BY DEF Throws
<1>3. n.ok
  <2> HIDE DEF n
  <2> QED
    BY <1>1, <1>2
<1>4. LenW \in Nat
  BY BaseFacts
<1>5. PICK k \in Nat : /\ k < Pow(LenW) /\ pos + LenW <= end /\ Placed(d, pos, Uint(k, LenW))
                       /\ n = [ok |-> TRUE, val |-> k, pos |-> pos + LenW]
  BY <1>3, <1>4, UintAccepted
<1> HIDE DEF n
<1>6. n.val = k /\ n.pos = pos + LenW
  BY <1>5
<1>7. ~(k > end - (pos + LenW))
  BY <1>1, <1>2, <1>3, <1>6
<1> DEFINE at == pos + LenW
           text == SubSeq(d, at, at + k - 1)
<1>8. at \in Nat /\ at > 0 /\ (at - 1) + k <= Len(d)
  BY <1>4, <1>7, SeqBasics
<1>9. text \in Seq(Byte) /\ Len(text) = k /\ Placed(d, at, text)
  <2> HIDE DEF at
  <2> QED
    BY <1>8, CutPlaced
<1>10. ReadStr(d, pos, end) = [ok |-> TRUE, val |-> text, pos |-> at + k]
  BY <1>1, <1>3, <1>6, <1>7
<1> HIDE DEF text
<1>11. Placed(d, pos, Str(text))
  <2> DEFINE u == Uint(k, LenW)
  <2>1. u \in Seq(Byte) /\ Len(u) = LenW
    BY <1>4, UintSteps
  <2>2. Str(text) = u \o text
    BY <1>9 DEF Str
  <2>3. Placed(d, pos, u)
    BY <1>5
  <2> HIDE DEF u
  <2>4. Placed(d, pos + Len(u), text)
    BY <1>9, <2>1
  <2>5. Placed(d, pos, u \o text)
    <3>1. text \in Seq(Byte)
      BY <1>9
    <3> QED
      BY <2>1, <2>3, <2>4, <3>1, PlacedJoin
  <2> QED
    BY <2>2, <2>5
<1>12. Len(text) <= MaxLength
  BY <1>5, <1>9, LengthFacts
<1>13. at + k = pos + (LenW + Len(text)) /\ pos + (LenW + Len(text)) <= end
  BY <1>4, <1>7, <1>9
<1> QED
  BY <1>9, <1>10, <1>11, <1>12, <1>13

OpNames == {"CREATE", "COMMIT", "ROLLBACK", "PUT", "DELETE"}

KeyBytes(op, key) == IF op \in {"PUT", "DELETE"} THEN Str(key) ELSE <<>>
ValueBytes(op, value) == IF op = "PUT" THEN Str(value) ELSE <<>>

\* The records that the factories make: fields that the operation does not have
\* are empty, and the length is that of the encoding and fits.
Fields == [op : OpNames, id : 0..(Pow(IdW) - 1), key : Seq(Byte), value : Seq(Byte), len : Nat]
Valid ==
    {r \in Fields : /\ r.op \notin {"PUT", "DELETE"} => r.key = <<>>
                    /\ r.op # "PUT" => r.value = <<>>
                    /\ r.len = HeaderSize + Len(KeyBytes(r.op, r.key))
                                + Len(ValueBytes(r.op, r.value))
                    /\ r.len <= MaxLength}

\* Operations and their codes.
LEMMA CodeFacts ==
    /\ Len(Codes) = 5
    /\ \A op \in OpNames : Code(op) \in 0..4 /\ Codes[Code(op) + 1] = op
    /\ \A c \in 0..4 : Codes[c + 1] \in OpNames /\ Code(Codes[c + 1]) = c
<1>1. /\ Len(Codes) = 5 /\ DOMAIN Codes = 1..5
      /\ Codes[1] = "CREATE" /\ Codes[2] = "COMMIT" /\ Codes[3] = "ROLLBACK"
      /\ Codes[4] = "PUT" /\ Codes[5] = "DELETE"
  BY DEF Codes
<1>2. 1..5 = {1, 2, 3, 4, 5}
  OBVIOUS
<1>3. \A i, j \in 1..5 : Codes[i] = Codes[j] => i = j
  BY <1>1, <1>2
<1>4. ASSUME NEW op \in OpNames
      PROVE  Code(op) \in 0..4 /\ Codes[Code(op) + 1] = op
  <2> DEFINE i == CHOOSE i \in DOMAIN Codes : Codes[i] = op
  <2>1. \E j \in 1..5 : Codes[j] = op
    BY <1>1, <1>2 DEF OpNames
  <2>2. i \in 1..5 /\ Codes[i] = op
    BY <1>1, <2>1
  <2>3. Code(op) = i - 1
    BY DEF Code
  <2> HIDE DEF i
  <2>4. Code(op) \in 0..4 /\ Code(op) + 1 = i
    BY <2>2, <2>3
  <2> QED
    BY <2>2, <2>4
<1>5. ASSUME NEW c \in 0..4
      PROVE  Codes[c + 1] \in OpNames /\ Code(Codes[c + 1]) = c
  <2>1. c + 1 \in 1..5
    OBVIOUS
  <2>2. Codes[c + 1] \in OpNames
    BY <1>1, <1>2, <2>1 DEF OpNames
  <2>3. Code(Codes[c + 1]) \in 0..4 /\ Codes[Code(Codes[c + 1]) + 1] = Codes[c + 1]
    BY <1>4, <2>2
  <2>4. Code(Codes[c + 1]) + 1 = c + 1
    BY <1>3, <2>1, <2>3
  <2> QED
    BY <2>2, <2>3, <2>4
<1> QED
  BY <1>1, <1>4, <1>5

\* A number of one byte.
LEMMA OneByte ==
    /\ Pow(1) = Base
    /\ \A c \in Byte : Uint(c, 1) = <<c>> /\ <<c>> \in Seq(Byte) /\ Len(<<c>>) = 1
<1>1. Pow(1) = Base
  <2>1. Pow(0) = 1 /\ Pow(0 + 1) = Base * Pow(0) /\ 0 + 1 = 1
    BY PowFacts
  <2> QED
    BY <2>1, BaseFacts
<1>2. ASSUME NEW c \in Byte PROVE Uint(c, 1) = <<c>> /\ <<c>> \in Seq(Byte) /\ Len(<<c>>) = 1
  <2>1. c \in Nat /\ c <= Base - 1 /\ Base \in Nat /\ 1 \in Nat
    BY BaseFacts
  <2>2. PICK q \in [0..1 -> Nat] : q[0] = c /\ \A i \in 1..1 : Uint(c, 1)[i] = q[i - 1] % Base
    BY ZenonT(40), <2>1, UintSteps
  <2>3. Uint(c, 1) \in Seq(Byte) /\ Len(Uint(c, 1)) = 1
    BY <2>1, UintSteps
  <2>4. c % Base = c
    BY <2>1
  <2>5. Uint(c, 1)[1] = c
    BY <2>2, <2>4
  <2>6. <<c>> \in Seq(Byte) /\ Len(<<c>>) = 1 /\ <<c>>[1] = c
    OBVIOUS
  <2>7. \A i \in 1..1 : Uint(c, 1)[i] = <<c>>[i]
    BY <2>5, <2>6
  <2>8. Uint(c, 1) = <<c>>
    BY <2>3, <2>6, <2>7, SeqEqual
  <2> QED
    BY <2>6, <2>8
<1> QED
  BY <1>1, <1>2

\* The parts of an encoding, one after the other.
LEMMA EncodeParts ==
    ASSUME NEW r \in Fields, NEW d \in Seq(Byte), NEW pos \in Nat, pos > 0
    PROVE  /\ Encode(r) \in Seq(Byte)
           /\ Len(Encode(r)) = HeaderSize + Len(KeyBytes(r.op, r.key))
                                 + Len(ValueBytes(r.op, r.value))
           /\ Placed(d, pos, Encode(r)) <=>
                /\ Placed(d, pos, Uint(r.len, LenW)) /\ Placed(d, pos + LenW, Uint(r.id, IdW))
                /\ Placed(d, pos + LenW + IdW, Uint(Code(r.op), 1))
                /\ Placed(d, pos + HeaderSize, KeyBytes(r.op, r.key))
                /\ Placed(d, pos + HeaderSize + Len(KeyBytes(r.op, r.key)),
                          ValueBytes(r.op, r.value))
           /\ KeyBytes(r.op, r.key) \in Seq(Byte) /\ ValueBytes(r.op, r.value) \in Seq(Byte)
<1> DEFINE U == Uint(r.len, LenW)
           I == Uint(r.id, IdW)
           C == Uint(Code(r.op), 1)
           K == KeyBytes(r.op, r.key)
           V == ValueBytes(r.op, r.value)
<1>1. r.op \in OpNames /\ r.id \in Nat /\ r.key \in Seq(Byte) /\ r.value \in Seq(Byte) /\ r.len \in Nat
  BY LengthFacts DEF Fields
<1>2. LenW \in Nat /\ IdW \in Nat /\ HeaderSize = LenW + IdW + 1
  BY BaseFacts, LengthFacts
<1>3. Code(r.op) \in Byte /\ C = <<Code(r.op)>>
  <2>1. Code(r.op) \in 0..4
    BY <1>1, CodeFacts
  <2>2. Code(r.op) \in Byte
    BY <2>1, BaseFacts DEF Byte
  <2> QED
    BY <2>2, OneByte
<1>4. Encode(r) = ((((U \o I) \o C) \o K) \o V)
  BY <1>3 DEF Encode, KeyBytes, ValueBytes
<1>5. U \in Seq(Byte) /\ Len(U) = LenW /\ I \in Seq(Byte) /\ Len(I) = IdW
  BY <1>1, <1>2, UintSteps
<1>6. C \in Seq(Byte) /\ Len(C) = 1
  BY <1>3, OneByte
<1>7. K \in Seq(Byte) /\ V \in Seq(Byte)
  <2>1. <<>> \in Seq(Byte)
    OBVIOUS
  <2> QED
    BY <1>1, <2>1, StrFacts DEF KeyBytes, ValueBytes
<1> HIDE DEF U, I, C, K, V
<1> DEFINE UI == U \o I
           UIC == UI \o C
           UICK == UIC \o K
<1>8. UI \in Seq(Byte) /\ Len(UI) = LenW + IdW
  BY <1>5, ConcatFacts
<1>9. Placed(d, pos, UI) <=> Placed(d, pos, U) /\ Placed(d, pos + LenW, I)
  BY <1>5, PlacedJoin
<1> HIDE DEF UI
<1>10. UIC \in Seq(Byte) /\ Len(UIC) = LenW + IdW + 1
  <2>1. UIC \in Seq(Byte) /\ Len(UIC) = Len(UI) + Len(C)
    BY <1>6, <1>8, ConcatFacts
  <2> QED
    BY <1>6, <1>8, <2>1
<1>11. Placed(d, pos, UIC) <=> Placed(d, pos, UI) /\ Placed(d, pos + (LenW + IdW), C)
  BY <1>6, <1>8, PlacedJoin
<1> HIDE DEF UIC
<1>12. UICK \in Seq(Byte) /\ Len(UICK) = HeaderSize + Len(K)
  <2>1. UICK \in Seq(Byte) /\ Len(UICK) = Len(UIC) + Len(K)
    BY <1>7, <1>10, ConcatFacts
  <2> QED
    BY <1>2, <1>10, <2>1
<1>13. Placed(d, pos, UICK) <=> Placed(d, pos, UIC) /\ Placed(d, pos + HeaderSize, K)
  BY <1>2, <1>7, <1>10, PlacedJoin
<1> HIDE DEF UICK
<1>14. Len(UICK \o V) = HeaderSize + Len(K) + Len(V) /\ UICK \o V \in Seq(Byte)
  BY <1>7, <1>12, ConcatFacts
<1>15. Placed(d, pos, UICK \o V) <=> Placed(d, pos, UICK) /\ Placed(d, pos + (HeaderSize + Len(K)), V)
  BY <1>7, <1>12, PlacedJoin
<1>16. /\ pos + (HeaderSize + Len(K)) = pos + HeaderSize + Len(K)
       /\ pos + (LenW + IdW) = pos + LenW + IdW
  BY <1>2, <1>7, SeqBasics
<1>17. Encode(r) = UICK \o V
  BY <1>4 DEF UICK, UIC, UI
<1> QED
  BY <1>7, <1>9, <1>11, <1>13, <1>14, <1>15, <1>16, <1>17 DEF U, I, C, K, V

\* The bytes from at to end are the payload of a record.
BodyAt(d, at, end, op, key, value) ==
    /\ op \notin {"PUT", "DELETE"} => key = <<>>
    /\ op # "PUT" => value = <<>>
    /\ Len(key) <= MaxLength /\ Len(value) <= MaxLength
    /\ Placed(d, at, KeyBytes(op, key))
    /\ Placed(d, at + Len(KeyBytes(op, key)), ValueBytes(op, value))
    /\ end = at + Len(KeyBytes(op, key)) + Len(ValueBytes(op, value))

\* The payload of a record, as it is read back.
LEMMA BodyRead ==
    ASSUME NEW d \in Seq(Byte), NEW at \in Nat, at > 0, NEW end \in Nat, NEW op \in OpNames,
           NEW key \in Seq(Byte), NEW value \in Seq(Byte),
           BodyAt(d, at, end, op, key, value)
    PROVE  ReadBody(d, op, at, end) = [ok |-> TRUE, key |-> key, value |-> value, pos |-> end]
<1> DEFINE k == ReadStr(d, at, end)
           v == ReadStr(d, k.pos, end)
<1>1. Len(key) \in Nat /\ Len(value) \in Nat /\ LenW \in Nat
  BY BaseFacts, SeqBasics
<1>2. ReadBody(d, op, at, end) =
        IF op \in {"CREATE", "COMMIT", "ROLLBACK"}
        THEN [ok |-> TRUE, key |-> <<>>, value |-> <<>>, pos |-> at]
        ELSE IF ~k.ok THEN Throws
        ELSE IF op = "DELETE"
        THEN [ok |-> TRUE, key |-> k.val, value |-> <<>>, pos |-> k.pos]
        ELSE IF ~v.ok THEN Throws
        ELSE [ok |-> TRUE, key |-> k.val, value |-> v.val, pos |-> v.pos]
  BY DEF ReadBody
<1>3. CASE op \in {"CREATE", "COMMIT", "ROLLBACK"}
  <2>1. Len(KeyBytes(op, key)) = 0 /\ Len(ValueBytes(op, value)) = 0
    BY <1>3 DEF KeyBytes, ValueBytes
  <2>2. end = at
    BY <2>1 DEF BodyAt
  <2>3. key = <<>> /\ value = <<>>
    BY <1>3 DEF BodyAt
  <2> QED
    BY <1>2, <1>3, <2>2, <2>3
<1>4. CASE op = "DELETE"
  <2>1. KeyBytes(op, key) = Str(key) /\ ValueBytes(op, value) = <<>>
    BY <1>4 DEF KeyBytes, ValueBytes
  <2>2. Len(Str(key)) = LenW + Len(key)
    BY StrFacts
  <2>3. /\ end = at + (LenW + Len(key)) /\ Placed(d, at, Str(key)) /\ Len(key) <= MaxLength
        /\ value = <<>>
    BY <1>1, <1>4, <2>1, <2>2 DEF BodyAt
  <2>4. Gives(k, key, end)
    <3>1. end <= end
      OBVIOUS
    <3> QED
      BY <2>3, <3>1, StrReadTo
  <2> HIDE DEF k, v
  <2>5. k.ok /\ k.val = key /\ k.pos = end /\ value = <<>>
    BY <2>3, <2>4 DEF Gives
  <2> QED
    BY <1>2, <1>4, <2>5
<1>5. CASE op = "PUT"
  <2>1. KeyBytes(op, key) = Str(key) /\ ValueBytes(op, value) = Str(value)
    BY <1>5 DEF KeyBytes, ValueBytes
  <2>2. Len(Str(key)) = LenW + Len(key) /\ Len(Str(value)) = LenW + Len(value)
    BY StrFacts
  <2> DEFINE mid == at + (LenW + Len(key))
  <2>3. /\ end = mid + (LenW + Len(value)) /\ mid <= end /\ mid \in Nat /\ mid > 0
        /\ Placed(d, mid, Str(value)) /\ Placed(d, at, Str(key))
        /\ Len(key) <= MaxLength /\ Len(value) <= MaxLength
    BY <1>1, <2>1, <2>2 DEF BodyAt
  <2>4. Gives(k, key, mid)
    <3>1. mid = at + (LenW + Len(key))
      OBVIOUS
    <3> HIDE DEF mid
    <3> QED
      BY <2>3, <3>1, StrReadTo
  <2> HIDE DEF mid, k
  <2>5. k.ok /\ k.val = key /\ k.pos = mid
    BY <2>4 DEF Gives
  <2>6. Gives(ReadStr(d, mid, end), value, end)
    <3>1. end <= end
      OBVIOUS
    <3> QED
      BY <2>3, <3>1, StrReadTo
  <2>7. v = [ok |-> TRUE, val |-> value, pos |-> end]
    BY <2>5, <2>6 DEF Gives
  <2> HIDE DEF v
  <2>8. v.ok /\ v.val = value /\ v.pos = end
    BY <2>7
  <2> QED
    BY <1>2, <1>5, <2>5, <2>8
<1> QED
  BY <1>3, <1>4, <1>5 DEF OpNames

\* The same with a name for the result.
GivesBody(x, key, value, pos) == x = [ok |-> TRUE, key |-> key, value |-> value, pos |-> pos]

\* The payload of a record, as it is read back: the result by name.
LEMMA BodyReadTo ==
    ASSUME NEW d \in Seq(Byte), NEW at \in Nat, at > 0, NEW end \in Nat, NEW op \in OpNames,
           NEW key \in Seq(Byte), NEW value \in Seq(Byte),
           BodyAt(d, at, end, op, key, value)
    PROVE  GivesBody(ReadBody(d, op, at, end), key, value, end)
BY BodyRead DEF GivesBody

\* A payload that is accepted stands at its place.
BodyFound(d, at, op, body, key, value) ==
    /\ op \notin {"PUT", "DELETE"} => key = <<>>
    /\ op # "PUT" => value = <<>>
    /\ Placed(d, at, KeyBytes(op, key))
    /\ Placed(d, at + Len(KeyBytes(op, key)), ValueBytes(op, value))
    /\ GivesBody(body, key, value, at + Len(KeyBytes(op, key)) + Len(ValueBytes(op, value)))

\* A payload that is accepted stands at its place.
LEMMA BodyAccepted ==
    ASSUME NEW d \in Seq(Byte), NEW at \in Nat, at > 0, NEW end \in Nat, end <= Len(d) + 1,
           at <= end, NEW op \in OpNames, NEW body, body = ReadBody(d, op, at, end), body.ok
    PROVE  \E key, value \in Seq(Byte) : BodyFound(d, at, op, body, key, value)
<1> DEFINE k == ReadStr(d, at, end)
           v == ReadStr(d, k.pos, end)
<1>1. LenW \in Nat /\ Len(d) \in Nat /\ <<>> \in Seq(Byte) /\ Len(<<>>) = 0
  BY BaseFacts, SeqBasics
<1>2. body =
        IF op \in {"CREATE", "COMMIT", "ROLLBACK"}
        THEN [ok |-> TRUE, key |-> <<>>, value |-> <<>>, pos |-> at]
        ELSE IF ~k.ok THEN Throws
        ELSE IF op = "DELETE"
        THEN [ok |-> TRUE, key |-> k.val, value |-> <<>>, pos |-> k.pos]
        ELSE IF ~v.ok THEN Throws
        ELSE [ok |-> TRUE, key |-> k.val, value |-> v.val, pos |-> v.pos]
  BY DEF ReadBody
<1>3. ~Throws.ok
  BY DEF Throws
<1>4. ASSUME NEW x \in Nat, x > 0, x <= Len(d) + 1 PROVE Placed(d, x, <<>>)
  BY <1>1, <1>4 DEF Placed
<1>5. CASE op \in {"CREATE", "COMMIT", "ROLLBACK"}
  <2>1. KeyBytes(op, <<>>) = <<>> /\ ValueBytes(op, <<>>) = <<>>
    BY <1>5 DEF KeyBytes, ValueBytes
  <2>2. body = [ok |-> TRUE, key |-> <<>>, value |-> <<>>, pos |-> at]
    BY <1>2, <1>5
  <2>3. at + 0 + 0 = at /\ at + 0 = at
    OBVIOUS
  <2>4. Placed(d, at, <<>>)
    BY <1>1, <1>4
  <2>5. BodyFound(d, at, op, body, <<>>, <<>>)
    BY <1>1, <2>1, <2>2, <2>3, <2>4 DEF BodyFound, GivesBody
  <2> QED
    BY <1>1, <2>5
<1>6. CASE op \in {"PUT", "DELETE"}
  <2>1. k.ok
    <3> HIDE DEF k, v
    <3> QED
      BY <1>2, <1>3, <1>6
  <2>2. PICK key \in Seq(Byte) :
          /\ Len(key) <= MaxLength /\ Placed(d, at, Str(key))
          /\ at + (LenW + Len(key)) <= end
          /\ k = [ok |-> TRUE, val |-> key, pos |-> at + (LenW + Len(key))]
    BY <2>1, StrAccepted
  <2> DEFINE mid == at + (LenW + Len(key))
  <2>3. Len(Str(key)) = LenW + Len(key) /\ KeyBytes(op, key) = Str(key) /\ Len(key) \in Nat
    BY <1>6, StrFacts, SeqBasics DEF KeyBytes
  <2>4. mid \in Nat /\ mid > 0 /\ mid <= Len(d) + 1 /\ mid = at + Len(KeyBytes(op, key))
    BY SMTT(20), <1>1, <2>2, <2>3
  <2>5. k.val = key /\ k.pos = mid
    BY <2>2
  <2> HIDE DEF mid, k
  <2>6. CASE op = "DELETE"
    <3>1. ValueBytes(op, <<>>) = <<>>
      BY <2>6 DEF ValueBytes
    <3>2. body = [ok |-> TRUE, key |-> key, value |-> <<>>, pos |-> mid]
      BY <1>2, <2>1, <2>5, <2>6
    <3>3. Placed(d, mid, <<>>) /\ mid + 0 = mid
      BY <1>4, <2>4
    <3>4. BodyFound(d, at, op, body, key, <<>>)
      BY <1>1, <2>2, <2>3, <2>4, <2>6, <3>1, <3>2, <3>3 DEF BodyFound, GivesBody
    <3> QED
      BY <1>1, <3>4
  <2>7. CASE op = "PUT"
    <3>1. v = ReadStr(d, mid, end)
      BY <2>5
    <3> HIDE DEF v
    <3>2. v.ok
      BY <1>2, <1>3, <2>1, <2>7
    <3>3. PICK value \in Seq(Byte) :
            /\ Placed(d, mid, Str(value))
            /\ v = [ok |-> TRUE, val |-> value, pos |-> mid + (LenW + Len(value))]
      BY <2>4, <3>1, <3>2, StrAccepted
    <3>4. ValueBytes(op, value) = Str(value) /\ Len(Str(value)) = LenW + Len(value)
      BY <2>7, StrFacts DEF ValueBytes
    <3>5. v.val = value /\ v.pos = mid + (LenW + Len(value))
      BY <3>3
    <3>6. body =
            [ok |-> TRUE, key |-> key, value |-> value, pos |-> mid + (LenW + Len(value))]
      BY <1>2, <2>1, <2>5, <2>7, <3>2, <3>5
    <3>7. BodyFound(d, at, op, body, key, value)
      BY <2>2, <2>3, <2>4, <2>7, <3>3, <3>4, <3>6 DEF BodyFound, GivesBody
    <3> QED
      BY <3>7
  <2> QED
    BY <1>6, <2>6, <2>7
<1> QED
  BY <1>5, <1>6 DEF OpNames

\* A record whose length is in range keeps it.
LEMMA RecFacts ==
    ASSUME NEW op, NEW id, NEW key, NEW value, NEW n \in Nat, n < Pow(LenW)
    PROVE  Rec(op, id, key, value, n) =
             [op |-> op, id |-> id, key |-> key, value |-> value, len |-> n]
<1>1. PICK p : p = Pow(LenW)
  OBVIOUS
<1>2. p \in Nat /\ p > 0 /\ n < p
  BY <1>1, BaseFacts, PowFacts
<1>3. n % p = n
  BY <1>2
<1> QED
  BY <1>1, <1>3 DEF Rec

\* What a turn of the loop reads.
GivesRec(x, r, pos) == x = [ok |-> TRUE, pos |-> pos, rec |-> r]

\* decode at the place of an encoded record: that record.
LEMMA RecordRead ==
    ASSUME NEW d \in Seq(Byte), NEW pos \in Nat, pos > 0, NEW r \in Valid,
           Placed(d, pos, Encode(r))
    PROVE  GivesRec(ReadRecord(d, pos), r, pos + r.len)
<1> DEFINE K == KeyBytes(r.op, r.key)
           V == ValueBytes(r.op, r.value)
           end == pos + r.len
<1>1. /\ r \in Fields /\ r.op \in OpNames /\ r.id \in 0..(Pow(IdW) - 1) /\ r.key \in Seq(Byte)
      /\ r.value \in Seq(Byte) /\ r.len \in Nat /\ r.len <= MaxLength
      /\ r.len = HeaderSize + Len(K) + Len(V)
      /\ r.op \notin {"PUT", "DELETE"} => r.key = <<>>
      /\ r.op # "PUT" => r.value = <<>>
  BY DEF Valid, Fields
<1>2. /\ LenW \in Nat /\ IdW \in Nat /\ HeaderSize = LenW + IdW + 1 /\ HeaderSize \in Nat
      /\ Len(d) \in Nat /\ Pow(IdW) \in Nat
  BY BaseFacts, LengthFacts, SeqBasics
<1>3. /\ Encode(r) \in Seq(Byte) /\ Len(Encode(r)) = r.len
      /\ Placed(d, pos, Uint(r.len, LenW)) /\ Placed(d, pos + LenW, Uint(r.id, IdW))
      /\ Placed(d, pos + LenW + IdW, Uint(Code(r.op), 1))
      /\ Placed(d, pos + HeaderSize, K) /\ Placed(d, pos + HeaderSize + Len(K), V)
      /\ K \in Seq(Byte) /\ V \in Seq(Byte)
  BY <1>1, EncodeParts
<1>4. Len(K) \in Nat /\ Len(V) \in Nat
  BY <1>3, SeqBasics
<1> HIDE DEF K, V
<1>5. PICK n : n = r.len
  OBVIOUS
<1>6. end \in Nat /\ end <= Len(d) + 1
  <2>1. (pos - 1) + Len(Encode(r)) <= Len(d)
    BY DEF Placed
  <2>2. n \in Nat /\ Len(Encode(r)) = n /\ end = pos + n
    BY <1>1, <1>3, <1>5
  <2> HIDE DEF end
  <2> QED
    BY <1>2, <2>1, <2>2
<1>7. /\ n \in Nat /\ n = HeaderSize + Len(K) + Len(V) /\ end = pos + n
      /\ n <= MaxLength /\ n < Pow(LenW)
  BY <1>1, <1>5, LengthFacts
<1> HIDE DEF end
<1> DEFINE at == pos + LenW
           mid == pos + LenW + IdW
           rest == pos + HeaderSize
<1>8. /\ at \in Nat /\ at > 0 /\ mid \in Nat /\ mid > 0 /\ mid = at + IdW
      /\ rest \in Nat /\ rest > 0 /\ rest = mid + 1 /\ end = rest + Len(K) + Len(V)
      /\ Len(d) + 1 \in Nat /\ LenW <= (Len(d) + 1) - pos /\ IdW <= end - at
      /\ 1 <= end - mid /\ ~(n < HeaderSize)
  BY <1>2, <1>4, <1>6, <1>7
<1>9. /\ Placed(d, pos, Uint(n, LenW)) /\ Placed(d, at, Uint(r.id, IdW))
      /\ Placed(d, mid, Uint(Code(r.op), 1)) /\ Placed(d, rest, K) /\ Placed(d, rest + Len(K), V)
      /\ at = pos + LenW
  BY <1>3, <1>5
<1> HIDE DEF at, mid, rest
<1>10. Code(r.op) \in 0..4 /\ Codes[Code(r.op) + 1] = r.op /\ Len(Codes) = 5
  BY <1>1, CodeFacts
<1> DEFINE len == ReadUint(d, pos, LenW, Len(d) + 1)
           id == ReadUint(d, at, IdW, end)
           op == ReadUint(d, mid, 1, end)
           body == ReadBody(d, r.op, rest, end)
<1>11. Gives(len, n, at) /\ Gives(id, r.id, mid) /\ Gives(op, Code(r.op), rest)
  <2>1. Gives(len, n, at)
    <3>1. PICK size : size = Len(d) + 1
      OBVIOUS
    <3>2. size \in Nat /\ LenW <= size - pos
      BY <1>8, <3>1
    <3>3. Gives(ReadUint(d, pos, LenW, size), n, at)
      BY <1>2, <1>7, <1>9, <3>2, UintReadTo
    <3> QED
      BY <3>1, <3>3
  <2>2. r.id \in Nat /\ r.id < Pow(IdW)
    <3>1. PICK i, p : i = r.id /\ p = Pow(IdW)
      OBVIOUS
    <3>2. p \in Nat /\ i \in 0..(p - 1)
      BY <1>1, <1>2, <3>1
    <3>3. i \in Nat /\ i < p
      BY <3>2
    <3> QED
      BY <3>1, <3>3
  <2>3. Gives(id, r.id, mid)
    BY <1>2, <1>6, <1>8, <1>9, <2>2, UintReadTo
  <2>4. Code(r.op) \in Nat /\ Code(r.op) < Pow(1) /\ 1 \in Nat
    BY <1>10, OneByte, BaseFacts
  <2>5. Gives(op, Code(r.op), rest)
    BY <1>6, <1>8, <1>9, <2>4, UintReadTo
  <2> QED
    BY <2>1, <2>3, <2>5
<1>12. GivesBody(body, r.key, r.value, end)
  <2>1. Len(r.key) <= MaxLength /\ Len(r.value) <= MaxLength
    <3>1. MaxLength \in Nat /\ Len(r.key) \in Nat /\ Len(r.value) \in Nat /\ Len(<<>>) = 0
      BY <1>1, LengthFacts, SeqBasics
    <3>2. Len(r.key) = 0 \/ Len(K) = LenW + Len(r.key)
      BY <1>1, <3>1, StrFacts DEF KeyBytes, K
    <3>3. Len(r.value) = 0 \/ Len(V) = LenW + Len(r.value)
      BY <1>1, <3>1, StrFacts DEF ValueBytes, V
    <3>4. PICK kk, vv, m, a, b, h :
            /\ kk = Len(r.key) /\ vv = Len(r.value) /\ m = MaxLength
            /\ a = Len(K) /\ b = Len(V) /\ h = HeaderSize
      OBVIOUS
    <3>5. /\ kk \in Nat /\ vv \in Nat /\ m \in Nat /\ a \in Nat /\ b \in Nat /\ h \in Nat
          /\ kk = 0 \/ a = LenW + kk
          /\ vv = 0 \/ b = LenW + vv
          /\ h + a + b <= m /\ LenW \in Nat
      BY <1>2, <1>4, <1>7, <3>1, <3>2, <3>3, <3>4
    <3>6. kk <= m /\ vv <= m
      BY <3>5
    <3> QED
      BY <3>4, <3>6
  <2>2. BodyAt(d, rest, end, r.op, r.key, r.value)
    BY <1>1, <1>8, <1>9, <2>1 DEF BodyAt, K, V
  <2> QED
    BY <1>1, <1>6, <1>8, <2>2, BodyReadTo
<1> HIDE DEF len, id, op, body
<1>13. /\ len.ok /\ len.val = n /\ len.pos = at
       /\ id.ok /\ id.val = r.id /\ id.pos = mid
       /\ op.ok /\ op.val = Code(r.op) /\ op.pos = rest
       /\ body.ok /\ body.key = r.key /\ body.value = r.value /\ body.pos = end
  BY <1>11, <1>12 DEF Gives, GivesBody
<1>14. /\ end = pos + len.val /\ len = ReadUint(d, pos, LenW, Len(d) + 1)
       /\ id = ReadUint(d, len.pos, IdW, end) /\ op = ReadUint(d, id.pos, 1, end)
       /\ body = ReadBody(d, Codes[op.val + 1], op.pos, end)
  BY <1>7, <1>10, <1>13 DEF len, id, op, body
<1>15. /\ ~(len.val < HeaderSize \/ end > Len(d) + 1) /\ ~(op.val >= Len(Codes))
       /\ EndsAt(body.pos, end)
  <2>1. ~(end > Len(d) + 1)
    BY <1>2, <1>6
  <2>2. ~(Code(r.op) >= 5)
    BY <1>10
  <2> QED
    BY <1>8, <1>10, <1>13, <2>1, <2>2 DEF EndsAt
<1>16. ReadRecord(d, pos) =
         [ok |-> TRUE, pos |-> end,
          rec |-> Rec(Codes[op.val + 1], id.val, body.key, body.value, len.val)]
  <2>1. ReadRecord(d, pos) =
          IF ~len.ok THEN Throws
          ELSE IF len.val < HeaderSize \/ end > Len(d) + 1 THEN Throws
          ELSE IF ~id.ok THEN Throws
          ELSE IF ~op.ok THEN Throws
          ELSE IF op.val >= Len(Codes) THEN Throws
          ELSE IF ~body.ok THEN Throws
          ELSE IF ~EndsAt(body.pos, end) THEN Throws
          ELSE [ok |-> TRUE, pos |-> end,
                rec |-> Rec(Codes[op.val + 1], id.val, body.key, body.value, len.val)]
    BY <1>14 DEF ReadRecord
  <2> QED
    BY <1>13, <1>15, <2>1
<1>17. Rec(Codes[op.val + 1], id.val, body.key, body.value, len.val) = r
  <2>1. Rec(r.op, r.id, r.key, r.value, n) =
          [op |-> r.op, id |-> r.id, key |-> r.key, value |-> r.value, len |-> n]
    BY <1>7, RecFacts
  <2>2. r = [op |-> r.op, id |-> r.id, key |-> r.key, value |-> r.value, len |-> r.len]
    BY <1>1 DEF Fields
  <2> QED
    BY <1>5, <1>10, <1>13, <2>1, <2>2
<1> QED
  BY <1>16, <1>17 DEF end, GivesRec

\* A number that read_uint accepts stands at its place, by name.
LEMMA UintFound ==
    ASSUME NEW d \in Seq(Byte), NEW pos \in Nat, pos > 0, NEW w \in Nat, NEW end \in Nat,
           end <= Len(d) + 1, NEW x, x = ReadUint(d, pos, w, end), x.ok
    PROVE  \E n \in Nat : /\ n < Pow(w) /\ pos + w <= end /\ Placed(d, pos, Uint(n, w))
                          /\ Gives(x, n, pos + w)
BY UintAccepted DEF Gives

\* A record that decode accepts is a possible one, and its encoding stands there.
LEMMA RecordAccepted ==
    ASSUME NEW d \in Seq(Byte), NEW pos \in Nat, pos > 0, ReadRecord(d, pos).ok
    PROVE  \E r \in Valid : Placed(d, pos, Encode(r)) /\ GivesRec(ReadRecord(d, pos), r, pos + r.len)
<1>1. PICK len, end : len = ReadUint(d, pos, LenW, Len(d) + 1) /\ end = pos + len.val
  OBVIOUS
<1>2. PICK id : id = ReadUint(d, len.pos, IdW, end)
  OBVIOUS
<1>3. PICK op : op = ReadUint(d, id.pos, 1, end)
  OBVIOUS
<1>4. PICK body : body = ReadBody(d, Codes[op.val + 1], op.pos, end)
  OBVIOUS
<1>5. ReadRecord(d, pos) =
             IF ~len.ok THEN Throws
             ELSE IF len.val < HeaderSize \/ end > Len(d) + 1 THEN Throws
             ELSE IF ~id.ok THEN Throws
             ELSE IF ~op.ok THEN Throws
             ELSE IF op.val >= Len(Codes) THEN Throws
             ELSE IF ~body.ok THEN Throws
             ELSE IF ~EndsAt(body.pos, end) THEN Throws
             ELSE [ok |-> TRUE, pos |-> end,
                   rec |-> Rec(Codes[op.val + 1], id.val, body.key, body.value, len.val)]
  BY <1>1, <1>2, <1>3, <1>4 DEF ReadRecord
<1>6. ~Throws.ok
  BY DEF Throws
<1>7. /\ len.ok /\ ~(len.val < HeaderSize \/ end > Len(d) + 1) /\ id.ok /\ op.ok
      /\ ~(op.val >= Len(Codes)) /\ body.ok /\ EndsAt(body.pos, end)
  BY <1>5, <1>6
<1>8. ReadRecord(d, pos) =
        [ok |-> TRUE, pos |-> end,
         rec |-> Rec(Codes[op.val + 1], id.val, body.key, body.value, len.val)]
  BY <1>5, <1>7
<1>9. /\ LenW \in Nat /\ IdW \in Nat /\ HeaderSize = LenW + IdW + 1 /\ HeaderSize \in Nat
      /\ Len(d) \in Nat /\ Pow(IdW) \in Nat /\ Len(d) + 1 \in Nat /\ Len(d) + 1 <= Len(d) + 1
  BY BaseFacts, LengthFacts, SeqBasics
<1>10. PICK n \in Nat : /\ n < Pow(LenW) /\ Placed(d, pos, Uint(n, LenW))
                        /\ Gives(len, n, pos + LenW)
  BY <1>1, <1>7, <1>9, UintFound
<1> DEFINE at == pos + LenW
           mid == pos + LenW + IdW
           rest == pos + HeaderSize
<1>11. len.val = n /\ len.pos = at
  BY <1>10 DEF Gives
<1>12. /\ end = pos + n /\ end \in Nat /\ end <= Len(d) + 1 /\ HeaderSize <= n
       /\ at \in Nat /\ at > 0 /\ mid \in Nat /\ mid > 0 /\ at + IdW = mid
       /\ rest \in Nat /\ rest > 0 /\ rest <= end /\ mid + 1 = rest /\ 1 \in Nat
  <2>1. end = pos + n /\ end \in Nat
    BY <1>1, <1>11
  <2>2. ~(n < HeaderSize) /\ ~(end > Len(d) + 1)
    BY <1>7, <1>11
  <2> QED
    BY <1>9, <2>1, <2>2
<1> HIDE DEF at, mid, rest
<1>13. PICK i \in Nat : /\ i < Pow(IdW) /\ Placed(d, at, Uint(i, IdW)) /\ Gives(id, i, at + IdW)
  <2>1. id = ReadUint(d, at, IdW, end)
    BY <1>2, <1>11
  <2> QED
    BY <1>7, <1>9, <1>12, <2>1, UintFound
<1>14. id.val = i /\ id.pos = mid
  BY <1>12, <1>13 DEF Gives
<1>15. PICK c \in Nat : /\ c < Pow(1) /\ Placed(d, mid, Uint(c, 1)) /\ Gives(op, c, mid + 1)
  <2>1. op = ReadUint(d, mid, 1, end)
    BY <1>3, <1>14
  <2> QED
    BY <1>7, <1>12, <2>1, UintFound
<1>16. op.val = c /\ op.pos = rest
  BY <1>12, <1>15 DEF Gives
<1>17. c \in 0..4
  <2>1. ~(c >= 5)
    BY <1>7, <1>16, CodeFacts
  <2> QED
    BY <2>1
<1>18. PICK name \in OpNames : Codes[c + 1] = name /\ Code(name) = c
  BY <1>17, CodeFacts
<1>19. body = ReadBody(d, name, rest, end)
  BY <1>4, <1>16, <1>18
<1>20. PICK key, value \in Seq(Byte) : BodyFound(d, rest, name, body, key, value)
  BY <1>7, <1>12, <1>19, BodyAccepted
<1> DEFINE K == KeyBytes(name, key)
           V == ValueBytes(name, value)
<1>21. body.key = key /\ body.value = value /\ body.pos = rest + Len(K) + Len(V)
  BY <1>20 DEF BodyFound, GivesBody
<1> DEFINE r == [op |-> name, id |-> i, key |-> key, value |-> value, len |-> n]
<1>22. /\ r.op = name /\ r.id = i /\ r.key = key /\ r.value = value /\ r.len = n
  OBVIOUS
<1>23. r \in Fields
  <2>1. i \in 0..(Pow(IdW) - 1)
    BY <1>9, <1>13
  <2> QED
    BY <2>1 DEF Fields
<1> HIDE DEF r
<1>24. K \in Seq(Byte) /\ V \in Seq(Byte)
  BY <1>22, <1>23, EncodeParts
<1>25. n = HeaderSize + Len(K) + Len(V)
  <2>1. end = rest + Len(K) + Len(V)
    BY <1>7, <1>21 DEF EndsAt
  <2>2. Len(K) \in Nat /\ Len(V) \in Nat
    BY <1>24, SeqBasics
  <2> HIDE DEF K, V
  <2>3. PICK a, b, h : a = Len(K) /\ b = Len(V) /\ h = HeaderSize
    OBVIOUS
  <2>4. pos + n = (pos + h) + a + b /\ a \in Nat /\ b \in Nat /\ h \in Nat
    BY <1>9, <1>12, <2>1, <2>2, <2>3 DEF rest
  <2>5. n = h + a + b
    BY <2>4
  <2> QED
    BY <2>3, <2>5
<1>26. r \in Valid
  <2>1. n <= MaxLength
    BY <1>10, LengthFacts
  <2>2. /\ name \notin {"PUT", "DELETE"} => key = <<>>
        /\ name # "PUT" => value = <<>>
    BY <1>20 DEF BodyFound
  <2> QED
    BY <1>22, <1>23, <1>25, <2>1, <2>2 DEF Valid
<1>27. Placed(d, pos, Encode(r))
  <2>1. /\ Placed(d, pos, Uint(r.len, LenW)) /\ Placed(d, pos + LenW, Uint(r.id, IdW))
        /\ Placed(d, pos + LenW + IdW, Uint(Code(r.op), 1))
        /\ Placed(d, pos + HeaderSize, KeyBytes(r.op, r.key))
        /\ Placed(d, pos + HeaderSize + Len(KeyBytes(r.op, r.key)), ValueBytes(r.op, r.value))
    BY <1>10, <1>13, <1>15, <1>18, <1>20, <1>22 DEF at, mid, rest, BodyFound
  <2> QED
    BY <1>23, <2>1, EncodeParts
<1>28. GivesRec(ReadRecord(d, pos), r, pos + r.len)
  <2>1. Rec(name, i, key, value, n) = r
    BY <1>10, RecFacts DEF r
  <2> QED
    BY <1>8, <1>11, <1>12, <1>14, <1>16, <1>18, <1>21, <1>22, <2>1 DEF GivesRec
<1> QED
  BY <1>26, <1>27, <1>28

-----------------------------------------------------------------------------
(* Files of records.                                                        *)

\* A possible record has an encoding of its length, and a byte or more.
LEMMA ValidFacts ==
    ASSUME NEW r \in Valid
    PROVE  Encode(r) \in Seq(Byte) /\ Len(Encode(r)) = r.len /\ r.len \in Nat /\ r.len > 0
<1>1. r \in Fields /\ r.len \in Nat
  BY DEF Valid, Fields
<1>2. r.len = HeaderSize + Len(KeyBytes(r.op, r.key)) + Len(ValueBytes(r.op, r.value))
  BY DEF Valid
<1>3. <<>> \in Seq(Byte) /\ 1 \in Nat /\ 1 > 0
  OBVIOUS
<1>4. /\ Encode(r) \in Seq(Byte)
      /\ Len(Encode(r)) = HeaderSize + Len(KeyBytes(r.op, r.key)) + Len(ValueBytes(r.op, r.value))
      /\ KeyBytes(r.op, r.key) \in Seq(Byte) /\ ValueBytes(r.op, r.value) \in Seq(Byte)
  BY <1>1, <1>3, EncodeParts
<1>5. PICK h, a, b : /\ h = HeaderSize /\ a = Len(KeyBytes(r.op, r.key))
                     /\ b = Len(ValueBytes(r.op, r.value))
  OBVIOUS
<1>6. h \in Nat /\ h > 0 /\ a \in Nat /\ b \in Nat
  BY <1>4, <1>5, LengthFacts, BaseFacts, SeqBasics
<1>7. h + a + b > 0
  BY <1>6
<1> QED
  BY <1>1, <1>2, <1>4, <1>5, <1>7

\* A file is the encodings of its records, one after the other.
LEMMA EncodeAllFacts ==
    ASSUME NEW rs \in Seq(Valid), NEW r \in Valid
    PROVE  /\ EncodeAll(rs) \in Seq(Byte)
           /\ EncodeAll(Append(rs, r)) = EncodeAll(rs) \o Encode(r)
           /\ Append(rs, r) \in Seq(Valid)
<1> DEFINE s == [i \in DOMAIN rs |-> Encode(rs[i])]
           us == Append(rs, r)
           u == [i \in DOMAIN us |-> Encode(us[i])]
           e == Encode(r)
           n == Len(rs)
<1>1. n \in Nat /\ DOMAIN rs = 1..n /\ \A i \in 1..n : rs[i] \in Valid
  BY SeqBasics
<1>2. e \in Seq(Byte) /\ \A i \in 1..n : Encode(rs[i]) \in Seq(Byte)
  BY <1>1, ValidFacts
<1>3. s \in Seq(Seq(Byte)) /\ Len(s) = n /\ \A i \in 1..n : s[i] = Encode(rs[i])
  BY <1>1, <1>2
<1>4. us \in Seq(Valid) /\ Len(us) = n + 1 /\ us[n + 1] = r /\ \A i \in 1..n : us[i] = rs[i]
  BY <1>1, AppendFacts
<1>5. DOMAIN us = 1..(n + 1)
  BY <1>4, SeqBasics
<1> HIDE DEF us
<1>6. \A i \in 1..(n + 1) : Encode(us[i]) \in Seq(Byte)
  BY <1>4, <1>5, SeqBasics, ValidFacts
<1>7. u \in Seq(Seq(Byte)) /\ Len(u) = n + 1 /\ \A i \in 1..(n + 1) : u[i] = Encode(us[i])
  BY <1>1, <1>5, <1>6
<1>8. EncodeAll(rs) = FlattenSeq(s) /\ EncodeAll(us) = FlattenSeq(u)
  BY DEF EncodeAll
<1> HIDE DEF s, u, e
<1> DEFINE v == Append(s, e)
<1>9. v \in Seq(Seq(Byte)) /\ Len(v) = n + 1 /\ v[n + 1] = e /\ \A i \in 1..n : v[i] = s[i]
  BY <1>1, <1>2, <1>3, AppendFacts
<1>10. u = v
  <2>1. ASSUME NEW i \in 1..(n + 1) PROVE u[i] = v[i]
    <3>1. CASE i = n + 1
      BY <1>4, <1>7, <1>9, <3>1 DEF e
    <3>2. CASE i # n + 1
      <4>1. i \in 1..n
        BY <1>1, <3>2
      <4> QED
        BY <1>3, <1>4, <1>7, <1>9, <4>1
    <3> QED
      BY <3>1, <3>2
  <2> HIDE DEF v
  <2> QED
    BY <1>7, <1>9, <2>1, SeqEqual
<1>11. FlattenSeq(v) = FlattenSeq(s) \o e /\ FlattenSeq(s) \in Seq(Byte)
  BY <1>2, <1>3, FlattenAppend
<1> QED
  BY <1>4, <1>8, <1>10, <1>11 DEF e, us

\* A file without records is empty.
LEMMA EncodeNone ==
    EncodeAll(<<>>) = <<>> /\ <<>> \in Seq(Valid) /\ <<>> \in Seq(Byte)
<1>1. <<>> \in Seq(Valid) /\ <<>> \in Seq(Byte)
  OBVIOUS
<1>2. [i \in DOMAIN <<>> |-> Encode(<<>>[i])] = <<>>
  OBVIOUS
<1>3. FlattenSeq(<<>>) = <<>>
  BY DEF FlattenSeq
<1> QED
  BY <1>1, <1>2, <1>3 DEF EncodeAll

\* The first i records of a file.
LEMMA FirstFacts ==
    ASSUME NEW rs \in Seq(Valid), NEW i \in 0..Len(rs)
    PROVE  /\ SubSeq(rs, 1, i) \in Seq(Valid) /\ Len(SubSeq(rs, 1, i)) = i
           /\ \A j \in 1..i : SubSeq(rs, 1, i)[j] = rs[j]
<1>1. i \in Nat /\ 0 \in Nat /\ 0 + 1 = 1
  BY SeqBasics
<1>2. /\ SubSeq(rs, 0 + 1, i) \in Seq(Valid)
      /\ Len(SubSeq(rs, 0 + 1, i)) = IF 0 < i THEN i - 0 ELSE 0
      /\ \A j \in 1..(i - 0) : SubSeq(rs, 0 + 1, i)[j] = rs[0 + j]
  BY <1>1, CutFacts
<1>3. i - 0 = i /\ (IF 0 < i THEN i - 0 ELSE 0) = i /\ \A j \in 1..i : 0 + j = j
  BY <1>1
<1> QED
  BY <1>1, <1>2, <1>3

\* Its ends: none, all, and one more.
LEMMA FirstEnds ==
    ASSUME NEW rs \in Seq(Valid)
    PROVE  /\ SubSeq(rs, 1, 0) = <<>> /\ SubSeq(rs, 1, Len(rs)) = rs
           /\ \A i \in 0..(Len(rs) - 1) :
                rs[i + 1] \in Valid /\ SubSeq(rs, 1, i + 1) = Append(SubSeq(rs, 1, i), rs[i + 1])
<1>1. Len(rs) \in Nat /\ DOMAIN rs = 1..Len(rs) /\ \A i \in 1..Len(rs) : rs[i] \in Valid
  BY SeqBasics
<1>2. SubSeq(rs, 1, 0) = <<>>
  <2>1. 0 \in 0..Len(rs)
    BY <1>1
  <2>2. SubSeq(rs, 1, 0) \in Seq(Valid) /\ Len(SubSeq(rs, 1, 0)) = 0
    BY <2>1, FirstFacts
  <2> QED
    BY <2>2, SeqBasics
<1>3. SubSeq(rs, 1, Len(rs)) = rs
  <2> DEFINE u == SubSeq(rs, 1, Len(rs))
  <2>1. Len(rs) \in 0..Len(rs)
    BY <1>1
  <2>2. u \in Seq(Valid) /\ Len(u) = Len(rs) /\ \A j \in 1..Len(rs) : u[j] = rs[j]
    BY <2>1, FirstFacts
  <2> HIDE DEF u
  <2> QED
    BY <2>2, SeqEqual
<1>4. ASSUME NEW i \in 0..(Len(rs) - 1)
      PROVE  rs[i + 1] \in Valid /\ SubSeq(rs, 1, i + 1) = Append(SubSeq(rs, 1, i), rs[i + 1])
  <2>1. i \in Nat /\ i + 1 \in 1..Len(rs) /\ i + 1 \in 0..Len(rs) /\ i \in 0..Len(rs)
    BY <1>1
  <2> DEFINE u == SubSeq(rs, 1, i)
             w == SubSeq(rs, 1, i + 1)
             r == rs[i + 1]
             v == Append(u, r)
  <2>2. u \in Seq(Valid) /\ Len(u) = i /\ \A j \in 1..i : u[j] = rs[j]
    BY <2>1, FirstFacts
  <2>3. w \in Seq(Valid) /\ Len(w) = i + 1 /\ \A j \in 1..(i + 1) : w[j] = rs[j]
    BY <2>1, FirstFacts
  <2>4. r \in Valid
    BY <1>1, <2>1
  <2> HIDE DEF u, w
  <2>5. v \in Seq(Valid) /\ Len(v) = i + 1 /\ v[i + 1] = r /\ \A j \in 1..i : v[j] = u[j]
    <3> HIDE DEF r
    <3>1. DOMAIN u = 1..i
      BY <2>2, SeqBasics
    <3> QED
      BY <2>2, <2>4, <3>1, AppendFacts
  <2>6. ASSUME NEW j \in 1..(i + 1) PROVE w[j] = v[j]
    <3>1. CASE j = i + 1
      BY <2>3, <2>5, <3>1
    <3>2. CASE j # i + 1
      <4>1. j \in 1..i
        BY <2>1, <3>2
      <4> QED
        BY <2>2, <2>3, <2>5, <4>1
    <3> QED
      BY <3>1, <3>2
  <2> HIDE DEF v, r
  <2>7. w = v
    BY <2>3, <2>5, <2>6, SeqEqual
  <2> QED
    BY <2>4, <2>7 DEF w, v, u, r
<1> QED
  BY <1>2, <1>3, <1>4

\* The bytes of the first i records.
LEMMA FirstBytes ==
    ASSUME NEW rs \in Seq(Valid), NEW i \in 0..(Len(rs) - 1)
    PROVE  /\ EncodeAll(SubSeq(rs, 1, i)) \in Seq(Byte)
           /\ EncodeAll(SubSeq(rs, 1, i + 1)) = EncodeAll(SubSeq(rs, 1, i)) \o Encode(rs[i + 1])
           /\ rs[i + 1] \in Valid
<1>1. i \in 0..Len(rs)
  BY SeqBasics
<1>2. SubSeq(rs, 1, i) \in Seq(Valid)
  BY <1>1, FirstFacts
<1>3. rs[i + 1] \in Valid /\ SubSeq(rs, 1, i + 1) = Append(SubSeq(rs, 1, i), rs[i + 1])
  BY FirstEnds
<1> QED
  BY <1>2, <1>3, EncodeAllFacts

\* What stands in the front part of a file stands in the whole of it.
LEMMA PlacedWider ==
    ASSUME NEW a \in Seq(Byte), NEW b \in Seq(Byte), NEW pos \in Nat, pos > 0, NEW s \in Seq(Byte),
           Placed(a, pos, s)
    PROVE  Placed(a \o b, pos, s)
<1> DEFINE c == a \o b
<1>1. /\ Len(a) \in Nat /\ Len(b) \in Nat /\ Len(s) \in Nat /\ DOMAIN a = 1..Len(a)
  BY SeqBasics
<1>2. Len(c) = Len(a) + Len(b) /\ \A i \in 1..Len(a) : c[i] = a[i]
  BY <1>1, ConcatFacts
<1> HIDE DEF c
<1>3. (pos - 1) + Len(s) <= Len(a) /\ \A i \in 1..Len(s) : a[(pos - 1) + i] = s[i]
  BY DEF Placed
<1>4. (pos - 1) + Len(s) <= Len(c)
  BY <1>1, <1>2, <1>3
<1>5. ASSUME NEW i \in 1..Len(s) PROVE c[(pos - 1) + i] = s[i]
  <2>1. (pos - 1) + i \in 1..Len(a)
    BY <1>1, <1>3
  <2> QED
    BY <1>2, <1>3, <2>1
<1>6. Placed(c, pos, s)
  BY <1>4, <1>5 DEF Placed
<1> QED
  BY <1>6 DEF c

\* A file begins with the bytes of its first i records.
LEMMA PrefixPlaced ==
    ASSUME NEW rs \in Seq(Valid), NEW i \in 0..Len(rs)
    PROVE  Placed(EncodeAll(rs), 1, EncodeAll(SubSeq(rs, 1, i)))
<1> DEFINE n == Len(rs) - i
           E(j) == EncodeAll(SubSeq(rs, 1, j))
           P == {m \in 0..n : E(i + m) \in Seq(Byte) /\ Placed(E(i + m), 1, E(i))}
<1>1. Len(rs) \in Nat /\ i \in Nat /\ n \in Nat
  BY SeqBasics
<1>2. \A j \in 0..Len(rs) : E(j) \in Seq(Byte)
  <2>1. ASSUME NEW j \in 0..Len(rs) PROVE EncodeAll(SubSeq(rs, 1, j)) \in Seq(Byte)
    <3>1. CASE j = Len(rs)
      <4>1. CASE j = 0
        <5>1. SubSeq(rs, 1, j) = <<>>
          BY <4>1, FirstEnds
        <5> QED
          BY <5>1, EncodeNone
      <4>2. CASE j # 0
        <5>1. j - 1 \in 0..(Len(rs) - 1) /\ (j - 1) + 1 = j /\ j - 1 \in 0..Len(rs)
          BY <1>1, <4>2
        <5>2. SubSeq(rs, 1, j) \in Seq(Valid) /\ rs[(j - 1) + 1] \in Valid
          BY <5>1, FirstFacts, FirstEnds
        <5> QED
          BY <5>2, EncodeAllFacts
      <4> QED
        BY <4>1, <4>2
    <3>2. CASE j # Len(rs)
      <4>1. j \in 0..(Len(rs) - 1)
        BY <1>1, <3>2
      <4> QED
        BY <4>1, FirstBytes
    <3> QED
      BY <3>1, <3>2
  <2> QED
    BY <2>1
<1>3. 0 \in P
  <2>1. i + 0 = i /\ E(i) \in Seq(Byte) /\ 0 \in 0..n
    BY <1>1, <1>2
  <2> HIDE DEF E
  <2>2. \A k \in 1..Len(E(i)) : (1 - 1) + k = k
    BY <2>1, SeqBasics
  <2>3. Placed(E(i), 1, E(i))
    BY <2>1, <2>2, SeqBasics DEF Placed
  <2> QED
    BY <2>1, <2>3
<1>4. ASSUME NEW m \in 0..(n - 1), m \in P PROVE m + 1 \in P
  <2>1. i + m \in 0..(Len(rs) - 1) /\ i + (m + 1) = (i + m) + 1 /\ m + 1 \in 0..n
    BY <1>1
  <2>2. /\ E(i + m) \in Seq(Byte) /\ E((i + m) + 1) = E(i + m) \o Encode(rs[(i + m) + 1])
        /\ rs[(i + m) + 1] \in Valid
    BY <2>1, FirstBytes
  <2>3. Encode(rs[(i + m) + 1]) \in Seq(Byte) /\ E(i) \in Seq(Byte)
    BY <1>2, <2>2, ValidFacts
  <2>4. PICK b : b = Encode(rs[(i + m) + 1])
    OBVIOUS
  <2> HIDE DEF E
  <2>5. Placed(E(i + m), 1, E(i)) /\ 1 \in Nat /\ 1 > 0
    BY <1>4
  <2>6. Placed(E(i + m) \o b, 1, E(i))
    BY <2>2, <2>3, <2>4, <2>5, PlacedWider
  <2>7. E(i + m) \o b \in Seq(Byte)
    BY <2>2, <2>3, <2>4, ConcatFacts
  <2> QED
    BY <2>1, <2>2, <2>4, <2>6, <2>7
<1>5. n \in P
  <2> HIDE DEF P
  <2>1. \A k \in 0..n : k \in P
    <3> HIDE DEF n
    <3> QED
      BY <1>1, <1>3, <1>4, UpTo
  <2>2. n \in 0..n
    BY <1>1
  <2> QED
    BY <2>1, <2>2
<1>6. i + n = Len(rs)
  BY <1>1
<1>7. E(Len(rs)) = EncodeAll(rs)
  BY FirstEnds
<1> QED
  BY <1>5, <1>6, <1>7

\* A file is bytes.
LEMMA FileBytes ==
    ASSUME NEW rs \in Seq(Valid)
    PROVE  EncodeAll(rs) \in Seq(Byte)
<1>1. CASE rs = <<>>
  BY <1>1, EncodeNone
<1>2. CASE rs # <<>>
  <2>1. 1 \in DOMAIN rs
    BY <1>2, SeqBasics
  <2>2. rs[1] \in Valid
    BY <2>1, SeqBasics
  <2> QED
    BY <2>2, EncodeAllFacts
<1> QED
  BY <1>1, <1>2

\* Where the next record of a file stands; before the last one there is a byte left.
LEMMA NextPlaced ==
    ASSUME NEW rs \in Seq(Valid), NEW i \in 0..(Len(rs) - 1), NEW p,
           p = Len(EncodeAll(SubSeq(rs, 1, i))) + 1
    PROVE  /\ rs[i + 1] \in Valid /\ p \in Nat /\ p > 0
           /\ Placed(EncodeAll(rs), p, Encode(rs[i + 1]))
           /\ p + rs[i + 1].len = Len(EncodeAll(SubSeq(rs, 1, i + 1))) + 1
           /\ p < Len(EncodeAll(rs)) + 1
<1> DEFINE d == EncodeAll(rs)
           e == EncodeAll(SubSeq(rs, 1, i))
           r == rs[i + 1]
           b == Encode(r)
<1>1. d \in Seq(Byte) /\ e \in Seq(Byte) /\ EncodeAll(SubSeq(rs, 1, i + 1)) = e \o b /\ r \in Valid
  BY FileBytes, FirstBytes
<1>2. b \in Seq(Byte) /\ Len(b) = r.len /\ r.len \in Nat /\ r.len > 0
  BY <1>1, ValidFacts
<1>3. i + 1 \in 0..Len(rs)
  BY SeqBasics
<1>4. Placed(d, 1, e \o b)
  BY <1>1, <1>3, PrefixPlaced
<1> HIDE DEF d, e, b, r
<1>5. 1 \in Nat /\ 1 > 0 /\ Len(e) \in Nat /\ Len(d) \in Nat
  BY <1>1, SeqBasics
<1>6. Placed(d, 1 + Len(e), b)
  BY <1>1, <1>2, <1>4, <1>5, PlacedJoin
<1>7. p = Len(e) + 1
  BY DEF e
<1>8. 1 + Len(e) = p /\ p \in Nat /\ p > 0
  BY <1>5, <1>7
<1>9. Placed(d, p, b)
  BY <1>6, <1>8
<1>10. (p - 1) + Len(b) <= Len(d)
  BY <1>9 DEF Placed
<1>11. p < Len(d) + 1
  BY <1>2, <1>5, <1>8, <1>10
<1>12. Len(e \o b) = Len(e) + Len(b)
  BY <1>1, <1>2, ConcatFacts
<1>13. p + r.len = Len(e \o b) + 1
  <2>1. PICK x, y, z : x = Len(e) /\ y = Len(b) /\ z = Len(e \o b)
    OBVIOUS
  <2>2. z = x + y /\ p = x + 1 /\ x \in Nat /\ y \in Nat
    BY <1>2, <1>5, <1>7, <1>12, <2>1
  <2>3. p + y = z + 1
    BY <2>2
  <2> QED
    BY <1>2, <2>1, <2>3
<1> QED
  BY <1>1, <1>8, <1>9, <1>11, <1>13 DEF d, e, b, r

-----------------------------------------------------------------------------
(* The turns of decode.                                                     *)

Turns == {Throws} \cup [ok : {TRUE}, pos : Nat \ {0}, recs : Seq(Valid)]

\* The state before each turn.
Turned(d, t) ==
    /\ t \in [0..Len(d) -> Turns]
    /\ t[0] = [ok |-> TRUE, pos |-> 1, recs |-> <<>>]
    /\ \A k \in 0..Len(d) : k # 0 => t[k] = NextTurn(d, t[k - 1])
    /\ Decode(d) = IF t[Len(d)].ok THEN [ok |-> TRUE, recs |-> t[Len(d)].recs] ELSE Throws

\* A state in which nothing was thrown.
LEMMA TurnOk ==
    ASSUME NEW s \in Turns, s.ok
    PROVE  s.pos \in Nat /\ s.pos > 0 /\ s.recs \in Seq(Valid)
<1>1. CASE s = Throws
  <2>1. ~Throws.ok
    BY DEF Throws
  <2> QED
    BY <1>1, <2>1
<1>2. CASE s \in [ok : {TRUE}, pos : Nat \ {0}, recs : Seq(Valid)]
  BY <1>2
<1> QED
  BY <1>1, <1>2 DEF Turns

\* What a turn does that reads a record.
LEMMA TurnReads ==
    ASSUME NEW d, NEW s, s.ok, ~AtEnd(d, s.pos), NEW r, NEW p, GivesRec(ReadRecord(d, s.pos), r, p)
    PROVE  NextTurn(d, s) = [ok |-> TRUE, pos |-> p, recs |-> Append(s.recs, r)]
<1>1. PICK x : x = ReadRecord(d, s.pos)
  OBVIOUS
<1>2. x.ok /\ x.pos = p /\ x.rec = r
  BY <1>1 DEF GivesRec
<1>3. NextTurn(d, s) = [ok |-> TRUE, pos |-> x.pos, recs |-> Append(s.recs, x.rec)]
  BY <1>1, <1>2 DEF NextTurn, Extended
<1> QED
  BY <1>2, <1>3

\* What a turn may do at all.
LEMMA TurnCases ==
    ASSUME NEW d \in Seq(Byte), NEW s \in Turns
    PROVE  \/ NextTurn(d, s) = Throws
           \/ NextTurn(d, s) = s /\ (s.ok => AtEnd(d, s.pos))
           \/ /\ s.ok /\ ~AtEnd(d, s.pos)
              /\ \E r \in Valid : /\ Placed(d, s.pos, Encode(r))
                                  /\ NextTurn(d, s) = [ok |-> TRUE, pos |-> s.pos + r.len,
                                                       recs |-> Append(s.recs, r)]
<1>1. CASE ~s.ok \/ AtEnd(d, s.pos)
  <2>1. NextTurn(d, s) = s
    BY <1>1 DEF NextTurn
  <2> QED
    BY <1>1, <2>1
<1>2. CASE s.ok /\ ~AtEnd(d, s.pos)
  <2>1. s.pos \in Nat /\ s.pos > 0
    BY <1>2, TurnOk
  <2>2. CASE ~ReadRecord(d, s.pos).ok
    BY <1>2, <2>2 DEF NextTurn, Extended
  <2>3. CASE ReadRecord(d, s.pos).ok
    <3>1. PICK p : p = s.pos
      OBVIOUS
    <3>2. PICK r \in Valid : Placed(d, p, Encode(r)) /\ GivesRec(ReadRecord(d, p), r, p + r.len)
      BY <2>1, <2>3, <3>1, RecordAccepted
    <3>3. NextTurn(d, s) = [ok |-> TRUE, pos |-> p + r.len, recs |-> Append(s.recs, r)]
      BY <1>2, <3>1, <3>2, TurnReads
    <3> QED
      BY <1>2, <3>1, <3>2, <3>3
  <2> QED
    BY <2>2, <2>3
<1> QED
  BY <1>1, <1>2

\* A turn goes from a state of the loop to one.
LEMMA TurnTyped ==
    ASSUME NEW d \in Seq(Byte), NEW s \in Turns
    PROVE  NextTurn(d, s) \in Turns
<1>1. CASE NextTurn(d, s) = Throws
  BY <1>1 DEF Turns
<1>2. CASE NextTurn(d, s) = s
  BY <1>2
<1>3. CASE /\ s.ok
           /\ \E r \in Valid : NextTurn(d, s) = [ok |-> TRUE, pos |-> s.pos + r.len,
                                                 recs |-> Append(s.recs, r)]
  <2>1. PICK r \in Valid : NextTurn(d, s) = [ok |-> TRUE, pos |-> s.pos + r.len,
                                             recs |-> Append(s.recs, r)]
    BY <1>3
  <2>2. s.pos \in Nat /\ s.pos > 0 /\ s.recs \in Seq(Valid)
    BY <1>3, TurnOk
  <2>3. r.len \in Nat
    BY ValidFacts
  <2>4. s.pos + r.len \in Nat \ {0}
    BY <2>2, <2>3
  <2>5. Append(s.recs, r) \in Seq(Valid)
    BY <2>2, AppendFacts
  <2> QED
    BY <2>1, <2>4, <2>5 DEF Turns
<1> QED
  BY <1>1, <1>2, <1>3, TurnCases

\* The loop of decode as the states before its turns.
LEMMA TurnSteps ==
    ASSUME NEW d \in Seq(Byte)
    PROVE  \E t : Turned(d, t)
<1> DEFINE w == Len(d)
           start == [ok |-> TRUE, pos |-> 1, recs |-> <<>>]
           G(f) == [n \in 0..w |-> IF n = 0 THEN start ELSE NextTurn(d, f[n - 1])]
           step == [x \in Nat \X Turns |-> NextTurn(d, x[2])]
           t == CHOOSE f : f = G(f)
<1>1. Decode(d) = IF t[w].ok THEN [ok |-> TRUE, recs |-> t[w].recs] ELSE Throws
  BY DEF Decode, Result
<1>2. w \in Nat
  BY SeqBasics
<1>3. start \in Turns
  <2>1. <<>> \in Seq(Valid)
    OBVIOUS
  <2> QED
    BY <2>1 DEF Turns
<1>4. step \in [Nat \X Turns -> Turns]
  <2>1. ASSUME NEW x \in Nat \X Turns PROVE NextTurn(d, x[2]) \in Turns
    <3>1. x[2] \in Turns
      OBVIOUS
    <3> QED
      BY <3>1, TurnTyped
  <2> QED
    BY <2>1
<1> HIDE DEF w, start
<1>5. PICK f \in [0..w -> Turns] :
        f[0] = start /\ \A k \in 0..w : k # 0 => f[k] = step[<<k - 1, f[k - 1]>>]
  <2> HIDE DEF step
  <2>1. Traced(Turns, start, step, w)
    BY <1>2, <1>3, <1>4, RecursionBack
  <2> QED
    BY <2>1 DEF Traced
<1>6. ASSUME NEW k \in 0..w, k # 0 PROVE f[k] = NextTurn(d, f[k - 1])
  <2>1. k - 1 \in 0..w /\ k - 1 \in Nat
    BY <1>2, <1>6
  <2>2. <<k - 1, f[k - 1]>> \in Nat \X Turns
    BY <2>1
  <2> QED
    BY <1>5, <1>6, <2>2
<1>7. f = G(f)
  <2>1. f = [k \in 0..w |-> f[k]]
    OBVIOUS
  <2> QED
    BY <1>5, <1>6, <2>1
<1>8. t = G(t)
  <2>1. \E x : x = G(x)
    BY <1>7, Zenon
  <2> HIDE DEF G
  <2> QED
    BY <2>1, Zenon
<1> HIDE DEF t
<1>9. t[0] = start /\ \A k \in 0..w : k # 0 => t[k] = NextTurn(d, t[k - 1])
  <2>1. \A k \in 0..w : t[k] = IF k = 0 THEN start ELSE NextTurn(d, t[k - 1])
    BY <1>8
  <2>2. 0 \in 0..w
    BY <1>2
  <2> QED
    BY <2>1, <2>2
<1> DEFINE P == {k \in 0..w : t[k] \in Turns}
<1>10. \A k \in 0..w : k \in P
  <2>1. 0 \in P
    BY <1>2, <1>3, <1>9
  <2>2. ASSUME NEW k \in 0..(w - 1), k \in P PROVE k + 1 \in P
    <3>1. k + 1 \in 0..w /\ k + 1 # 0 /\ (k + 1) - 1 = k
      BY <1>2
    <3>2. t[k + 1] = NextTurn(d, t[k]) /\ t[k] \in Turns
      BY <1>9, <2>2, <3>1
    <3> QED
      BY <3>1, <3>2, TurnTyped
  <2> HIDE DEF P
  <2> QED
    BY <1>2, <2>1, <2>2, UpTo
<1>11. t \in [0..w -> Turns]
  <2>1. t = [k \in 0..w |-> t[k]]
    BY <1>8
  <2> QED
    BY <1>10, <2>1
<1>12. Turned(d, t)
  BY <1>1, <1>9, <1>11 DEF Turned, w, start
<1> QED
  BY <1>12

\* What has been read after k turns: the front part of the bytes, and all of
\* them or at least k.
ReadUpTo(d, k, s) ==
    s.ok => /\ Placed(d, 1, EncodeAll(s.recs)) /\ s.pos = Len(EncodeAll(s.recs)) + 1
            /\ s.pos = Len(d) + 1 \/ s.pos >= k + 1

\* A turn keeps that.
LEMMA ReadUpToStep ==
    ASSUME NEW d \in Seq(Byte), NEW s \in Turns, NEW k \in Nat, ReadUpTo(d, k, s)
    PROVE  ReadUpTo(d, k + 1, NextTurn(d, s))
<1> DEFINE next == NextTurn(d, s)
<1>1. CASE next = Throws
  <2>1. ~Throws.ok
    BY DEF Throws
  <2> QED
    BY <1>1, <2>1 DEF ReadUpTo
<1>2. CASE next = s /\ (s.ok => AtEnd(d, s.pos))
  BY <1>2 DEF ReadUpTo, AtEnd
<1>3. ASSUME s.ok, ~AtEnd(d, s.pos), NEW r \in Valid, Placed(d, s.pos, Encode(r)),
             next = [ok |-> TRUE, pos |-> s.pos + r.len, recs |-> Append(s.recs, r)]
      PROVE  ReadUpTo(d, k + 1, next)
  <2>1. PICK rs, p : rs = s.recs /\ p = s.pos
    OBVIOUS
  <2>2. p \in Nat /\ p > 0 /\ rs \in Seq(Valid)
    BY <1>3, <2>1, TurnOk
  <2> DEFINE e == EncodeAll(rs)
             b == Encode(r)
  <2>3. Placed(d, 1, e) /\ p = Len(e) + 1 /\ p >= k + 1 /\ Placed(d, p, b)
    BY <1>3, <2>1 DEF ReadUpTo, AtEnd
  <2>4. /\ b \in Seq(Byte) /\ Len(b) = r.len /\ r.len \in Nat /\ r.len > 0
        /\ e \in Seq(Byte) /\ EncodeAll(Append(rs, r)) = e \o b
    BY <2>2, ValidFacts, EncodeAllFacts
  <2>5. next.ok /\ next.pos = p + r.len /\ next.recs = Append(rs, r)
    BY <1>3, <2>1
  <2> HIDE DEF e, b, next
  <2>6. 1 \in Nat /\ 1 > 0 /\ 1 + Len(e) = p /\ Len(e) \in Nat
    BY <2>3, <2>4, SeqBasics
  <2>7. Placed(d, 1 + Len(e), b)
    BY <2>3, <2>6
  <2>8. Placed(d, 1, e \o b)
    BY <2>3, <2>4, <2>6, <2>7, PlacedJoin
  <2>9. Len(e \o b) = Len(e) + Len(b)
    BY <2>4, ConcatFacts
  <2>10. PICK x, y, z : x = Len(e) /\ y = Len(b) /\ z = Len(e \o b)
    OBVIOUS
  <2>11. x \in Nat /\ y \in Nat /\ y > 0 /\ z = x + y /\ p = x + 1 /\ p >= k + 1
    BY <2>3, <2>4, <2>6, <2>9, <2>10
  <2>12. p + y = z + 1 /\ p + y >= (k + 1) + 1
    BY <2>11
  <2>13. next.pos = Len(e \o b) + 1 /\ next.pos >= (k + 1) + 1
    BY <2>4, <2>5, <2>10, <2>12
  <2> QED
    BY <2>4, <2>5, <2>8, <2>13 DEF ReadUpTo
<1> QED
  BY <1>1, <1>2, <1>3, TurnCases

\* After as many turns as there are bytes, everything is read.
LEMMA LastTurn ==
    ASSUME NEW d \in Seq(Byte), NEW t, Turned(d, t), t[Len(d)].ok
    PROVE  t[Len(d)].recs \in Seq(Valid) /\ EncodeAll(t[Len(d)].recs) = d
<1> DEFINE w == Len(d)
           P == {k \in 0..w : ReadUpTo(d, k, t[k])}
<1>1. w \in Nat
  BY SeqBasics
<1>2. /\ t \in [0..w -> Turns] /\ t[0] = [ok |-> TRUE, pos |-> 1, recs |-> <<>>]
      /\ \A k \in 0..w : k # 0 => t[k] = NextTurn(d, t[k - 1])
  BY DEF Turned
<1> HIDE DEF w
<1>3. 0 \in P
  <2>1. t[0].recs = <<>> /\ t[0].pos = 1 /\ EncodeAll(<<>>) = <<>> /\ Len(<<>>) = 0
    BY <1>2, EncodeNone
  <2>2. Placed(d, 1, <<>>)
    BY <1>1 DEF Placed, w
  <2>3. ReadUpTo(d, 0, t[0])
    BY <2>1, <2>2 DEF ReadUpTo
  <2>4. 0 \in 0..w
    BY <1>1
  <2> QED
    BY <2>3, <2>4
<1>4. ASSUME NEW k \in 0..(w - 1), k \in P PROVE k + 1 \in P
  <2>1. k + 1 \in 0..w /\ k + 1 # 0 /\ (k + 1) - 1 = k /\ k \in 0..w /\ k \in Nat
    BY <1>1
  <2>2. t[k + 1] = NextTurn(d, t[k]) /\ t[k] \in Turns /\ ReadUpTo(d, k, t[k])
    BY <1>2, <1>4, <2>1
  <2>3. ReadUpTo(d, k + 1, NextTurn(d, t[k]))
    BY <2>1, <2>2, ReadUpToStep
  <2> QED
    BY <2>1, <2>2, <2>3
<1>5. w \in P
  <2>1. w \in 0..w
    BY <1>1
  <2> HIDE DEF P
  <2> QED
    BY <1>1, <1>3, <1>4, <2>1, UpTo
<1>6. PICK s : s = t[w]
  OBVIOUS
<1>7. s \in Turns /\ s.ok /\ ReadUpTo(d, w, s)
  BY <1>1, <1>2, <1>5, <1>6 DEF w
<1>8. s.recs \in Seq(Valid)
  BY <1>7, TurnOk
<1> DEFINE e == EncodeAll(s.recs)
<1>9. Placed(d, 1, e) /\ s.pos = Len(e) + 1 /\ (s.pos = w + 1 \/ s.pos >= w + 1)
  BY <1>7 DEF ReadUpTo, w
<1>10. e \in Seq(Byte)
  BY <1>8, FileBytes
<1> HIDE DEF e
<1>11. Len(e) \in Nat /\ (1 - 1) + Len(e) <= w
  BY <1>9, <1>10, SeqBasics DEF Placed, w
<1>12. Len(e) = w
  BY <1>1, <1>9, <1>11
<1>13. e = d
  BY <1>9, <1>10, <1>12, PlacedWhole DEF w
<1> QED
  BY <1>6, <1>8, <1>13 DEF e, w

\* Bytes that decode accepts are the encoding of the possible records it returns.
LEMMA DecodeCanon ==
    ASSUME NEW d \in Seq(Byte), Decode(d).ok
    PROVE  Decode(d).recs \in Seq(Valid) /\ EncodeAll(Decode(d).recs) = d
<1>1. PICK t : Turned(d, t)
  BY TurnSteps
<1>2. Decode(d) = IF t[Len(d)].ok THEN [ok |-> TRUE, recs |-> t[Len(d)].recs] ELSE Throws
  BY <1>1 DEF Turned
<1>3. ~Throws.ok
  BY DEF Throws
<1>4. t[Len(d)].ok
  BY <1>2, <1>3
<1>5. Decode(d).recs = t[Len(d)].recs
  BY <1>2, <1>4
<1> QED
  BY <1>1, <1>4, <1>5, LastTurn

\* The loop has read the first records of a file.
ReadFirst(rs, s) ==
    s.ok /\ \E i \in 0..Len(rs) : /\ s.recs = SubSeq(rs, 1, i)
                                  /\ s.pos = Len(EncodeAll(SubSeq(rs, 1, i))) + 1

\* A turn keeps that.
LEMMA ReadFirstStep ==
    ASSUME NEW rs \in Seq(Valid), NEW s, ReadFirst(rs, s)
    PROVE  ReadFirst(rs, NextTurn(EncodeAll(rs), s))
<1> DEFINE d == EncodeAll(rs)
           next == NextTurn(d, s)
<1>1. d \in Seq(Byte) /\ Len(d) \in Nat /\ Len(rs) \in Nat
  BY FileBytes, SeqBasics
<1>2. PICK i \in 0..Len(rs) : /\ s.recs = SubSeq(rs, 1, i)
                              /\ s.pos = Len(EncodeAll(SubSeq(rs, 1, i))) + 1
  BY DEF ReadFirst
<1>3. s.ok
  BY DEF ReadFirst
<1>4. CASE AtEnd(d, s.pos)
  <2>1. next = s
    BY <1>4 DEF NextTurn
  <2> QED
    BY <2>1
<1>5. CASE ~AtEnd(d, s.pos)
  <2>1. i # Len(rs)
    <3>1. ASSUME i = Len(rs) PROVE FALSE
      <4>1. s.pos = Len(d) + 1
        BY <1>2, <3>1, FirstEnds
      <4> QED
        BY <1>5, <4>1 DEF AtEnd
    <3> QED
      BY <3>1
  <2>2. i \in 0..(Len(rs) - 1) /\ i + 1 \in 0..Len(rs)
    BY <1>1, <2>1
  <2>3. PICK p, r : p = s.pos /\ r = rs[i + 1]
    OBVIOUS
  <2>4. /\ r \in Valid /\ p \in Nat /\ p > 0 /\ Placed(d, p, Encode(r))
        /\ p + r.len = Len(EncodeAll(SubSeq(rs, 1, i + 1))) + 1
    BY <1>2, <2>2, <2>3, NextPlaced
  <2>5. SubSeq(rs, 1, i + 1) = Append(SubSeq(rs, 1, i), r)
    BY <2>2, <2>3, FirstEnds
  <2> HIDE DEF d
  <2>6. GivesRec(ReadRecord(d, s.pos), r, p + r.len)
    BY <1>1, <2>3, <2>4, RecordRead
  <2>7. next = [ok |-> TRUE, pos |-> p + r.len, recs |-> Append(s.recs, r)]
    BY <1>3, <1>5, <2>6, TurnReads
  <2> HIDE DEF next
  <2>8. next.ok /\ next.pos = p + r.len /\ next.recs = Append(s.recs, r)
    BY <2>7
  <2>9. /\ next.recs = SubSeq(rs, 1, i + 1)
        /\ next.pos = Len(EncodeAll(SubSeq(rs, 1, i + 1))) + 1
    BY <1>2, <2>4, <2>5, <2>8
  <2>10. ReadFirst(rs, next)
    BY <2>2, <2>8, <2>9 DEF ReadFirst
  <2> QED
    BY <2>10 DEF next, d
<1> QED
  BY <1>4, <1>5

\* A file of possible records is read back as they are.
LEMMA DecodeRead ==
    ASSUME NEW rs \in Seq(Valid)
    PROVE  Decode(EncodeAll(rs)) = [ok |-> TRUE, recs |-> rs]
<1> DEFINE d == EncodeAll(rs)
           w == Len(d)
<1>1. d \in Seq(Byte) /\ w \in Nat /\ Len(rs) \in Nat
  BY FileBytes, SeqBasics
<1>2. PICK t : Turned(d, t)
  BY <1>1, TurnSteps
<1> DEFINE P == {k \in 0..w : ReadFirst(rs, t[k])}
<1>3. /\ t[0] = [ok |-> TRUE, pos |-> 1, recs |-> <<>>]
      /\ \A k \in 0..w : k # 0 => t[k] = NextTurn(d, t[k - 1])
      /\ Decode(d) = IF t[w].ok THEN [ok |-> TRUE, recs |-> t[w].recs] ELSE Throws
  BY <1>2 DEF Turned
<1>4. 0 \in P
  <2>1. SubSeq(rs, 1, 0) = <<>> /\ EncodeAll(<<>>) = <<>> /\ Len(<<>>) + 1 = 1
    BY FirstEnds, EncodeNone
  <2>2. t[0].ok /\ t[0].pos = 1 /\ t[0].recs = <<>> /\ 0 \in 0..Len(rs)
    BY <1>1, <1>3
  <2>3. ReadFirst(rs, t[0])
    BY <2>1, <2>2 DEF ReadFirst
  <2>4. 0 \in 0..w
    BY <1>1
  <2> QED
    BY <2>3, <2>4
<1>5. ASSUME NEW k \in 0..(w - 1), k \in P PROVE k + 1 \in P
  <2>1. k + 1 \in 0..w /\ k + 1 # 0 /\ (k + 1) - 1 = k
    BY <1>1
  <2>2. t[k + 1] = NextTurn(d, t[k]) /\ ReadFirst(rs, t[k])
    BY <1>3, <1>5, <2>1
  <2>3. ReadFirst(rs, NextTurn(d, t[k]))
    BY <2>2, ReadFirstStep
  <2> QED
    BY <2>1, <2>2, <2>3
<1>6. w \in P
  <2>1. w \in 0..w
    BY <1>1
  <2> HIDE DEF P, w
  <2> QED
    BY <1>1, <1>4, <1>5, <2>1, UpTo
<1>7. ReadFirst(rs, t[w])
  BY <1>6
<1>8. t[w].ok
  BY <1>7 DEF ReadFirst
<1>9. PICK i \in 0..Len(rs) : t[w].recs = SubSeq(rs, 1, i)
  BY <1>7 DEF ReadFirst
<1>10. EncodeAll(SubSeq(rs, 1, i)) = d
  BY <1>1, <1>2, <1>8, <1>9, LastTurn
<1>11. i = Len(rs)
  <2>1. ASSUME i # Len(rs) PROVE FALSE
    <3>1. i \in 0..(Len(rs) - 1)
      BY <1>1, <2>1
    <3>2. Len(EncodeAll(SubSeq(rs, 1, i))) + 1 < Len(d) + 1
      BY <3>1, NextPlaced
    <3> HIDE DEF d
    <3>3. w + 1 < w + 1
      BY <1>10, <3>2
    <3> HIDE DEF w
    <3> QED
      BY <1>1, <3>3
  <2> QED
    BY <2>1
<1>12. t[w].recs = rs
  BY <1>9, <1>11, FirstEnds
<1> QED
  BY <1>3, <1>8, <1>12

\* No file of records is the front part of another one, but for files that
\* have its first records.
LEMMA PrefixFree ==
    ASSUME NEW rs \in Seq(Valid), NEW us \in Seq(Valid),
           Placed(EncodeAll(rs), 1, EncodeAll(us))
    PROVE  \E i \in 0..Len(rs) : us = SubSeq(rs, 1, i)
<1> DEFINE d == EncodeAll(rs)
           e == EncodeAll(us)
           n == Len(us)
           P == {j \in 0..n : j <= Len(rs) /\ SubSeq(us, 1, j) = SubSeq(rs, 1, j)}
<1>1. /\ d \in Seq(Byte) /\ Len(d) \in Nat /\ Len(rs) \in Nat /\ n \in Nat
      /\ e \in Seq(Byte) /\ Len(e) \in Nat
  BY FileBytes, SeqBasics
<1>2. 0 \in P
  <2>1. SubSeq(us, 1, 0) = <<>> /\ SubSeq(rs, 1, 0) = <<>>
    BY FirstEnds
  <2> QED
    BY <1>1, <2>1
<1>3. ASSUME NEW j \in 0..(n - 1), j \in P PROVE j + 1 \in P
  <2>1. j \in 0..(Len(us) - 1) /\ j + 1 \in 0..n /\ j \in 0..Len(rs)
    BY <1>1, <1>3
  <2>2. SubSeq(us, 1, j) = SubSeq(rs, 1, j)
    BY <1>3
  <2>3. PICK p, u : p = Len(EncodeAll(SubSeq(us, 1, j))) + 1 /\ u = us[j + 1]
    OBVIOUS
  <2>4. u \in Valid /\ p \in Nat /\ p > 0 /\ Placed(e, p, Encode(u)) /\ p < Len(e) + 1
    BY <2>1, <2>3, NextPlaced
  <2>5. Encode(u) \in Seq(Byte)
    BY <2>4, ValidFacts
  <2>6. Placed(d, p, Encode(u)) /\ p < Len(d) + 1
    <3> HIDE DEF d, e
    <3>1. /\ (1 - 1) + Len(e) <= Len(d)
          /\ \A i \in 1..Len(e) : d[(1 - 1) + i] = e[i] /\ (1 - 1) + i = i
      BY DEF Placed, d, e
    <3>2. PICK b : b = Encode(u)
      OBVIOUS
    <3>3. Len(b) \in Nat /\ (p - 1) + Len(b) <= Len(e) /\ \A i \in 1..Len(b) : e[(p - 1) + i] = b[i]
      BY <2>4, <2>5, <3>2, SeqBasics DEF Placed
    <3>4. Len(e) <= Len(d) /\ \A i \in 1..Len(e) : d[i] = e[i]
      BY <1>1, <3>1
    <3>5. ASSUME NEW i \in 1..Len(b) PROVE d[(p - 1) + i] = b[i]
      <4>1. (p - 1) + i \in 1..Len(e)
        BY <1>1, <2>4, <3>3
      <4> QED
        BY <3>3, <3>4, <4>1
    <3>6. (p - 1) + Len(b) <= Len(d) /\ p < Len(d) + 1
      BY <1>1, <2>4, <3>3, <3>4
    <3> QED
      BY <3>2, <3>5, <3>6 DEF Placed
  <2>7. j # Len(rs)
    <3>1. ASSUME j = Len(rs) PROVE FALSE
      <4>1. p = Len(d) + 1
        BY <2>2, <2>3, <3>1, FirstEnds
      <4> HIDE DEF d
      <4> QED
        BY <1>1, <2>6, <4>1
    <3> QED
      BY <3>1
  <2>8. j \in 0..(Len(rs) - 1) /\ j + 1 <= Len(rs)
    BY <1>1, <2>1, <2>7
  <2>9. PICK r : r = rs[j + 1]
    OBVIOUS
  <2>10. r \in Valid /\ Placed(d, p, Encode(r))
    BY <2>2, <2>3, <2>8, <2>9, NextPlaced
  <2>11. GivesRec(ReadRecord(d, p), r, p + r.len) /\ GivesRec(ReadRecord(d, p), u, p + u.len)
    <3> HIDE DEF d
    <3> QED
      BY <1>1, <2>4, <2>6, <2>10, RecordRead
  <2>12. r = u
    <3>1. PICK x : x = ReadRecord(d, p)
      OBVIOUS
    <3>2. x.rec = r /\ x.rec = u
      BY <2>11, <3>1 DEF GivesRec
    <3> QED
      BY <3>2
  <2>13. /\ SubSeq(us, 1, j + 1) = Append(SubSeq(us, 1, j), u)
         /\ SubSeq(rs, 1, j + 1) = Append(SubSeq(rs, 1, j), r)
    BY <2>1, <2>3, <2>8, <2>9, FirstEnds
  <2> QED
    BY <2>1, <2>2, <2>8, <2>12, <2>13
<1>4. n \in P
  <2>1. n \in 0..n
    BY <1>1
  <2> HIDE DEF P, n
  <2> QED
    BY <1>1, <1>2, <1>3, <2>1, UpTo
<1>5. n \in 0..Len(rs) /\ us = SubSeq(rs, 1, n)
  BY <1>1, <1>4, FirstEnds
<1> QED
  BY <1>5

-----------------------------------------------------------------------------
(* What the factories make, and the invariant.                              *)

\* A factory's fields, with the length of their encoding, are a possible record.
LEMMA MadeValid ==
    ASSUME NEW op \in OpNames, NEW id \in Ids, NEW key \in Seq(Byte), NEW value \in Seq(Byte),
           op \notin {"PUT", "DELETE"} => key = <<>>, op # "PUT" => value = <<>>,
           NEW n \in Nat, n <= MaxLength,
           n = HeaderSize + Len(KeyBytes(op, key)) + Len(ValueBytes(op, value))
    PROVE  Rec(op, id, key, value, n) \in Valid
<1>1. n < Pow(LenW)
  BY LengthFacts
<1> DEFINE r == [op |-> op, id |-> id, key |-> key, value |-> value, len |-> n]
<1>2. Rec(op, id, key, value, n) = r
  BY <1>1, RecFacts
<1>3. id \in 0..(Pow(IdW) - 1)
  BY IdsAssumption
<1>4. r \in Fields
  BY <1>3 DEF Fields
<1>5. r.op = op /\ r.key = key /\ r.value = value /\ r.len = n
  OBVIOUS
<1> HIDE DEF r
<1>6. r \in Valid
  BY <1>4, <1>5 DEF Valid
<1> QED
  BY <1>2, <1>6

\* The five factories make possible records, within the limits they check.
LEMMA FactoryFacts ==
    ASSUME NEW id \in Ids
    PROVE  /\ \A op \in {"CREATE", "COMMIT", "ROLLBACK"} : StateRecord(op, id) \in Valid
           /\ \A key, value \in Seq(Byte) :
                Fits(HeaderSize + 2 * LenW, key, value) => PutRecord(id, key, value) \in Valid
           /\ \A key \in Seq(Byte) :
                Fits(HeaderSize + LenW, key, <<>>) => DeleteRecord(id, key) \in Valid
<1>1. /\ HeaderSize \in Nat /\ MaxLength \in Nat /\ HeaderSize <= MaxLength /\ LenW \in Nat
      /\ <<>> \in Seq(Byte) /\ Len(<<>>) = 0
  BY BaseFacts, LengthFacts
<1>2. PICK h, m : h = HeaderSize /\ m = MaxLength
  OBVIOUS
<1>3. h \in Nat /\ m \in Nat /\ h <= m
  BY <1>1, <1>2
<1>4. ASSUME NEW op \in {"CREATE", "COMMIT", "ROLLBACK"} PROVE StateRecord(op, id) \in Valid
  <2>1. KeyBytes(op, <<>>) = <<>> /\ ValueBytes(op, <<>>) = <<>> /\ op \in OpNames
    BY DEF KeyBytes, ValueBytes, OpNames
  <2>2. h = h + 0 + 0
    BY <1>3
  <2>3. HeaderSize = HeaderSize + Len(KeyBytes(op, <<>>)) + Len(ValueBytes(op, <<>>))
    BY <1>1, <1>2, <2>1, <2>2
  <2>4. Rec(op, id, <<>>, <<>>, HeaderSize) \in Valid
    BY <1>1, <2>1, <2>3, MadeValid
  <2> QED
    BY <2>4 DEF StateRecord
<1>5. ASSUME NEW key \in Seq(Byte), NEW value \in Seq(Byte),
             Fits(HeaderSize + 2 * LenW, key, value)
      PROVE  PutRecord(id, key, value) \in Valid
  <2>1. PICK n : n = HeaderSize + 2 * LenW + Len(key) + Len(value)
    OBVIOUS
  <2>2. Len(key) \in Nat /\ Len(value) \in Nat
    BY SeqBasics
  <2>3. /\ KeyBytes("PUT", key) = Str(key) /\ ValueBytes("PUT", value) = Str(value)
        /\ "PUT" \in OpNames
    BY DEF KeyBytes, ValueBytes, OpNames
  <2>4. Len(Str(key)) = LenW + Len(key) /\ Len(Str(value)) = LenW + Len(value)
    BY StrFacts
  <2>5. PICK a, b : a = Len(key) /\ b = Len(value)
    OBVIOUS
  <2>6. n = h + 2 * LenW + a + b /\ a \in Nat /\ b \in Nat /\ n <= m
    BY <1>2, <1>5, <2>1, <2>2, <2>5 DEF Fits
  <2>7. n \in Nat /\ n = h + (LenW + a) + (LenW + b)
    BY <1>1, <1>3, <2>6
  <2>8. n = HeaderSize + Len(KeyBytes("PUT", key)) + Len(ValueBytes("PUT", value)) /\ n <= MaxLength
    BY <1>2, <2>3, <2>4, <2>5, <2>6, <2>7
  <2>9. Rec("PUT", id, key, value, n) \in Valid
    BY <2>3, <2>7, <2>8, MadeValid
  <2> QED
    BY <2>1, <2>9 DEF PutRecord
<1>6. ASSUME NEW key \in Seq(Byte), Fits(HeaderSize + LenW, key, <<>>)
      PROVE  DeleteRecord(id, key) \in Valid
  <2>1. PICK n : n = HeaderSize + LenW + Len(key)
    OBVIOUS
  <2>2. Len(key) \in Nat
    BY SeqBasics
  <2>3. /\ KeyBytes("DELETE", key) = Str(key) /\ ValueBytes("DELETE", <<>>) = <<>>
        /\ "DELETE" \in OpNames
    BY DEF KeyBytes, ValueBytes, OpNames
  <2>4. Len(Str(key)) = LenW + Len(key)
    BY StrFacts
  <2>5. PICK a : a = Len(key)
    OBVIOUS
  <2>6. n = h + LenW + a /\ a \in Nat /\ h + LenW + a + 0 <= m
    BY <1>1, <1>2, <1>6, <2>1, <2>2, <2>5 DEF Fits
  <2>7. n \in Nat /\ n = h + (LenW + a) + 0 /\ n <= m
    BY <1>1, <1>3, <2>6
  <2>8. n = HeaderSize + Len(KeyBytes("DELETE", key)) + Len(ValueBytes("DELETE", <<>>)) /\ n <= MaxLength
    BY <1>1, <1>2, <2>3, <2>4, <2>5, <2>7
  <2>9. Rec("DELETE", id, key, <<>>, n) \in Valid
    BY <1>1, <2>3, <2>7, <2>8, MadeValid
  <2> QED
    BY <2>1, <2>9 DEF DeleteRecord
<1> QED
  BY <1>4, <1>5, <1>6

\* The inductive invariant: the file holds bytes; untouched, they are the
\* encoding of possible records, and cut, a front part of it.
KInv ==
    /\ recs \in Seq(Valid) /\ data \in Seq(Byte)
    /\ fault = "none" => data = EncodeAll(recs)
    /\ fault = "cut" => Placed(EncodeAll(recs), 1, data)

\* Appending a possible record keeps it.
LEMMA AppendKeeps ==
    ASSUME KInv, NEW r \in Valid, AppendRecord(r)
    PROVE  KInv'
<1>1. /\ recs \in Seq(Valid) /\ fault = "none" /\ data = EncodeAll(recs) /\ fault' = "none"
      /\ recs' = Append(recs, r) /\ data' = data \o Encode(r)
  BY DEF KInv, AppendRecord
<1>2. /\ EncodeAll(recs) \in Seq(Byte) /\ Append(recs, r) \in Seq(Valid)
      /\ EncodeAll(Append(recs, r)) = EncodeAll(recs) \o Encode(r)
  BY <1>1, EncodeAllFacts
<1>3. data' = EncodeAll(recs')
  BY <1>1, <1>2
<1>4. recs' \in Seq(Valid) /\ data' \in Seq(Byte)
  BY <1>1, <1>2, <1>3, FileBytes
<1> QED
  BY <1>1, <1>3, <1>4 DEF KInv

\* Cutting the file keeps it.
LEMMA CutKeeps ==
    ASSUME KInv, NEW n \in 0..(Len(data) - 1), Cut(n)
    PROVE  KInv'
<1>1. /\ recs \in Seq(Valid) /\ data \in Seq(Byte) /\ data = EncodeAll(recs)
      /\ fault' = "cut" /\ recs' = recs /\ data' = SubSeq(data, 1, n)
  BY DEF KInv, Cut
<1>2. n \in Nat /\ 1 \in Nat /\ 1 > 0 /\ (1 - 1) + n <= Len(data) /\ 1 + n - 1 = n
  BY <1>1, SeqBasics
<1>3. SubSeq(data, 1, 1 + n - 1) \in Seq(Byte) /\ Placed(data, 1, SubSeq(data, 1, 1 + n - 1))
  BY <1>1, <1>2, CutPlaced
<1>4. data' \in Seq(Byte) /\ Placed(EncodeAll(recs'), 1, data')
  BY <1>1, <1>2, <1>3
<1> QED
  BY <1>1, <1>4 DEF KInv

\* A damaged byte keeps it.
LEMMA DamageKeeps ==
    ASSUME KInv, NEW i \in DOMAIN data, NEW b \in Marks, Damage(i, b)
    PROVE  KInv'
<1>1. /\ recs \in Seq(Valid) /\ data \in Seq(Byte) /\ fault' = "damaged" /\ recs' = recs
      /\ data' = [data EXCEPT ![i] = b]
  BY DEF KInv, Damage
<1>2. b \in Byte
  BY InputsAssumption DEF Byte
<1>3. data' \in Seq(Byte)
  BY <1>1, <1>2
<1> QED
  BY <1>1, <1>3 DEF KInv

\* The invariant of the file under appends, cuts and damage.
THEOREM CodecInvariance == KSpec => []KInv
<1>1. KInit => KInv
  <2>1. EncodeAll(<<>>) = <<>> /\ <<>> \in Seq(Valid) /\ <<>> \in Seq(Byte)
    BY EncodeNone
  <2> QED
    BY <2>1 DEF KInit, KInv
<1>2. KInv /\ [KNext]_kvars => KInv'
  <2> SUFFICES ASSUME KInv, [KNext]_kvars PROVE KInv'
    OBVIOUS
  <2>1. ASSUME NEW op \in {"CREATE", "COMMIT", "ROLLBACK"}, NEW id \in Ids, AppendState(op, id)
        PROVE  KInv'
    <3>1. StateRecord(op, id) \in Valid
      BY FactoryFacts
    <3> QED
      BY <2>1, <3>1, AppendKeeps DEF AppendState
  <2>2. ASSUME NEW id \in Ids, NEW key \in Texts, NEW value \in Texts, AppendPut(id, key, value)
        PROVE  KInv'
    <3>1. key \in Seq(Byte) /\ value \in Seq(Byte)
      BY InputsAssumption DEF Byte
    <3>2. PutRecord(id, key, value) \in Valid
      BY <2>2, <3>1, FactoryFacts DEF AppendPut
    <3> QED
      BY <2>2, <3>2, AppendKeeps DEF AppendPut
  <2>3. ASSUME NEW id \in Ids, NEW key \in Texts, AppendDelete(id, key)
        PROVE  KInv'
    <3>1. key \in Seq(Byte)
      BY InputsAssumption DEF Byte
    <3>2. DeleteRecord(id, key) \in Valid
      BY <2>3, <3>1, FactoryFacts DEF AppendDelete
    <3> QED
      BY <2>3, <3>2, AppendKeeps DEF AppendDelete
  <2>4. ASSUME NEW n \in 0..(Len(data) - 1), Cut(n) PROVE KInv'
    BY <2>4, CutKeeps
  <2>5. ASSUME NEW i \in DOMAIN data, NEW b \in Marks, Damage(i, b) PROVE KInv'
    BY <2>5, DamageKeeps
  <2>6. CASE UNCHANGED kvars
    BY <2>6 DEF kvars, KInv
  <2> QED
    BY <2>1, <2>2, <2>3, <2>4, <2>5, <2>6 DEF KNext
<1> QED
  BY <1>1, <1>2, PTL DEF KSpec

\* encode and decode are inverse: whatever the widths, ids, keys and values within
\* the limits of the factories, an untouched file is read back as the records
\* written to it.
THEOREM FilesReadBack == KSpec => []RoundTrip
<1>1. KInv => RoundTrip
  <2> SUFFICES ASSUME KInv, fault = "none" PROVE Decode(data) = [ok |-> TRUE, recs |-> recs]
    BY DEF RoundTrip
  <2>1. recs \in Seq(Valid) /\ data = EncodeAll(recs)
    BY DEF KInv
  <2> QED
    BY <2>1, DecodeRead
<1> QED
  BY <1>1, CodecInvariance, PTL

\* decode accepts nothing but encodings: no byte of a file it accepts, cut or
\* damaged, is passed over.
THEOREM AcceptedIsCanonical == KSpec => []Canonical
<1>1. KInv => Canonical
  <2> SUFFICES ASSUME KInv, Decode(data).ok PROVE EncodeAll(Decode(data).recs) = data
    BY DEF Canonical
  <2>1. data \in Seq(Byte)
    BY DEF KInv
  <2> QED
    BY <2>1, DecodeCanon
<1> QED
  BY <1>1, CodecInvariance, PTL

\* decode on a file cut anywhere: it throws, unless the cut is between two
\* records, and then it returns exactly the ones before.
THEOREM CutsAreNoticed == KSpec => []CutNoticed
<1>1. KInv => CutNoticed
  <2> SUFFICES ASSUME KInv, fault = "cut" PROVE CutNoticed
    BY DEF CutNoticed
  <2> DEFINE whole == {i \in 0..Len(recs) : EncodeAll(SubSeq(recs, 1, i)) = data}
  <2>1. recs \in Seq(Valid) /\ data \in Seq(Byte) /\ Placed(EncodeAll(recs), 1, data)
    BY DEF KInv
  <2>2. ASSUME NEW i \in whole PROVE Decode(data) = [ok |-> TRUE, recs |-> SubSeq(recs, 1, i)]
    <3>1. i \in 0..Len(recs) /\ EncodeAll(SubSeq(recs, 1, i)) = data
      BY <2>2
    <3>2. SubSeq(recs, 1, i) \in Seq(Valid)
      BY <2>1, <3>1, FirstFacts
    <3> QED
      BY <3>1, <3>2, DecodeRead
  <2>3. ASSUME Decode(data).ok PROVE whole # {}
    <3>1. PICK us : us = Decode(data).recs
      OBVIOUS
    <3>2. us \in Seq(Valid) /\ EncodeAll(us) = data
      BY <2>1, <2>3, <3>1, DecodeCanon
    <3>3. PICK i \in 0..Len(recs) : us = SubSeq(recs, 1, i)
      BY <2>1, <3>2, PrefixFree
    <3> QED
      BY <3>2, <3>3
  <2>4. IF whole = {} THEN ~Decode(data).ok
        ELSE \E i \in whole : Decode(data) = [ok |-> TRUE, recs |-> SubSeq(recs, 1, i)]
    <3> HIDE DEF whole
    <3> QED
      BY <2>2, <2>3
  <2> QED
    BY <2>4 DEF CutNoticed
<1> QED
  BY <1>1, CodecInvariance, PTL
=============================================================================
