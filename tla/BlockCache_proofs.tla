------------------------- MODULE BlockCache_proofs -------------------------
(***************************************************************************)
(* The block cache, for any number of threads, every capacity, every K,    *)
(* and every order in which files are built, replaced, cleared and opened  *)
(* again.                                                                  *)
(***************************************************************************)
EXTENDS BlockCache, ProofLemmas, FiniteSetTheorems

-----------------------------------------------------------------------------
(* The invariant.                                                           *)

Keys == [id : Nat, block : Blocks]
Nodes == [key : Keys, data : Nat, count : Nat]
Files == [id : Nat, build : Nat]

CacheShape ==
    /\ capacity \in Nat /\ k \in Nat
    /\ hot \in Seq(Nodes) /\ cold \in Seq(Nodes)

EngineShape ==
    /\ up \in BOOLEAN /\ ssts \subseteq Files /\ nextSstId \in Nat /\ builds \in Nat
    /\ held \in [Threads -> {"no", "shared", "exclusive"}]
    /\ handles \in [Threads -> SUBSET Files]
    /\ reading \in [Threads -> {<<>>} \cup (Files \X Blocks)]

\* Who does not hold ssts_mtx has no SST in hand, a thread reads from an SST it
\* has in hand, and a closed engine has no user and an empty cache.
Holding ==
    /\ \A t \in Threads : held[t] = "no" => handles[t] = {}
    /\ \A t \in Threads : reading[t] # <<>> => reading[t][1] \in handles[t]
    /\ ~up => hot = <<>> /\ cold = <<>> /\ index = {} /\ \A t \in Threads : held[t] = "no"

KeysOf(list) == {list[i].key : i \in DOMAIN list}

\* A list holds a key once, and stands in the order of use.
InUseOrder(list, order) ==
    \A i, j \in DOMAIN list :
        i < j => /\ list[i].key # list[j].key
                 /\ <<list[i].key, list[j].key>> \in order

HotCounts(list, u, n) == \A i \in DOMAIN list : list[i].count = n /\ u[list[i].key] = n
ColdCounts(list, u, n) ==
    \A i \in DOMAIN list : list[i].count < n /\ u[list[i].key] = list[i].count

ListsOk ==
    /\ index = KeysOf(hot) \cup KeysOf(cold)
    /\ KeysOf(hot) \cap KeysOf(cold) = {}
    /\ InUseOrder(hot, newer) /\ InUseOrder(cold, newer)
    /\ DOMAIN uses = index /\ HotCounts(hot, uses, k) /\ ColdCounts(cold, uses, k)
    /\ IsFiniteSet(index) /\ Cardinality(index) <= capacity

\* What an id stands for: for a registered file or one a thread still has in
\* hand, and for a cached block.
InUse == ssts \cup UNION {handles[t] : t \in Threads}
FilesOf(S) == {<<s.id, s.build>> : s \in S}
SourceOf(list) == {<<list[i].key.id, list[i].data>> : i \in DOMAIN list}
Sources == FilesOf(InUse) \cup SourceOf(hot) \cup SourceOf(cold)

\* An id stands for one file as long as anything knows it, and is not given out
\* again.
IdsFresh ==
    /\ \A p, q \in Sources : p[1] = q[1] => p[2] = q[2]
    /\ \A p \in Sources : p[1] < nextSstId

CInv == CacheShape /\ EngineShape /\ Holding /\ ListsOk /\ IdsFresh

-----------------------------------------------------------------------------
(* Lists: taking a node out and putting one in front.                       *)

\* t is s without the node of key x, the others in their order.
Without(t, s, x) ==
    /\ t \in Seq(Nodes) /\ KeysOf(t) = KeysOf(s) \ {x}
    /\ \E f \in [DOMAIN t -> DOMAIN s] :
          /\ \A i, j \in DOMAIN t : i < j => f[i] < f[j]
          /\ \A i \in DOMAIN t : t[i] = s[f[i]]

\* std::list::splice takes one node out and leaves the others in place.
LEMMA SpliceOut ==
    ASSUME NEW s \in Seq(Nodes), NEW p \in DOMAIN s, NEW o, InUseOrder(s, o)
    PROVE  Without(RemoveAt(s, p), s, s[p].key)
<1> DEFINE t == RemoveAt(s, p)
           f == [i \in DOMAIN t |-> IF i < p THEN i ELSE i + 1]
<1>1. /\ t \in Seq(Nodes) /\ Len(t) = Len(s) - 1
      /\ \A i \in DOMAIN t : t[i] = IF i < p THEN s[i] ELSE s[i + 1]
  BY RemoveAtFacts
<1>2. /\ Len(s) \in Nat /\ DOMAIN s = 1..Len(s) /\ DOMAIN t = 1..(Len(s) - 1)
      /\ p \in 1..Len(s)
  BY <1>1, SeqBasics
<1> HIDE DEF t
<1>3. \A i \in DOMAIN t : f[i] \in DOMAIN s /\ f[i] # p
  BY <1>2
<1>4. \A i, j \in DOMAIN t : i < j => f[i] < f[j]
  BY <1>2
<1>5. \A i \in DOMAIN t : t[i] = s[f[i]]
  BY <1>1
<1>6. \A j \in DOMAIN s : j # p => \E i \in DOMAIN t : f[i] = j
  <2> SUFFICES ASSUME NEW j \in DOMAIN s, j # p PROVE \E i \in DOMAIN t : f[i] = j
    OBVIOUS
  <2>1. CASE j < p
    BY <1>2, <2>1
  <2>2. CASE ~(j < p)
    <3>1. j - 1 \in DOMAIN t /\ ~(j - 1 < p) /\ (j - 1) + 1 = j
      BY <1>2, <2>2
    <3>2. f[j - 1] = (j - 1) + 1
      BY <3>1
    <3> QED
      BY <3>1, <3>2
  <2> QED
    BY <2>1, <2>2
<1>7. \A j \in DOMAIN s : j # p => s[j].key # s[p].key
  <2> SUFFICES ASSUME NEW j \in DOMAIN s, j # p PROVE s[j].key # s[p].key
    OBVIOUS
  <2>1. j < p \/ p < j
    BY <1>2
  <2> QED
    BY <2>1 DEF InUseOrder
<1>8. f \in [DOMAIN t -> DOMAIN s]
  BY <1>3
<1> HIDE DEF f
<1>9. KeysOf(t) = KeysOf(s) \ {s[p].key}
  BY <1>3, <1>5, <1>6, <1>7 DEF KeysOf
<1> QED
  BY <1>1, <1>4, <1>5, <1>8, <1>9 DEF Without, t

\* std::list::pop_back takes the last node out.
LEMMA PopBack ==
    ASSUME NEW s \in Seq(Nodes), s # <<>>, NEW o, InUseOrder(s, o)
    PROVE  Without(Front(s), s, Last(s).key)
<1>1. /\ Len(s) \in Nat /\ Len(s) > 0 /\ DOMAIN s = 1..Len(s)
      /\ Last(s) = s[Len(s)] /\ Front(s) \in Seq(Nodes) /\ Len(Front(s)) = Len(s) - 1
      /\ \A i \in DOMAIN Front(s) : Front(s)[i] = s[i]
  BY SeqBasics, EndFacts
<1>2. DOMAIN Front(s) = 1..(Len(s) - 1)
  BY <1>1, SeqBasics
<1> DEFINE t == Front(s)
           f == [i \in DOMAIN t |-> i]
<1> HIDE DEF t
<1>3. Len(s) \in DOMAIN s /\ \A i \in DOMAIN t : i \in DOMAIN s /\ i < Len(s)
  BY <1>1, <1>2 DEF t
<1>4. \A j \in DOMAIN s : j # Len(s) => j \in DOMAIN t /\ j < Len(s)
  BY <1>1, <1>2 DEF t
<1>5. \A j \in DOMAIN s : j # Len(s) => s[j].key # s[Len(s)].key
  BY <1>3, <1>4 DEF InUseOrder
<1>6. \A i \in DOMAIN t : t[i] = s[i]
  BY <1>1 DEF t
<1>7. KeysOf(t) = KeysOf(s) \ {s[Len(s)].key}
  <2>1. \A i \in DOMAIN t : i # Len(s)
    BY <1>1, <1>2 DEF t
  <2> QED
    BY <1>3, <1>4, <1>5, <1>6, <2>1 DEF KeysOf
<1>8. /\ f \in [DOMAIN t -> DOMAIN s] /\ \A i \in DOMAIN t : f[i] = i
  BY <1>3
<1> HIDE DEF f
<1> QED
  BY <1>1, <1>6, <1>7, <1>8 DEF Without, t

\* The nodes that stay are in order, in an order that keeps theirs.
LEMMA RestOrdered ==
    ASSUME NEW s, NEW t, NEW x, Without(t, s, x), NEW o, NEW o2, InUseOrder(s, o),
           \A a, b \in KeysOf(t) : <<a, b>> \in o => <<a, b>> \in o2
    PROVE  InUseOrder(t, o2)
<1>1. PICK f \in [DOMAIN t -> DOMAIN s] :
          /\ \A i, j \in DOMAIN t : i < j => f[i] < f[j]
          /\ \A i \in DOMAIN t : t[i] = s[f[i]]
  BY DEF Without
<1>2. \A i \in DOMAIN t : f[i] \in DOMAIN s /\ t[i].key \in KeysOf(t)
  BY <1>1 DEF KeysOf
<1> QED
  BY <1>1, <1>2 DEF InUseOrder

\* The nodes that stay keep their data.
LEMMA RestSources ==
    ASSUME NEW s, NEW t, NEW x, Without(t, s, x)
    PROVE  SourceOf(t) \subseteq SourceOf(s)
<1>1. PICK f \in [DOMAIN t -> DOMAIN s] : \A i \in DOMAIN t : t[i] = s[f[i]]
  BY DEF Without
<1> QED
  BY <1>1 DEF SourceOf

\* The nodes that stay keep their counts.
LEMMA RestCounts ==
    ASSUME NEW s, NEW t, NEW x, Without(t, s, x), NEW u, NEW u2, NEW n,
           \A a \in KeysOf(t) : u2[a] = u[a]
    PROVE  /\ HotCounts(s, u, n) => HotCounts(t, u2, n)
           /\ ColdCounts(s, u, n) => ColdCounts(t, u2, n)
<1>1. PICK f \in [DOMAIN t -> DOMAIN s] : \A i \in DOMAIN t : t[i] = s[f[i]]
  BY DEF Without
<1>2. \A i \in DOMAIN t : f[i] \in DOMAIN s /\ t[i].key \in KeysOf(t)
  BY <1>1 DEF KeysOf
<1>4. HotCounts(s, u, n) => HotCounts(t, u2, n)
  BY <1>1, <1>2 DEF HotCounts
<1>5. ColdCounts(s, u, n) => ColdCounts(t, u2, n)
  BY <1>1, <1>2 DEF ColdCounts
<1> QED
  BY <1>4, <1>5

\* push_front, or splice to the front, of a node used after all the others.
LEMMA PushFront ==
    ASSUME NEW t \in Seq(Nodes), NEW e \in Nodes, NEW o, NEW u, NEW n,
           e.key \notin KeysOf(t), InUseOrder(t, o),
           \A a \in KeysOf(t) : <<e.key, a>> \in o
    PROVE  /\ <<e>> \o t \in Seq(Nodes) /\ KeysOf(<<e>> \o t) = {e.key} \cup KeysOf(t)
           /\ InUseOrder(<<e>> \o t, o)
           /\ SourceOf(<<e>> \o t) = {<<e.key.id, e.data>>} \cup SourceOf(t)
           /\ HotCounts(t, u, n) /\ e.count = n /\ u[e.key] = n
                => HotCounts(<<e>> \o t, u, n)
           /\ ColdCounts(t, u, n) /\ e.count < n /\ u[e.key] = e.count
                => ColdCounts(<<e>> \o t, u, n)
<1> DEFINE r == <<e>> \o t
<1>1. /\ r \in Seq(Nodes) /\ Len(r) = Len(t) + 1 /\ r[1] = e
      /\ \A i \in DOMAIN t : r[i + 1] = t[i]
  BY PushFacts
<1> HIDE DEF r
<1>2. Len(t) \in Nat /\ DOMAIN t = 1..Len(t) /\ DOMAIN r = 1..(Len(t) + 1)
  BY <1>1, SeqBasics
<1>3. \A j \in DOMAIN r : j = 1 \/ (j - 1 \in DOMAIN t /\ r[j] = t[j - 1])
  <2> SUFFICES ASSUME NEW j \in DOMAIN r, j # 1
               PROVE  j - 1 \in DOMAIN t /\ r[j] = t[j - 1]
    OBVIOUS
  <2>1. j - 1 \in DOMAIN t /\ (j - 1) + 1 = j
    BY <1>2
  <2> QED
    BY <1>1, <2>1
<1>4. 1 \in DOMAIN r /\ \A i \in DOMAIN t : i + 1 \in DOMAIN r
  BY <1>2
<1>5. InUseOrder(r, o)
  <2> SUFFICES ASSUME NEW i \in DOMAIN r, NEW j \in DOMAIN r, i < j
               PROVE  r[i].key # r[j].key /\ <<r[i].key, r[j].key>> \in o
    BY DEF InUseOrder
  <2>1. j # 1
    BY <1>2
  <2>2. j - 1 \in DOMAIN t /\ r[j] = t[j - 1] /\ r[j].key \in KeysOf(t)
    BY <1>3, <2>1 DEF KeysOf
  <2>3. CASE i = 1
    BY <1>1, <2>2, <2>3
  <2>4. CASE i # 1
    <3>1. i - 1 \in DOMAIN t /\ r[i] = t[i - 1]
      BY <1>3, <2>4
    <3>2. i - 1 < j - 1
      BY <1>2
    <3> QED
      BY <2>2, <3>1, <3>2 DEF InUseOrder
  <2> QED
    BY <2>3, <2>4
<1>6. KeysOf(r) = {e.key} \cup KeysOf(t)
  <2>1. KeysOf(r) \subseteq {e.key} \cup KeysOf(t)
    BY <1>1, <1>3 DEF KeysOf
  <2>2. e.key \in KeysOf(r)
    BY <1>1, <1>4 DEF KeysOf
  <2>3. \A i \in DOMAIN t : t[i].key \in KeysOf(r)
    BY <1>1, <1>4 DEF KeysOf
  <2> QED
    BY <2>1, <2>2, <2>3 DEF KeysOf
<1>7. SourceOf(r) = {<<e.key.id, e.data>>} \cup SourceOf(t)
  <2>1. SourceOf(r) \subseteq {<<e.key.id, e.data>>} \cup SourceOf(t)
    BY <1>1, <1>3 DEF SourceOf
  <2>2. <<e.key.id, e.data>> \in SourceOf(r)
    BY <1>1, <1>4 DEF SourceOf
  <2>3. \A i \in DOMAIN t : <<t[i].key.id, t[i].data>> \in SourceOf(r)
    BY <1>1, <1>4 DEF SourceOf
  <2> QED
    BY <2>1, <2>2, <2>3 DEF SourceOf
<1>8. HotCounts(t, u, n) /\ e.count = n /\ u[e.key] = n => HotCounts(r, u, n)
  BY <1>1, <1>3 DEF HotCounts
<1>9. ColdCounts(t, u, n) /\ e.count < n /\ u[e.key] = e.count => ColdCounts(r, u, n)
  BY <1>1, <1>3 DEF ColdCounts
<1> QED
  BY <1>1, <1>5, <1>6, <1>7, <1>8, <1>9 DEF r

\* A list is itself without a key that it does not hold.
LEMMA WholeList ==
    ASSUME NEW t \in Seq(Nodes), NEW x, x \notin KeysOf(t)
    PROVE  Without(t, t, x)
<1> DEFINE f == [i \in DOMAIN t |-> i]
<1>1. f \in [DOMAIN t -> DOMAIN t] /\ \A i \in DOMAIN t : f[i] = i
  OBVIOUS
<1> HIDE DEF f
<1>2. KeysOf(t) = KeysOf(t) \ {x}
  OBVIOUS
<1> QED
  BY <1>1, <1>2 DEF Without

\* cache_map_ leads to the one node of a key, be it hot or cold.
LEMMA NodeFound ==
    ASSUME CacheShape, ListsOk
    PROVE  /\ \A p \in DOMAIN hot : /\ Place(hot, hot[p].key) = p
                                    /\ Cached(hot[p].key) = hot[p]
           /\ \A p \in DOMAIN cold : /\ Place(cold, cold[p].key) = p
                                     /\ Cached(cold[p].key) = cold[p]
<1>1. ASSUME NEW s \in Seq(Nodes), InUseOrder(s, newer), NEW p \in DOMAIN s, NEW q \in DOMAIN s,
             s[p].key = s[q].key
      PROVE  p = q
  <2>1. p \in Nat /\ q \in Nat
    BY SeqBasics
  <2>2. ~(p < q) /\ ~(q < p)
    BY <1>1 DEF InUseOrder
  <2> QED
    BY <2>1, <2>2
<1>2. hot \in Seq(Nodes) /\ cold \in Seq(Nodes) /\ InUseOrder(hot, newer) /\ InUseOrder(cold, newer)
  BY DEF CacheShape, ListsOk
<1>3. \A p \in DOMAIN hot, q \in DOMAIN cold : hot[p].key # cold[q].key
  BY DEF ListsOk, KeysOf
<1>4. /\ \A p, q \in DOMAIN hot : hot[p].key = hot[q].key => p = q
      /\ \A p, q \in DOMAIN cold : cold[p].key = cold[q].key => p = q
  BY <1>1, <1>2
<1>5. \A p \in DOMAIN hot : Place(hot, hot[p].key) = p
  BY <1>4 DEF Place
<1>6. \A p \in DOMAIN cold : Place(cold, cold[p].key) = p
  BY <1>4 DEF Place
<1>7. Items = {hot[i] : i \in DOMAIN hot} \cup {cold[i] : i \in DOMAIN cold}
  BY DEF Items, Range
<1>8. ASSUME NEW p \in DOMAIN hot PROVE Cached(hot[p].key) = hot[p]
  <2>1. hot[p] \in Items /\ \A x \in Items : x.key = hot[p].key => x = hot[p]
    BY <1>3, <1>4, <1>7
  <2> QED
    BY <2>1 DEF Cached
<1>9. ASSUME NEW p \in DOMAIN cold PROVE Cached(cold[p].key) = cold[p]
  <2>1. cold[p] \in Items /\ \A x \in Items : x.key = cold[p].key => x = cold[p]
    BY <1>3, <1>4, <1>7
  <2> QED
    BY <2>1 DEF Cached
<1> QED
  BY <1>5, <1>6, <1>8, <1>9

\* The order after a use: as it was among the others, and the block before all.
LEMMA TouchedFacts ==
    ASSUME NEW keys, NEW key
    PROVE  /\ \A a, b \in keys \ {key} : <<a, b>> \in newer => <<a, b>> \in Touched(keys, key)
           /\ \A a \in keys \ {key} : <<key, a>> \in Touched(keys, key)
BY DEF Touched

\* The smaller of two numbers.
LEMMA MinOfTwo ==
    ASSUME NEW a \in Nat, NEW b \in Nat, a <= b
    PROVE  Min({a, b}) = a /\ Min({b, a}) = a
<1>1. {a, b} = {b, a} /\ {a, b} \subseteq Nat /\ {a, b} # {}
  OBVIOUS
<1>2. Min({a, b}) \in {a, b} /\ \A y \in {a, b} : Min({a, b}) <= y
  BY <1>1, MinNat
<1> QED
  BY <1>1, <1>2

-----------------------------------------------------------------------------
(* BlockCache: a use, an eviction, an insertion.                            *)

\* What the lists must be for the cache to be in order once u and o are the
\* uses and the order.
Fits(h, c, u, o) ==
    /\ h \in Seq(Nodes) /\ c \in Seq(Nodes)
    /\ KeysOf(h) \cap KeysOf(c) = {}
    /\ InUseOrder(h, o) /\ InUseOrder(c, o)
    /\ HotCounts(h, u, k) /\ ColdCounts(c, u, k)

\* update_access_count on a block of the hot list.
LEMMA UseHot ==
    ASSUME CacheShape, ListsOk, NEW p \in DOMAIN hot, NEW key, key = hot[p].key, NEW u, NEW o,
           u[key] = Min({uses[key] + 1, k}), \A x \in index \ {key} : u[x] = uses[x],
           o = Touched(index, key)
    PROVE  LET a == Accessed(key) IN
           /\ Fits(a.hot, a.cold, u, o)
           /\ KeysOf(a.hot) \cup KeysOf(a.cold) = index
           /\ SourceOf(a.hot) \cup SourceOf(a.cold) \subseteq SourceOf(hot) \cup SourceOf(cold)
<1> DEFINE e == hot[p]
           t == RemoveAt(hot, p)
<1>1. /\ hot \in Seq(Nodes) /\ cold \in Seq(Nodes) /\ e \in Nodes /\ k \in Nat
      /\ e.count = k /\ uses[key] = k /\ key \in index
  BY SeqBasics DEF CacheShape, ListsOk, HotCounts, KeysOf
<1>2. Accessed(key).hot = <<e>> \o t /\ Accessed(key).cold = cold
  <2>1. Cached(key) = e /\ Unkeyed(hot, key) = t
    BY NodeFound DEF Unkeyed
  <2>2. Cached(key).count >= k
    BY <1>1, <2>1
  <2> HIDE DEF e, t
  <2>3. Accessed(key) = [hot |-> <<e>> \o t, cold |-> cold]
    BY <2>1, <2>2 DEF Accessed
  <2> QED
    BY <2>3
<1>3. u[key] = k /\ \A x \in index \ {key} : u[x] = uses[x]
  <2>1. Min({k + 1, k}) = k
    BY <1>1, MinOfTwo
  <2> QED
    BY <1>1, <2>1
<1>4. Without(t, hot, key)
  BY <1>1, SpliceOut DEF ListsOk
<1>5. key \in KeysOf(hot) /\ key \notin KeysOf(cold) /\ key \notin KeysOf(t)
  BY <1>4 DEF ListsOk, KeysOf, Without
<1>6. Without(cold, cold, key)
  BY <1>1, <1>5, WholeList
<1>7. /\ KeysOf(hot) \subseteq index /\ KeysOf(cold) \subseteq index
      /\ KeysOf(t) = KeysOf(hot) \ {key}
  BY <1>4 DEF ListsOk, Without
<1>8. /\ \A a, b \in index \ {key} : <<a, b>> \in newer => <<a, b>> \in o
      /\ \A a \in index \ {key} : <<key, a>> \in o
  BY TouchedFacts
<1> HIDE DEF t, e
<1>9. /\ InUseOrder(t, o) /\ HotCounts(t, u, k) /\ SourceOf(t) \subseteq SourceOf(hot)
  <2>1. /\ \A a, b \in KeysOf(t) : <<a, b>> \in newer => <<a, b>> \in o
        /\ \A a \in KeysOf(t) : u[a] = uses[a]
    BY <1>3, <1>7, <1>8
  <2>2. InUseOrder(hot, newer) /\ HotCounts(hot, uses, k)
    BY DEF ListsOk
  <2>3. InUseOrder(t, o)
    BY <1>4, <2>1, <2>2, RestOrdered
  <2>4. HotCounts(t, u, k)
    BY <1>4, <2>1, <2>2, RestCounts
  <2> QED
    BY <1>4, <2>3, <2>4, RestSources
<1>10. /\ InUseOrder(cold, o) /\ ColdCounts(cold, u, k)
  <2>1. /\ \A a, b \in KeysOf(cold) : <<a, b>> \in newer => <<a, b>> \in o
        /\ \A a \in KeysOf(cold) : u[a] = uses[a]
    BY <1>3, <1>5, <1>7, <1>8
  <2>2. InUseOrder(cold, newer) /\ ColdCounts(cold, uses, k)
    BY DEF ListsOk
  <2>3. InUseOrder(cold, o)
    BY <1>6, <2>1, <2>2, RestOrdered
  <2>4. ColdCounts(cold, u, k)
    BY <1>6, <2>1, <2>2, RestCounts
  <2> QED
    BY <1>6, <2>3, <2>4, RestSources
<1>11. e.key = key
  BY DEF e
<1>12. /\ <<e>> \o t \in Seq(Nodes) /\ KeysOf(<<e>> \o t) = {key} \cup KeysOf(t)
       /\ InUseOrder(<<e>> \o t, o) /\ HotCounts(<<e>> \o t, u, k)
       /\ SourceOf(<<e>> \o t) = {<<e.key.id, e.data>>} \cup SourceOf(t)
  <2>1. t \in Seq(Nodes) /\ \A a \in KeysOf(t) : <<e.key, a>> \in o
    BY <1>4, <1>7, <1>8, <1>11 DEF Without
  <2> QED
    BY <1>1, <1>3, <1>5, <1>9, <1>11, <2>1, PushFront
<1>13. <<e.key.id, e.data>> \in SourceOf(hot)
  <2>1. e = hot[p]
    BY DEF e
  <2> QED
    BY <2>1 DEF SourceOf
<1>14. KeysOf(<<e>> \o t) = KeysOf(hot)
  <2>1. KeysOf(<<e>> \o t) = {key} \cup (KeysOf(hot) \ {key}) /\ key \in KeysOf(hot)
    BY <1>5, <1>7, <1>12
  <2>2. \A K : key \in K => {key} \cup (K \ {key}) = K
    OBVIOUS
  <2> QED
    BY <2>1, <2>2
<1> QED
  BY <1>1, <1>2, <1>9, <1>10, <1>12, <1>13, <1>14 DEF Fits, ListsOk

\* update_access_count on a block of the cold list, which goes to the front of
\* the hot list with its K-th use.
LEMMA UseCold ==
    ASSUME CacheShape, ListsOk, NEW p \in DOMAIN cold, NEW key, key = cold[p].key, NEW u, NEW o,
           u[key] = Min({uses[key] + 1, k}), \A x \in index \ {key} : u[x] = uses[x],
           o = Touched(index, key)
    PROVE  LET a == Accessed(key) IN
           /\ Fits(a.hot, a.cold, u, o)
           /\ KeysOf(a.hot) \cup KeysOf(a.cold) = index
           /\ SourceOf(a.hot) \cup SourceOf(a.cold) \subseteq SourceOf(hot) \cup SourceOf(cold)
<1> DEFINE n == cold[p].count + 1
           e == [cold[p] EXCEPT !.count = n]
           t == RemoveAt(cold, p)
<1>1. /\ hot \in Seq(Nodes) /\ cold \in Seq(Nodes) /\ cold[p] \in Nodes /\ k \in Nat
      /\ cold[p].count < k /\ uses[key] = cold[p].count /\ key \in index
  BY SeqBasics DEF CacheShape, ListsOk, ColdCounts, KeysOf
<1>2. /\ e \in Nodes /\ e.key = key /\ e.data = cold[p].data /\ e.count = n
      /\ n \in Nat /\ n <= k /\ uses[key] + 1 = n
  <2>1. n \in Nat /\ n <= k /\ uses[key] + 1 = n
    BY <1>1 DEF Nodes
  <2> HIDE DEF n
  <2>2. e \in Nodes /\ e.key = cold[p].key /\ e.data = cold[p].data /\ e.count = n
    BY <1>1, <2>1 DEF Nodes
  <2> QED
    BY <2>1, <2>2
<1>3. Accessed(key) = IF n = k THEN [hot |-> <<e>> \o hot, cold |-> t]
                               ELSE [hot |-> hot, cold |-> <<e>> \o t]
  <2>1. Cached(key) = cold[p] /\ Unkeyed(cold, key) = t
    BY NodeFound DEF Unkeyed
  <2>2. ~(Cached(key).count >= k)
    BY <1>1, <2>1 DEF Nodes
  <2> HIDE DEF t
  <2> QED
    BY <2>1, <2>2 DEF Accessed
<1>4. u[key] = n /\ \A x \in index \ {key} : u[x] = uses[x]
  <2>1. u[key] = Min({n, k})
    BY <1>2
  <2> HIDE DEF n
  <2> QED
    BY <1>1, <1>2, <2>1, MinOfTwo
<1>5. Without(t, cold, key)
  BY <1>1, SpliceOut DEF ListsOk
<1>6. key \in KeysOf(cold) /\ key \notin KeysOf(hot) /\ key \notin KeysOf(t)
  <2> HIDE DEF t
  <2>1. key \in KeysOf(cold)
    BY DEF KeysOf
  <2>2. key \notin KeysOf(t)
    BY <1>5 DEF Without
  <2> QED
    BY <2>1, <2>2 DEF ListsOk
<1>7. Without(hot, hot, key)
  BY <1>1, <1>6, WholeList
<1>8. /\ KeysOf(hot) \subseteq index /\ KeysOf(cold) \subseteq index
      /\ KeysOf(t) = KeysOf(cold) \ {key} /\ t \in Seq(Nodes)
      /\ KeysOf(hot) \cap KeysOf(cold) = {} /\ index = KeysOf(hot) \cup KeysOf(cold)
  BY <1>5 DEF ListsOk, Without
<1>9. /\ \A a, b \in index \ {key} : <<a, b>> \in newer => <<a, b>> \in o
      /\ \A a \in index \ {key} : <<key, a>> \in o
  BY TouchedFacts
<1>13. <<e.key.id, e.data>> \in SourceOf(cold)
  BY <1>2 DEF SourceOf
<1> HIDE DEF t, e, n
<1>10. InUseOrder(t, o) /\ ColdCounts(t, u, k) /\ SourceOf(t) \subseteq SourceOf(cold)
  <2>1. /\ \A a, b \in KeysOf(t) : <<a, b>> \in newer => <<a, b>> \in o
        /\ \A a \in KeysOf(t) : u[a] = uses[a]
    BY <1>4, <1>8, <1>9
  <2>2. InUseOrder(cold, newer) /\ ColdCounts(cold, uses, k)
    BY DEF ListsOk
  <2>3. InUseOrder(t, o)
    BY <1>5, <2>1, <2>2, RestOrdered
  <2>4. ColdCounts(t, u, k)
    BY <1>5, <2>1, <2>2, RestCounts
  <2> QED
    BY <1>5, <2>3, <2>4, RestSources
<1>11. InUseOrder(hot, o) /\ HotCounts(hot, u, k)
  <2>1. /\ \A a, b \in KeysOf(hot) : <<a, b>> \in newer => <<a, b>> \in o
        /\ \A a \in KeysOf(hot) : u[a] = uses[a]
    BY <1>4, <1>6, <1>8, <1>9
  <2>2. InUseOrder(hot, newer) /\ HotCounts(hot, uses, k)
    BY DEF ListsOk
  <2>3. InUseOrder(hot, o)
    BY <1>7, <2>1, <2>2, RestOrdered
  <2>4. HotCounts(hot, u, k)
    BY <1>7, <2>1, <2>2, RestCounts
  <2> QED
    BY <1>7, <2>3, <2>4, RestSources
<1>12. /\ \A a \in KeysOf(t) : <<e.key, a>> \in o
       /\ \A a \in KeysOf(hot) : <<e.key, a>> \in o
  BY <1>2, <1>6, <1>8, <1>9
<1>14. CASE n = k
  <2>1. Accessed(key).hot = <<e>> \o hot /\ Accessed(key).cold = t
    BY <1>3, <1>14
  <2>2. /\ <<e>> \o hot \in Seq(Nodes) /\ KeysOf(<<e>> \o hot) = {key} \cup KeysOf(hot)
        /\ InUseOrder(<<e>> \o hot, o) /\ HotCounts(<<e>> \o hot, u, k)
        /\ SourceOf(<<e>> \o hot) = {<<e.key.id, e.data>>} \cup SourceOf(hot)
    BY <1>1, <1>2, <1>4, <1>6, <1>11, <1>12, <1>14, PushFront
  <2>3. /\ KeysOf(<<e>> \o hot) \cap KeysOf(t) = {}
        /\ KeysOf(<<e>> \o hot) \cup KeysOf(t) = index
    BY <1>6, <1>8, <2>2
  <2> QED
    BY <1>8, <1>10, <1>13, <2>1, <2>2, <2>3 DEF Fits
<1>15. CASE n # k
  <2>1. Accessed(key).hot = hot /\ Accessed(key).cold = <<e>> \o t /\ n < k
    BY <1>1, <1>2, <1>3, <1>15
  <2>2. /\ <<e>> \o t \in Seq(Nodes) /\ KeysOf(<<e>> \o t) = {key} \cup KeysOf(t)
        /\ InUseOrder(<<e>> \o t, o) /\ ColdCounts(<<e>> \o t, u, k)
        /\ SourceOf(<<e>> \o t) = {<<e.key.id, e.data>>} \cup SourceOf(t)
    BY <1>2, <1>4, <1>6, <1>8, <1>10, <1>12, <2>1, PushFront
  <2>3. /\ KeysOf(hot) \cap KeysOf(<<e>> \o t) = {}
        /\ KeysOf(hot) \cup KeysOf(<<e>> \o t) = index
    BY <1>6, <1>8, <2>2
  <2> QED
    BY <1>1, <1>10, <1>11, <1>13, <2>1, <2>2, <2>3 DEF Fits
<1> QED
  BY <1>14, <1>15

\* A use keeps the cache in order, and brings no data into it.
LEMMA UseStep ==
    ASSUME CacheShape, ListsOk, NEW key \in index, Use(key)
    PROVE  /\ CacheShape' /\ ListsOk'
           /\ SourceOf(hot') \cup SourceOf(cold') \subseteq SourceOf(hot) \cup SourceOf(cold)
<1>1. (\E p \in DOMAIN hot : hot[p].key = key) \/ (\E p \in DOMAIN cold : cold[p].key = key)
  BY DEF ListsOk, KeysOf
<1>2. /\ hot' = Accessed(key).hot /\ cold' = Accessed(key).cold
      /\ uses' = [uses EXCEPT ![key] = Min({@ + 1, k})] /\ newer' = Touched(index, key)
      /\ capacity' = capacity /\ k' = k /\ index' = index
  BY DEF Use
<1>3. /\ Fits(hot', cold', uses', newer') /\ KeysOf(hot') \cup KeysOf(cold') = index
      /\ SourceOf(hot') \cup SourceOf(cold') \subseteq SourceOf(hot) \cup SourceOf(cold)
  <2> DEFINE u == uses'
             o == newer'
  <2>u. /\ u[key] = Min({uses[key] + 1, k}) /\ \A x \in index \ {key} : u[x] = uses[x]
        /\ o = Touched(index, key)
    BY <1>2 DEF ListsOk
  <2> HIDE DEF u, o
  <2>0. /\ Fits(Accessed(key).hot, Accessed(key).cold, u, o)
        /\ KeysOf(Accessed(key).hot) \cup KeysOf(Accessed(key).cold) = index
        /\ SourceOf(Accessed(key).hot) \cup SourceOf(Accessed(key).cold)
              \subseteq SourceOf(hot) \cup SourceOf(cold)
    <3>1. ASSUME NEW p \in DOMAIN hot, hot[p].key = key PROVE <2>0!1 /\ <2>0!2 /\ <2>0!3
      BY <2>u, <3>1, UseHot
    <3>2. ASSUME NEW p \in DOMAIN cold, cold[p].key = key PROVE <2>0!1 /\ <2>0!2 /\ <2>0!3
      BY <2>u, <3>2, UseCold
    <3> QED
      BY <1>1, <3>1, <3>2
  <2> QED
    BY <1>2, <2>0 DEF u, o
<1>4. DOMAIN uses' = index'
  BY <1>2 DEF ListsOk
<1>5. CacheShape'
  BY <1>2, <1>3 DEF CacheShape, Fits
<1>6. ListsOk'
  BY <1>2, <1>3, <1>4 DEF ListsOk, Fits
<1> QED
  BY <1>3, <1>5, <1>6

\* The cache once there is room: in order, smaller than the capacity.
LEMMA EvictedFacts ==
    ASSUME CacheShape, ListsOk, capacity > 0
    PROVE  LET e == Evicted IN
           /\ Fits(e.hot, e.cold, uses, newer)
           /\ e.index = KeysOf(e.hot) \cup KeysOf(e.cold) /\ e.index \subseteq index
           /\ IsFiniteSet(e.index) /\ Cardinality(e.index) < capacity
           /\ SourceOf(e.hot) \cup SourceOf(e.cold) \subseteq SourceOf(hot) \cup SourceOf(cold)
<1>1. /\ hot \in Seq(Nodes) /\ cold \in Seq(Nodes) /\ capacity \in Nat
      /\ IsFiniteSet(index) /\ Cardinality(index) \in Nat /\ Cardinality(index) <= capacity
      /\ index = KeysOf(hot) \cup KeysOf(cold) /\ KeysOf(hot) \cap KeysOf(cold) = {}
      /\ InUseOrder(hot, newer) /\ InUseOrder(cold, newer)
      /\ HotCounts(hot, uses, k) /\ ColdCounts(cold, uses, k)
  BY FS_CardinalityType DEF CacheShape, ListsOk
<1>2. CASE Cardinality(index) < capacity
  <2>1. Evicted = [hot |-> hot, cold |-> cold, index |-> index]
    BY <1>2 DEF Evicted
  <2> QED
    BY <1>1, <1>2, <2>1 DEF Fits
<1>3. ASSUME NEW x \in index
      PROVE  IsFiniteSet(index \ {x}) /\ Cardinality(index \ {x}) < capacity
  <2>1. IsFiniteSet(index \ {x}) /\ Cardinality(index \ {x}) = Cardinality(index) - 1
    BY <1>1, FS_RemoveElement
  <2> QED
    BY <1>1, <2>1
<1>4. CASE ~(Cardinality(index) < capacity) /\ cold # <<>>
  <2> DEFINE t == Front(cold)
             x == Last(cold).key
  <2>1. Evicted = [hot |-> hot, cold |-> t, index |-> index \ {x}]
    BY <1>4 DEF Evicted
  <2>2. Without(t, cold, x)
    BY <1>1, <1>4, PopBack
  <2>3. x \in KeysOf(cold)
    <3>1. Last(cold) = cold[Len(cold)] /\ Len(cold) > 0
      BY <1>1, <1>4, EndFacts
    <3>2. Len(cold) \in Nat /\ DOMAIN cold = 1..Len(cold)
      BY <1>1, SeqBasics
    <3>3. Len(cold) \in DOMAIN cold
      BY <3>1, <3>2
    <3> QED
      BY <3>1, <3>3 DEF KeysOf
  <2> HIDE DEF t, x
  <2>4. InUseOrder(t, newer) /\ ColdCounts(t, uses, k) /\ SourceOf(t) \subseteq SourceOf(cold)
    <3>1. InUseOrder(t, newer)
      BY <1>1, <2>2, RestOrdered
    <3>2. ColdCounts(t, uses, k)
      BY <1>1, <2>2, RestCounts
    <3> QED
      BY <2>2, <3>1, <3>2, RestSources
  <2>5. t \in Seq(Nodes) /\ KeysOf(t) = KeysOf(cold) \ {x} /\ x \notin KeysOf(hot) /\ x \in index
    BY <1>1, <2>2, <2>3 DEF Without
  <2>6. index \ {x} = KeysOf(hot) \cup KeysOf(t) /\ KeysOf(hot) \cap KeysOf(t) = {}
    BY <1>1, <2>5
  <2> QED
    BY <1>1, <1>3, <2>1, <2>4, <2>5, <2>6 DEF Fits
<1>5. CASE ~(Cardinality(index) < capacity) /\ cold = <<>>
  <2> DEFINE t == Front(hot)
             x == Last(hot).key
  <2>1. Evicted = [hot |-> t, cold |-> cold, index |-> index \ {x}]
    BY <1>5 DEF Evicted
  <2>0. hot # <<>>
    <3>1. index # {}
      BY <1>1, <1>5, FS_EmptySet
    <3>2. KeysOf(<<>>) = {}
      BY DEF KeysOf
    <3> QED
      BY <1>1, <1>5, <3>1, <3>2
  <2>2. Without(t, hot, x)
    BY <1>1, <2>0, PopBack
  <2>3. x \in KeysOf(hot)
    <3>1. Last(hot) = hot[Len(hot)] /\ Len(hot) > 0
      BY <1>1, <2>0, EndFacts
    <3>2. Len(hot) \in Nat /\ DOMAIN hot = 1..Len(hot)
      BY <1>1, SeqBasics
    <3>3. Len(hot) \in DOMAIN hot
      BY <3>1, <3>2
    <3> QED
      BY <3>1, <3>3 DEF KeysOf
  <2> HIDE DEF t, x
  <2>4. InUseOrder(t, newer) /\ HotCounts(t, uses, k) /\ SourceOf(t) \subseteq SourceOf(hot)
    <3>1. InUseOrder(t, newer)
      BY <1>1, <2>2, RestOrdered
    <3>2. HotCounts(t, uses, k)
      BY <1>1, <2>2, RestCounts
    <3> QED
      BY <2>2, <3>1, <3>2, RestSources
  <2>5. t \in Seq(Nodes) /\ KeysOf(t) = KeysOf(hot) \ {x} /\ x \notin KeysOf(cold) /\ x \in index
    BY <1>1, <2>2, <2>3 DEF Without
  <2>6. index \ {x} = KeysOf(t) \cup KeysOf(cold) /\ KeysOf(t) \cap KeysOf(cold) = {}
    BY <1>1, <2>5
  <2> QED
    BY <1>1, <1>3, <2>1, <2>4, <2>5, <2>6 DEF Fits
<1> QED
  BY <1>2, <1>4, <1>5

\* put of a new block keeps the cache in order, within its capacity, and brings
\* in the data of that block only.
LEMMA InsertStep ==
    ASSUME CacheShape, ListsOk, capacity > 0, k > 0, NEW key \in Keys, key \notin index,
           NEW data \in Nat, Insert(key, data)
    PROVE  /\ CacheShape' /\ ListsOk'
           /\ SourceOf(hot') \cup SourceOf(cold')
                \subseteq SourceOf(hot) \cup SourceOf(cold) \cup {<<key.id, data>>}
<1> DEFINE h == Evicted.hot
           c == Evicted.cold
           e == Item(key, data, 1)
           cached == Evicted.index \cup {key}
           o == Touched(cached, key)
           u == [x \in cached |-> IF x = key THEN 1 ELSE uses[x]]
<1>1. /\ h \in Seq(Nodes) /\ c \in Seq(Nodes) /\ KeysOf(h) \cap KeysOf(c) = {}
      /\ InUseOrder(h, newer) /\ InUseOrder(c, newer)
      /\ HotCounts(h, uses, k) /\ ColdCounts(c, uses, k)
      /\ Evicted.index = KeysOf(h) \cup KeysOf(c) /\ Evicted.index \subseteq index
      /\ IsFiniteSet(Evicted.index) /\ Cardinality(Evicted.index) < capacity
      /\ SourceOf(h) \cup SourceOf(c) \subseteq SourceOf(hot) \cup SourceOf(cold)
  BY EvictedFacts DEF Fits
<1>2. /\ hot' = (IF k = 1 THEN <<e>> \o h ELSE h) /\ cold' = (IF k = 1 THEN c ELSE <<e>> \o c)
      /\ index' = cached /\ uses' = u /\ newer' = o /\ capacity' = capacity /\ k' = k
  BY DEF Insert
<1>3. e \in Nodes /\ e.key = key /\ e.data = data /\ e.count = 1
  BY DEF Item, Nodes
<1>4. u[key] = 1 /\ DOMAIN u = cached /\ \A x \in KeysOf(h) \cup KeysOf(c) : u[x] = uses[x]
  BY <1>1
<1>5. key \notin KeysOf(h) /\ key \notin KeysOf(c)
  BY <1>1
<1>6. IsFiniteSet(cached) /\ Cardinality(cached) <= capacity
  <2>1. /\ IsFiniteSet(cached) /\ Cardinality(cached) = Cardinality(Evicted.index) + 1
    BY <1>1, FS_AddElement
  <2>2. Cardinality(Evicted.index) \in Nat /\ capacity \in Nat
    BY <1>1, FS_CardinalityType DEF CacheShape
  <2> QED
    BY <1>1, <2>1, <2>2
<1>7. /\ \A a, b \in KeysOf(h) \cup KeysOf(c) : <<a, b>> \in newer => <<a, b>> \in o
      /\ \A a \in KeysOf(h) \cup KeysOf(c) : <<key, a>> \in o
  <2>1. KeysOf(h) \cup KeysOf(c) \subseteq cached \ {key}
    BY <1>1, <1>5
  <2> HIDE DEF h, c, cached
  <2> QED
    BY <2>1, TouchedFacts
<1>8. /\ cached = {key} \cup KeysOf(h) \cup KeysOf(c) /\ k \in Nat
  BY <1>1 DEF CacheShape
<1> HIDE DEF h, c, e, cached, o, u
<1>9. Without(h, h, key) /\ Without(c, c, key)
  BY <1>1, <1>5, WholeList
<1>10. InUseOrder(h, o) /\ InUseOrder(c, o)
  BY <1>1, <1>7, <1>9, RestOrdered
<1>11. HotCounts(h, u, k) /\ ColdCounts(c, u, k)
  <2>1. (\A a \in KeysOf(h) : u[a] = uses[a]) /\ (\A a \in KeysOf(c) : u[a] = uses[a])
    BY <1>4
  <2>2. HotCounts(h, u, k)
    BY <1>1, <1>9, <2>1, RestCounts
  <2>3. ColdCounts(c, u, k)
    BY <1>1, <1>9, <2>1, RestCounts
  <2> QED
    BY <2>2, <2>3
<1>12. CASE k = 1
  <2>1. /\ <<e>> \o h \in Seq(Nodes) /\ KeysOf(<<e>> \o h) = {key} \cup KeysOf(h)
        /\ InUseOrder(<<e>> \o h, o) /\ HotCounts(<<e>> \o h, u, k)
        /\ SourceOf(<<e>> \o h) = {<<key.id, data>>} \cup SourceOf(h)
    BY <1>1, <1>3, <1>4, <1>5, <1>7, <1>10, <1>11, <1>12, PushFront
  <2>2. hot' = <<e>> \o h /\ cold' = c
    BY <1>2, <1>12
  <2>3. KeysOf(<<e>> \o h) \cap KeysOf(c) = {} /\ cached = KeysOf(<<e>> \o h) \cup KeysOf(c)
    BY <1>1, <1>5, <1>8, <2>1
  <2>4. CacheShape'
    BY <1>1, <1>2, <2>1, <2>2 DEF CacheShape
  <2>5. ListsOk'
    BY <1>2, <1>4, <1>6, <1>10, <1>11, <2>1, <2>2, <2>3 DEF ListsOk
  <2> QED
    BY <1>1, <2>1, <2>2, <2>4, <2>5
<1>13. CASE k # 1
  <2>0. e.count < k
    BY <1>3, <1>8, <1>13
  <2>1. /\ <<e>> \o c \in Seq(Nodes) /\ KeysOf(<<e>> \o c) = {key} \cup KeysOf(c)
        /\ InUseOrder(<<e>> \o c, o) /\ ColdCounts(<<e>> \o c, u, k)
        /\ SourceOf(<<e>> \o c) = {<<key.id, data>>} \cup SourceOf(c)
    BY <1>1, <1>3, <1>4, <1>5, <1>7, <1>10, <1>11, <2>0, PushFront
  <2>2. hot' = h /\ cold' = <<e>> \o c
    BY <1>2, <1>13
  <2>3. KeysOf(h) \cap KeysOf(<<e>> \o c) = {} /\ cached = KeysOf(h) \cup KeysOf(<<e>> \o c)
    BY <1>1, <1>5, <1>8, <2>1
  <2>4. CacheShape'
    BY <1>1, <1>2, <2>1, <2>2 DEF CacheShape
  <2>5. ListsOk'
    BY <1>2, <1>4, <1>6, <1>10, <1>11, <2>1, <2>2, <2>3 DEF ListsOk
  <2> QED
    BY <1>1, <2>1, <2>2, <2>4, <2>5
<1> QED
  BY <1>12, <1>13

-----------------------------------------------------------------------------
(* Ids.                                                                     *)

\* What ids stand for is known by number.
LEMMA SourceTypes ==
    ASSUME CacheShape, EngineShape
    PROVE  Sources \subseteq Nat \X Nat
<1>1. InUse \subseteq Files
  BY DEF EngineShape, InUse
<1>2. FilesOf(InUse) \subseteq Nat \X Nat
  BY <1>1 DEF FilesOf, Files
<1>3. ASSUME NEW s \in Seq(Nodes) PROVE SourceOf(s) \subseteq Nat \X Nat
  <2>1. \A i \in DOMAIN s : s[i] \in Nodes
    BY SeqBasics
  <2> QED
    BY <2>1 DEF SourceOf, Nodes, Keys
<1>4. SourceOf(hot) \subseteq Nat \X Nat /\ SourceOf(cold) \subseteq Nat \X Nat
  BY <1>3 DEF CacheShape
<1> QED
  BY <1>2, <1>4 DEF Sources

\* As long as nothing new is known, ids stay fresh.
LEMMA NothingNew ==
    ASSUME CacheShape, EngineShape, IdsFresh, nextSstId' \in Nat, nextSstId <= nextSstId',
           InUse' \subseteq InUse,
           SourceOf(hot') \cup SourceOf(cold') \subseteq Sources
    PROVE  IdsFresh'
<1>1. Sources' \subseteq Sources
  <2>1. FilesOf(InUse') \subseteq FilesOf(InUse)
    BY DEF FilesOf
  <2> QED
    BY <2>1 DEF Sources
<1>2. Sources \subseteq Nat \X Nat /\ nextSstId \in Nat
  BY SourceTypes DEF EngineShape
<1>3. ASSUME NEW p \in Sources' PROVE p[1] < nextSstId'
  <2>1. p[1] \in Nat /\ p[1] < nextSstId
    BY <1>1, <1>2 DEF IdsFresh
  <2> QED
    BY <1>2, <2>1
<1>4. \A p, q \in Sources' : p[1] = q[1] => p[2] = q[2]
  BY <1>1 DEF IdsFresh
<1> QED
  BY <1>3, <1>4 DEF IdsFresh

\* flush and full_compact: the new file takes an id that nothing knows.
LEMMA NewFile ==
    ASSUME CacheShape, EngineShape, IdsFresh, nextSstId' = nextSstId + 1, NEW b \in Nat,
           InUse' \subseteq InUse \cup {Sst(nextSstId, b)}, hot' = hot, cold' = cold
    PROVE  IdsFresh'
<1>1. Sources' \subseteq Sources \cup {<<nextSstId, b>>}
  <2>1. FilesOf(InUse') \subseteq FilesOf(InUse) \cup {<<nextSstId, b>>}
    <3>1. Sst(nextSstId, b).id = nextSstId /\ Sst(nextSstId, b).build = b
      BY DEF Sst
    <3> QED
      BY <3>1 DEF FilesOf
  <2> QED
    BY <2>1 DEF Sources
<1>2. Sources \subseteq Nat \X Nat /\ nextSstId \in Nat
  BY SourceTypes DEF EngineShape
<1>3. \A p \in Sources : p[1] \in Nat /\ p[1] < nextSstId
  BY <1>2 DEF IdsFresh
<1>4. \A p \in Sources : p[1] # nextSstId /\ p[1] < nextSstId + 1
  BY <1>2, <1>3
<1>5. <<nextSstId, b>>[1] = nextSstId /\ <<nextSstId, b>>[2] = b /\ nextSstId < nextSstId + 1
  BY <1>2
<1>6. \A p \in Sources' : p[1] < nextSstId'
  BY <1>1, <1>4, <1>5
<1>7. \A p, q \in Sources' : p[1] = q[1] => p[2] = q[2]
  BY <1>1, <1>4, <1>5 DEF IdsFresh
<1> QED
  BY <1>6, <1>7 DEF IdsFresh

\* The constructor: ids go on after the largest file, and only files are left.
LEMMA IdsAfterReopen ==
    ASSUME EngineShape, IdsFresh, InUse' \subseteq ssts,
           hot' = <<>>, cold' = <<>>, nextSstId' = Max({s.id : s \in ssts} \cup {0}) + 1
    PROVE  nextSstId' \in Nat /\ IdsFresh'
<1> DEFINE ids == {s.id : s \in ssts} \cup {0}
<1>1. ssts \subseteq Files /\ ssts \subseteq InUse /\ nextSstId \in Nat
  BY DEF EngineShape, InUse
<1>2. ASSUME NEW s \in ssts PROVE s.id \in Nat /\ s.id <= nextSstId
  <2>1. <<s.id, s.build>> \in Sources /\ s.id \in Nat
    BY <1>1 DEF Sources, FilesOf, Files
  <2>2. <<s.id, s.build>>[1] < nextSstId
    BY <2>1 DEF IdsFresh
  <2> QED
    BY <1>1, <2>1, <2>2
<1>3. ids \subseteq 0..nextSstId /\ ids # {}
  BY <1>1, <1>2
<1>4. Max(ids) \in ids /\ \A y \in ids : y <= Max(ids)
  <2> HIDE DEF ids
  <2> QED
    BY <1>1, <1>3, MaxBounded
<1>5. Max(ids) \in Nat /\ nextSstId' = Max(ids) + 1
  BY <1>1, <1>3, <1>4
<1>6. Sources' \subseteq FilesOf(ssts) /\ FilesOf(ssts) \subseteq Sources
  <2>1. SourceOf(<<>>) = {}
    BY DEF SourceOf
  <2>2. SourceOf(hot') = {} /\ SourceOf(cold') = {}
    BY <2>1
  <2>3. Sources' = FilesOf(InUse') \cup SourceOf(hot') \cup SourceOf(cold')
    BY DEF Sources
  <2> QED
    BY <1>1, <2>2, <2>3 DEF Sources, FilesOf
<1>7. ASSUME NEW p \in Sources' PROVE p[1] < nextSstId'
  <2>1. PICK s \in ssts : p = <<s.id, s.build>>
    BY <1>6 DEF FilesOf
  <2>2. p[1] = s.id /\ s.id \in ids
    BY <2>1
  <2> QED
    <3>1. s.id \in Nat /\ s.id <= Max(ids)
      BY <1>2, <1>4, <2>2
    <3> HIDE DEF ids
    <3> QED
      BY <1>5, <2>2, <3>1
<1>8. \A p, q \in Sources' : p[1] = q[1] => p[2] = q[2]
  BY <1>6 DEF IdsFresh
<1> QED
  BY <1>5, <1>7, <1>8 DEF IdsFresh

-----------------------------------------------------------------------------
(* Every step keeps the invariant.                                          *)

\* An engine that was just opened for the first time.
LEMMA CInitInv == CInit => CInv
<1> SUFFICES ASSUME CInit PROVE CInv
  OBVIOUS
<1>1. CacheShape /\ EngineShape /\ Holding
  BY CapacitiesAssumption, KsAssumption DEF CInit, CacheShape, EngineShape, Holding
<1>2. KeysOf(<<>>) = {} /\ SourceOf(<<>>) = {} /\ DOMAIN <<>> = {}
  BY DEF KeysOf, SourceOf
<1>3. IsFiniteSet({}) /\ Cardinality({}) = 0
  BY FS_EmptySet
<1>4. ListsOk
  BY <1>1, <1>2, <1>3
     DEF CInit, ListsOk, InUseOrder, HotCounts, ColdCounts, CacheShape
<1>5. Sources = {}
  BY <1>2 DEF CInit, Sources, InUse, FilesOf
<1> QED
  BY <1>1, <1>4, <1>5 DEF CInv, IdsFresh

\* The lists, index, uses and order stay as they are.
SameCache == UNCHANGED <<capacity, k, hot, cold, index, uses, newer>>

\* What is not touched stays in order.
LEMMA SameLists ==
    ASSUME CacheShape, ListsOk, SameCache
    PROVE  CacheShape' /\ ListsOk'
BY DEF CacheShape, ListsOk, SameCache

\* LockShared, LockExclusive and Unlock: a thread takes the registered SSTs in
\* hand, or lets go of them.
LEMMA LockSteps ==
    ASSUME CInv, NEW t \in Threads, LockShared(t) \/ LockExclusive(t) \/ Unlock(t)
    PROVE  CInv'
<1> USE DEF CInv
<1>1. /\ UNCHANGED <<up, ssts, nextSstId, reading, builds>> /\ SameCache
  BY DEF LockShared, LockExclusive, Unlock, cache, history, SameCache
<1>2. PICK m \in {"no", "shared", "exclusive"}, S \in {ssts, {}} :
        /\ held' = [held EXCEPT ![t] = m] /\ handles' = [handles EXCEPT ![t] = S]
        /\ reading[t] = <<>> /\ (m = "no" => S = {}) /\ (m = "no" \/ up)
  <2>1. CASE LockShared(t)
    <3>1. reading[t] = <<>>
      BY <2>1 DEF LockShared, Holding
    <3> QED
      BY <2>1, <3>1 DEF LockShared
  <2>2. CASE LockExclusive(t)
    <3>1. reading[t] = <<>>
      BY <2>2 DEF LockExclusive, Holding
    <3> QED
      BY <2>2, <3>1 DEF LockExclusive
  <2>3. CASE Unlock(t)
    BY <2>3 DEF Unlock, Free
  <2> QED
    BY <2>1, <2>2, <2>3
<1>3. EngineShape'
  BY <1>1, <1>2 DEF EngineShape
<1>4. Holding'
  <2>1. \A u \in Threads : u # t => handles'[u] = handles[u] /\ held'[u] = held[u]
    BY <1>2 DEF EngineShape
  <2>2. handles'[t] = S /\ held'[t] = m
    BY <1>2 DEF EngineShape
  <2>3. UNCHANGED <<hot, cold, index, up, reading>>
    BY <1>1 DEF SameCache
  <2> QED
    BY <1>2, <2>1, <2>2, <2>3 DEF Holding
<1>5. InUse' \subseteq InUse
  BY <1>1, <1>2 DEF InUse, EngineShape
<1>6. IdsFresh'
  BY <1>1, <1>5, NothingNew DEF SameCache, Sources, EngineShape
<1> QED
  BY <1>1, <1>3, <1>4, <1>6, SameLists

\* A cached block is served.
LEMMA HitStep ==
    ASSUME CInv, NEW t \in Threads, NEW s \in handles[t], NEW b \in Blocks, GetHit(t, s, b)
    PROVE  CInv'
<1> USE DEF CInv
<1>1. /\ KeyOf(s, b) \in index /\ Use(KeyOf(s, b))
      /\ UNCHANGED <<up, ssts, nextSstId, held, handles, reading, builds>>
  BY DEF GetHit, users
<1>2. /\ CacheShape' /\ ListsOk'
      /\ SourceOf(hot') \cup SourceOf(cold') \subseteq SourceOf(hot) \cup SourceOf(cold)
  BY <1>1, UseStep
<1>3. EngineShape'
  BY <1>1 DEF EngineShape
<1>4. Holding'
  BY <1>1 DEF Holding
<1>5. IdsFresh'
  BY <1>1, <1>2, NothingNew DEF InUse, Sources, EngineShape
<1> QED
  BY <1>2, <1>3, <1>4, <1>5

\* A block that is not cached is about to be read from an SST in hand.
LEMMA MissStep ==
    ASSUME CInv, NEW t \in Threads, NEW s \in handles[t], NEW b \in Blocks, GetMiss(t, s, b)
    PROVE  CInv'
<1> USE DEF CInv
<1>1. /\ reading' = [reading EXCEPT ![t] = <<s, b>>] /\ SameCache
      /\ UNCHANGED <<up, ssts, nextSstId, held, handles, builds>>
  BY DEF GetMiss, cache, history, SameCache
<1>2. s \in Files
  BY DEF EngineShape
<1>3. EngineShape'
  BY <1>1, <1>2 DEF EngineShape
<1>4. Holding'
  <2>1. \A u \in Threads : u # t => reading'[u] = reading[u]
    BY <1>1 DEF EngineShape
  <2>2. reading'[t] = <<s, b>> /\ <<s, b>>[1] = s
    BY <1>1 DEF EngineShape
  <2>3. UNCHANGED <<hot, cold, index, up, held, handles>>
    BY <1>1 DEF SameCache
  <2> QED
    BY <2>1, <2>2, <2>3 DEF Holding
<1>5. IdsFresh'
  BY <1>1, NothingNew DEF SameCache, InUse, Sources, EngineShape
<1> QED
  BY <1>1, <1>3, <1>4, <1>5, SameLists

\* The block that was read is put, also if another thread was faster.
LEMMA FillStep ==
    ASSUME CInv, NEW t \in Threads, Fill(t)
    PROVE  CInv'
<1> USE DEF CInv
<1> DEFINE s == reading[t][1]
           b == reading[t][2]
           key == KeyOf(s, b)
<1>1. /\ reading[t] # <<>> /\ k > 0 /\ Put(key, s.build)
      /\ reading' = [reading EXCEPT ![t] = <<>>]
      /\ UNCHANGED <<up, ssts, nextSstId, held, handles, builds>>
  BY DEF Fill
<1>2. s \in Files /\ b \in Blocks /\ s \in handles[t]
  <2>1. reading[t] \in Files \X Blocks
    BY <1>1 DEF EngineShape
  <2> QED
    BY <1>1, <2>1 DEF Holding
<1>3. key \in Keys /\ key.id = s.id /\ s.build \in Nat
  BY <1>2 DEF KeyOf, Keys, Files
<1>4. <<s.id, s.build>> \in Sources
  <2> HIDE DEF s
  <2>1. s \in InUse
    BY <1>2 DEF InUse
  <2> QED
    BY <2>1 DEF Sources, FilesOf
<1> HIDE DEF s, b, key
<1>5. /\ CacheShape' /\ ListsOk'
      /\ SourceOf(hot') \cup SourceOf(cold') \subseteq Sources
  <2>1. CASE capacity = 0 /\ UNCHANGED <<cache, uses, newer>>
    <3>1. SameCache
      BY <2>1 DEF SameCache, cache
    <3> QED
      BY <3>1, SameLists DEF SameCache, Sources
  <2>2. CASE capacity > 0 /\ key \in index /\ Use(key)
    BY <2>2, UseStep DEF Sources
  <2>3. CASE capacity > 0 /\ key \notin index /\ Insert(key, s.build)
    <3>1. /\ CacheShape' /\ ListsOk'
          /\ SourceOf(hot') \cup SourceOf(cold')
                \subseteq SourceOf(hot) \cup SourceOf(cold) \cup {<<key.id, s.build>>}
      BY <1>1, <1>3, <2>3, InsertStep
    <3> QED
      BY <1>3, <1>4, <3>1 DEF Sources
  <2> QED
    BY <1>1, <2>1, <2>2, <2>3 DEF Put
<1>6. EngineShape'
  BY <1>1 DEF EngineShape
<1>7. up
  <2>1. ~up => handles[t] = {}
    BY DEF Holding
  <2> QED
    BY <1>2, <2>1
<1>8. Holding'
  <2>1. \A u \in Threads : u # t => reading'[u] = reading[u]
    BY <1>1 DEF EngineShape
  <2>2. reading'[t] = <<>>
    BY <1>1 DEF EngineShape
  <2>3. UNCHANGED <<up, held, handles>>
    BY <1>1
  <2> QED
    BY <1>7, <2>1, <2>2, <2>3 DEF Holding
<1>9. IdsFresh'
  BY <1>1, <1>5, NothingNew DEF InUse, EngineShape
<1> QED
  BY <1>5, <1>6, <1>8, <1>9

\* The read fails and the exception lets go of the lock.
LEMMA FillFailsStep ==
    ASSUME CInv, NEW t \in Threads, FillFails(t)
    PROVE  CInv'
<1> USE DEF CInv
<1>1. /\ reading' = [reading EXCEPT ![t] = <<>>] /\ SameCache
      /\ held' = [held EXCEPT ![t] = "no"] /\ handles' = [handles EXCEPT ![t] = {}]
      /\ UNCHANGED <<up, ssts, nextSstId, builds>>
  BY DEF FillFails, Free, cache, history, SameCache
<1>2. EngineShape'
  BY <1>1 DEF EngineShape
<1>3. Holding'
  <2>1. \A u \in Threads : u # t => /\ reading'[u] = reading[u] /\ held'[u] = held[u]
                                    /\ handles'[u] = handles[u]
    BY <1>1 DEF EngineShape
  <2>2. reading'[t] = <<>> /\ handles'[t] = {} /\ held'[t] = "no"
    BY <1>1 DEF EngineShape
  <2>3. UNCHANGED <<hot, cold, index, up>>
    BY <1>1 DEF SameCache
  <2> QED
    BY <2>1, <2>2, <2>3 DEF Holding
<1>4. InUse' \subseteq InUse
  BY <1>1 DEF InUse, EngineShape
<1>5. IdsFresh'
  BY <1>1, <1>4, NothingNew DEF SameCache, Sources, EngineShape
<1> QED
  BY <1>1, <1>2, <1>3, <1>5, SameLists

\* flush registers a file, full_compact replaces files by one.
LEMMA BuildStep ==
    ASSUME CInv, NEW t \in Threads, NEW old, Build(t, old)
    PROVE  CInv'
<1> USE DEF CInv
<1>1. /\ held[t] = "exclusive" /\ reading[t] = <<>>
      /\ ssts' = (ssts \ old) \cup {Sst(nextSstId, builds + 1)}
      /\ handles' = [handles EXCEPT ![t] = ssts']
      /\ nextSstId' = nextSstId + 1 /\ builds' = builds + 1
      /\ UNCHANGED <<up, held, reading>> /\ SameCache
  BY DEF Build, cache, SameCache
<1>2. /\ nextSstId \in Nat /\ builds \in Nat /\ builds + 1 \in Nat /\ nextSstId + 1 \in Nat
      /\ Sst(nextSstId, builds + 1) \in Files
  BY DEF EngineShape, Sst, Files
<1>3. EngineShape'
  BY <1>1, <1>2 DEF EngineShape
<1>4. Holding'
  <2>1. \A u \in Threads : u # t => handles'[u] = handles[u]
    BY <1>1 DEF EngineShape
  <2>2. UNCHANGED <<hot, cold, index, up, held, reading>>
    BY <1>1 DEF SameCache
  <2> QED
    BY <1>1, <2>1, <2>2 DEF Holding
<1>5. InUse' \subseteq InUse \cup {Sst(nextSstId, builds + 1)}
  BY <1>1 DEF InUse, EngineShape
<1>6. IdsFresh'
  BY <1>1, <1>2, <1>5, NewFile DEF SameCache
<1> QED
  BY <1>1, <1>3, <1>4, <1>6, SameLists

\* An id is spent without a file.
LEMMA BuildNothingStep ==
    ASSUME CInv, NEW t \in Threads, BuildNothing(t)
    PROVE  CInv'
<1> USE DEF CInv
<1>1. /\ nextSstId' = nextSstId + 1 /\ SameCache /\ reading[t] = <<>>
      /\ held' = [held EXCEPT ![t] = "no"] /\ handles' = [handles EXCEPT ![t] = {}]
      /\ UNCHANGED <<up, ssts, reading, builds>>
  BY DEF BuildNothing, Free, cache, history, SameCache
<1>n. nextSstId \in Nat /\ nextSstId' \in Nat /\ nextSstId <= nextSstId'
  BY <1>1 DEF EngineShape
<1>2. EngineShape'
  BY <1>1, <1>n DEF EngineShape
<1>3. Holding'
  <2>1. \A u \in Threads : u # t => held'[u] = held[u] /\ handles'[u] = handles[u]
    BY <1>1 DEF EngineShape
  <2>2. handles'[t] = {} /\ held'[t] = "no"
    BY <1>1 DEF EngineShape
  <2>3. UNCHANGED <<hot, cold, index, up, reading>>
    BY <1>1 DEF SameCache
  <2> QED
    BY <1>1, <2>1, <2>2, <2>3 DEF Holding
<1>4. InUse' \subseteq InUse
  BY <1>1 DEF InUse, EngineShape
<1>5. IdsFresh'
  BY <1>1, <1>n, <1>4, NothingNew DEF SameCache, Sources
<1> QED
  BY <1>1, <1>2, <1>3, <1>5, SameLists

\* clear forgets the files and goes on with the ids and the cache.
LEMMA ClearStep ==
    ASSUME CInv, Clear
    PROVE  CInv'
<1> USE DEF CInv
<1>1. /\ ssts' = {} /\ nextSstId' = nextSstId /\ SameCache
      /\ UNCHANGED <<up, held, handles, reading, builds>>
  BY DEF Clear, NextAfterClear, cache, users, history, SameCache
<1>2. EngineShape' /\ nextSstId' \in Nat /\ nextSstId <= nextSstId'
  BY <1>1 DEF EngineShape
<1>3. Holding'
  BY <1>1 DEF Holding, SameCache
<1>4. InUse' \subseteq InUse
  BY <1>1 DEF InUse
<1>5. IdsFresh'
  BY <1>1, <1>2, <1>4, NothingNew DEF SameCache, Sources
<1> QED
  BY <1>1, <1>2, <1>3, <1>5, SameLists

\* The destructor takes the cache with it.
LEMMA CloseStep ==
    ASSUME CInv, Close
    PROVE  CInv'
<1> USE DEF CInv
<1>1. /\ up' = FALSE /\ \A t \in Threads : held[t] = "no"
      /\ hot' = <<>> /\ cold' = <<>> /\ index' = {} /\ uses' = <<>> /\ newer' = {}
      /\ UNCHANGED <<capacity, k, ssts, nextSstId, held, handles, reading, builds>>
  BY DEF Close, CacheEmpty, users
<1>2. EngineShape' /\ CacheShape' /\ nextSstId' \in Nat /\ nextSstId <= nextSstId'
  <2>1. up' \in BOOLEAN
    BY <1>1
  <2>2. EngineShape'
    BY <1>1, <2>1 DEF EngineShape
  <2>3. nextSstId' \in Nat /\ nextSstId <= nextSstId'
    <3>1. nextSstId \in Nat /\ nextSstId' = nextSstId
      BY <1>1 DEF EngineShape
    <3> QED
      BY <3>1
  <2>4. CacheShape'
    BY <1>1 DEF CacheShape
  <2> QED
    BY <2>2, <2>3, <2>4
<1>3. Holding'
  BY <1>1 DEF Holding
<1>4. KeysOf(<<>>) = {} /\ SourceOf(<<>>) = {} /\ DOMAIN <<>> = {}
      /\ IsFiniteSet({}) /\ Cardinality({}) = 0
  BY FS_EmptySet DEF KeysOf, SourceOf
<1>5. ListsOk'
  <2>1. DOMAIN hot' = {} /\ DOMAIN cold' = {} /\ DOMAIN uses' = {}
    BY <1>1, <1>4
  <2>2. KeysOf(hot') = {} /\ KeysOf(cold') = {}
    BY <1>1, <1>4
  <2>3. Cardinality(index') <= capacity' /\ IsFiniteSet(index')
    BY <1>1, <1>2, <1>4 DEF CacheShape
  <2> QED
    BY <1>1, <2>1, <2>2, <2>3 DEF ListsOk, InUseOrder, HotCounts, ColdCounts
<1>6. IdsFresh'
  <2>1. SourceOf(hot') = {} /\ SourceOf(cold') = {}
    BY <1>1, <1>4
  <2>2. InUse' = InUse
    BY <1>1 DEF InUse
  <2> QED
    BY <1>2, <2>1, <2>2, NothingNew
<1> QED
  BY <1>2, <1>3, <1>5, <1>6

\* A new engine on the files that are left.
LEMMA ReopenStep ==
    ASSUME CInv, Reopen
    PROVE  CInv'
<1> USE DEF CInv
<1>1. /\ ~up /\ up' = TRUE /\ capacity' \in Capacities /\ k' \in Ks
      /\ nextSstId' = Max({s.id : s \in ssts} \cup {0}) + 1
      /\ UNCHANGED <<hot, cold, index, ssts, held, handles, reading, builds, uses, newer>>
  BY DEF Reopen, users, history
<1>2. /\ hot = <<>> /\ cold = <<>> /\ index = {} /\ \A t \in Threads : handles[t] = {}
  BY <1>1 DEF Holding
<1>3. nextSstId' \in Nat /\ IdsFresh'
  <2>1. InUse' \subseteq ssts
    BY <1>1, <1>2 DEF InUse
  <2> QED
    BY <1>1, <1>2, <2>1, IdsAfterReopen
<1>4. EngineShape'
  BY <1>1, <1>3 DEF EngineShape
<1>5. CacheShape'
  BY <1>1, CapacitiesAssumption, KsAssumption DEF CacheShape
<1>6. Holding'
  BY <1>1 DEF Holding
<1>7. ListsOk'
  <2>1. IsFiniteSet({}) /\ Cardinality({}) = 0
    BY FS_EmptySet
  <2>2. Cardinality(index') <= capacity'
    BY <1>1, <1>2, <1>5, <2>1 DEF CacheShape
  <2>3. DOMAIN hot' = {} /\ DOMAIN cold' = {}
    BY <1>1, <1>2
  <2> QED
    BY <1>1, <2>2, <2>3 DEF ListsOk, HotCounts, ColdCounts
<1> QED
  BY <1>3, <1>4, <1>5, <1>6, <1>7

\* Every step of the cache's users keeps the invariant.
LEMMA CNextInv == CInv /\ [CNext]_cvars => CInv'
<1> SUFFICES ASSUME CInv, [CNext]_cvars PROVE CInv'
  OBVIOUS
<1>1. CASE UNCHANGED cvars
  <2>1. SameCache /\ UNCHANGED <<up, ssts, nextSstId, held, handles, reading, builds>>
    BY <1>1 DEF cvars, cache, users, history, SameCache
  <2>2. EngineShape'
    BY <2>1 DEF CInv, EngineShape
  <2>3. Holding'
    BY <2>1 DEF CInv, SameCache, Holding
  <2>4. IdsFresh'
    <3>1. InUse' = InUse
      BY <2>1 DEF InUse
    <3>2. Sources' = Sources
      BY <2>1, <3>1 DEF Sources, SameCache
    <3> QED
      BY <2>1, <3>2 DEF CInv, IdsFresh
  <2> QED
    BY <2>1, <2>2, <2>3, <2>4, SameLists DEF CInv
<1> QED
  BY <1>1, LockSteps, HitStep, MissStep, FillStep, FillFailsStep, BuildStep,
     BuildNothingStep, ClearStep, CloseStep, ReopenStep DEF CNext

-----------------------------------------------------------------------------
(* What follows from the invariant.                                         *)

\* A list in order has as many nodes as keys.
LEMMA CountKeys ==
    ASSUME NEW s \in Seq(Nodes), NEW o, InUseOrder(s, o)
    PROVE  IsFiniteSet(KeysOf(s)) /\ Cardinality(KeysOf(s)) = Len(s)
<1> DEFINE f == [i \in 1..Len(s) |-> s[i].key]
<1>1. Len(s) \in Nat /\ DOMAIN s = 1..Len(s)
  BY SeqBasics
<1>2. KeysOf(s) = {s[i].key : i \in 1..Len(s)}
  BY <1>1 DEF KeysOf
<1>3. ASSUME NEW i \in 1..Len(s), NEW j \in 1..Len(s), s[i].key = s[j].key PROVE i = j
  <2>1. ~(i < j) /\ ~(j < i)
    BY <1>1, <1>3 DEF InUseOrder
  <2> QED
    BY <2>1
<1>4. f \in [1..Len(s) -> KeysOf(s)]
  BY <1>2
<1>5. IsInjective(f)
  BY <1>3 DEF IsInjective
<1>6. \A x \in KeysOf(s) : \E i \in 1..Len(s) : f[i] = x
  BY <1>2
<1> HIDE DEF f
<1>7. ExistsBijection(1..Len(s), KeysOf(s))
  BY <1>4, <1>5, <1>6 DEF ExistsBijection, Bijection, Injection, Surjection
<1>8. IsFiniteSet(1..Len(s))
  BY <1>1, FS_Interval
<1> QED
  BY <1>1, <1>7, <1>8, FS_Bijection, FS_CountingElements

\* BlockCache and the users of ssts_mtx: the lists, the index, the counts and
\* the ids are in order after every call, fill, build, clear and restart.
THEOREM CacheInvariance == CSpec => []CInv
<1>1. CInit => CInv
  BY CInitInv
<1>2. CInv /\ [CNext]_cvars => CInv'
  BY CNextInv
<1> QED
  BY <1>1, <1>2, PTL DEF CSpec

\* put and update_access_count: index and lists agree node by node, hot blocks
\* are those with K uses, and the capacity is kept, whatever threads race.
THEOREM CacheIsConsistent == CSpec => []CacheConsistent
<1>1. CInv => CacheConsistent
  <2> SUFFICES ASSUME CInv PROVE CacheConsistent
    OBVIOUS
  <2>1. /\ hot \in Seq(Nodes) /\ cold \in Seq(Nodes)
        /\ index = KeysOf(hot) \cup KeysOf(cold) /\ KeysOf(hot) \cap KeysOf(cold) = {}
        /\ InUseOrder(hot, newer) /\ InUseOrder(cold, newer)
    BY DEF CInv, CacheShape, ListsOk
  <2>2. index = {x.key : x \in Items}
    BY <2>1 DEF KeysOf, Items, Range
  <2>3. Len(hot) + Len(cold) = Cardinality(index)
    <3>1. /\ IsFiniteSet(KeysOf(hot)) /\ Cardinality(KeysOf(hot)) = Len(hot)
          /\ IsFiniteSet(KeysOf(cold)) /\ Cardinality(KeysOf(cold)) = Len(cold)
      BY <2>1, CountKeys
    <3>2. Cardinality(index) = Len(hot) + Len(cold) - Cardinality({})
      BY <2>1, <3>1, FS_Union
    <3>3. Cardinality({}) = 0 /\ Len(hot) \in Nat /\ Len(cold) \in Nat
      BY <2>1, FS_EmptySet, SeqBasics
    <3> QED
      BY <3>2, <3>3
  <2>4. Cardinality(index) <= capacity
    BY DEF CInv, ListsOk
  <2>5. \A x \in Range(hot) : x.count = k /\ uses[x.key] = k
    BY DEF CInv, ListsOk, HotCounts, Range
  <2>6. \A x \in Range(cold) : x.count < k /\ uses[x.key] = x.count
    BY DEF CInv, ListsOk, ColdCounts, Range
  <2> QED
    BY <2>2, <2>3, <2>4, <2>5, <2>6 DEF CacheConsistent
<1> QED
  BY <1>1, CacheInvariance, PTL

\* SST::read_block is never served the block of another file: the ids that
\* flush, full_compact, clear and the constructor hand out are fresh for
\* everything that still knows an id, the cache included.
THEOREM CacheIsCoherent == CSpec => []CacheCoherent
<1>1. CInv => CacheCoherent
  <2> SUFFICES ASSUME CInv, NEW s \in ssts \cup UNION Range(handles), NEW x \in Items,
                      x.key.id = s.id
               PROVE  x.data = s.build
    BY DEF CacheCoherent
  <2>1. s \in InUse
    BY DEF CInv, EngineShape, InUse, Range
  <2>2. <<s.id, s.build>> \in Sources
    BY <2>1 DEF Sources, FilesOf
  <2>3. <<x.key.id, x.data>> \in Sources
    BY DEF Sources, SourceOf, Items, Range
  <2>4. <<x.key.id, x.data>>[1] = <<s.id, s.build>>[1]
    OBVIOUS
  <2>5. <<x.key.id, x.data>>[2] = <<s.id, s.build>>[2]
    BY <2>2, <2>3, <2>4 DEF CInv, IdsFresh
  <2> QED
    BY <2>5
<1> QED
  BY <1>1, CacheInvariance, PTL

\* The last node of a list was used before the others.
LEMMA LastIsOldest ==
    ASSUME NEW s \in Seq(Nodes), s # <<>>, NEW o, InUseOrder(s, o)
    PROVE  /\ Last(s).key \in KeysOf(s)
           /\ \A x \in KeysOf(s) \ {Last(s).key} : <<x, Last(s).key>> \in o
<1>1. Len(s) \in Nat /\ Len(s) > 0 /\ DOMAIN s = 1..Len(s) /\ Last(s) = s[Len(s)]
  BY SeqBasics, EndFacts
<1>2. Len(s) \in DOMAIN s /\ \A i \in DOMAIN s : i # Len(s) => i < Len(s)
  BY <1>1
<1>3. \A i \in DOMAIN s : i # Len(s) => <<s[i].key, s[Len(s)].key>> \in o
  BY <1>2 DEF InUseOrder
<1> QED
  BY <1>1, <1>2, <1>3 DEF KeysOf

\* put: what is dropped for a new block is the coldest.
LEMMA EvictedColdest ==
    ASSUME CacheShape, ListsOk, capacity > 0, NEW v \in index, v \notin Evicted.index
    PROVE  Coldest(v)
<1>1. /\ hot \in Seq(Nodes) /\ cold \in Seq(Nodes) /\ k \in Nat
      /\ index = KeysOf(hot) \cup KeysOf(cold)
      /\ InUseOrder(hot, newer) /\ InUseOrder(cold, newer)
  BY DEF CacheShape, ListsOk
<1>2. \A x \in KeysOf(hot) : ~(uses[x] < k)
  BY <1>1 DEF ListsOk, HotCounts, KeysOf
<1>3. \A x \in KeysOf(cold) : uses[x] < k
  BY DEF ListsOk, ColdCounts, KeysOf
<1>4. {x \in index : uses[x] < k} = KeysOf(cold)
  BY <1>1, <1>2, <1>3
<1>5. ~(Cardinality(index) < capacity)
  BY DEF Evicted
<1>6. Cardinality(index) = capacity
  <2>1. Cardinality(index) \in Nat /\ capacity \in Nat /\ Cardinality(index) <= capacity
    BY FS_CardinalityType DEF CacheShape, ListsOk
  <2> QED
    BY <1>5, <2>1
<1>7. CASE cold = <<>>
  <2>1. KeysOf(cold) = {} /\ index = KeysOf(hot)
    BY <1>1, <1>7 DEF KeysOf
  <2>2. v = Last(hot).key
    BY <1>5, <1>7 DEF Evicted
  <2>3. hot # <<>>
    BY <2>1 DEF KeysOf
  <2>4. \A x \in index \ {v} : <<x, v>> \in newer
    BY <1>1, <2>1, <2>2, <2>3, LastIsOldest
  <2> QED
    BY <1>4, <1>6, <2>1, <2>4 DEF Coldest
<1>8. CASE cold # <<>>
  <2>1. v = Last(cold).key
    BY <1>5, <1>8 DEF Evicted
  <2>2. v \in KeysOf(cold) /\ \A x \in KeysOf(cold) \ {v} : <<x, v>> \in newer
    BY <1>1, <1>8, <2>1, LastIsOldest
  <2> QED
    BY <1>4, <1>6, <2>2 DEF Coldest
<1> QED
  BY <1>7, <1>8

\* put under LRU-K: a block leaves a cache in use only when the cache is full,
\* and it is the least recently used among those with fewer than K uses, or
\* among all when every block has K.
THEOREM EvictionIsColdest == CSpec => EvictsColdest
<1>1. ASSUME CInv, [CNext]_cvars, up, up' PROVE \A v \in index \ index' : Coldest(v)
  <2>1. CASE index' = index
    BY <2>1
  <2>2. ASSUME NEW t \in Threads, Fill(t) PROVE \A v \in index \ index' : Coldest(v)
    <3> DEFINE key == KeyOf(reading[t][1], reading[t][2])
               data == reading[t][1].build
    <3>1. Put(key, data)
      BY <2>2 DEF Fill
    <3> HIDE DEF key, data
    <3>2. CASE capacity > 0 /\ key \notin index /\ Insert(key, data)
      <4>1. index' = Evicted.index \cup {key}
        BY <3>2 DEF Insert
      <4> QED
        BY <1>1, <3>2, <4>1, EvictedColdest DEF CInv
    <3>3. CASE UNCHANGED <<cache, uses, newer>> \/ Use(key)
      BY <3>3 DEF cache, Use
    <3> QED
      BY <3>1, <3>2, <3>3 DEF Put
  <2>3. CASE UNCHANGED cvars
    BY <2>3 DEF cvars, cache
  <2>4. ASSUME NEW t \in Threads,
               LockShared(t) \/ LockExclusive(t) \/ Unlock(t) \/ FillFails(t) \/ BuildNothing(t)
        PROVE  index' = index
    BY <2>4 DEF LockShared, LockExclusive, Unlock, FillFails, BuildNothing, cache
  <2>5. ASSUME NEW t \in Threads, NEW s \in handles[t], NEW b \in Blocks,
               GetHit(t, s, b) \/ GetMiss(t, s, b)
        PROVE  index' = index
    BY <2>5 DEF GetHit, GetMiss, Use, cache
  <2>6. ASSUME NEW t \in Threads, NEW old \in SUBSET ssts, Build(t, old) PROVE index' = index
    BY <2>6 DEF Build, cache
  <2>7. CASE Clear
    BY <2>7 DEF Clear, cache
  <2>8. ~Close /\ ~Reopen
    BY <1>1 DEF Close, Reopen
  <2> QED
    BY <1>1, <2>1, <2>2, <2>3, <2>4, <2>5, <2>6, <2>7, <2>8 DEF CNext
<1>2. CInv /\ [CNext]_cvars =>
        [up /\ up' => \A v \in index \ index' : Coldest(v)]_cvars
  BY <1>1
<1> QED
  BY <1>2, CacheInvariance, PTL DEF EvictsColdest, CSpec
=============================================================================
