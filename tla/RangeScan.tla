------------------------------ MODULE RangeScan ------------------------------
(***************************************************************************)
(* Range reads of the engine: Level_Iterator, which walks memtable, level  *)
(* 0 and the deeper levels lazily, and lsm_iters_monotony_predicate, which *)
(* collects the keys of an interval, while transactions write, end and     *)
(* roll back and flushes wait for the lock the reader holds.               *)
(*                                                                         *)
(* A record is [key, ver, del, n]: del marks a tombstone, n counts the     *)
(* writes and stands for the value, and key 0 is the empty key under which *)
(* a commit leaves its end marker.  A file is a sequence of blocks, a      *)
(* block a sequence of records.  Where tables, blocks and files end        *)
(* depends on sizes and is a free choice among the places the code allows; *)
(* one level below level 0 stands for all of them (SstLevels has more).    *)
(* A reader asks is_aborted about the records of one source in one step.   *)
(***************************************************************************)
EXTENDS Integers, FiniteSetsExt, SequencesExt, Orders

CONSTANTS
    Keys,       \* user keys, ordered as numbers
    MaxVer,     \* versions (transaction ids) are 1..MaxVer
    Caps,       \* read caps asked for, 0 for none
    Ratio,      \* LsmSstLevelRatio
    MaxWrites   \* bound: records written, markers included

ASSUME KeysAssumption == Keys \subseteq Nat \ {0}
ASSUME RatioAssumption == Ratio \in Nat \ {0}
ASSUME CapsAssumption == Caps \subseteq Nat
ASSUME BoundsAssumption == MaxVer \in Nat /\ MaxWrites \in Nat

VARIABLES
    cur,        \* active table: set of records
    frozen,     \* frozen tables, newest first
    l0,         \* files of level 0, newest first
    l1,         \* files of level 1, by key
    aborted,    \* versions the manager reports as rolled back
    ended,      \* versions whose transaction has ended
    q,          \* the range read under way
    writes      \* history: records written so far

data == <<cur, frozen, l0, l1>>
rvars == <<data, aborted, ended, q, writes>>

Vers == 1..MaxVer
NoQuery == [ph |-> "none"]

RInit ==
    /\ cur = {} /\ frozen = <<>> /\ l0 = <<>> /\ l1 = <<>>
    /\ aborted = {} /\ ended = {} /\ q = NoQuery /\ writes = 0

-----------------------------------------------------------------------------
(* Tables, blocks and files.                                                *)

SameSlot(r, s) == r.key = s.key /\ r.ver = s.ver

\* Key ascending, version descending, and of one version the later write,
\* which is always in the newer table.
Before(r, s) ==
    \/ r.key < s.key
    \/ r.key = s.key /\ r.ver > s.ver
    \/ SameSlot(r, s) /\ r.n > s.n
Sorted(S) == InOrder(S, Before)

PutRec(table, r) == {x \in table : ~SameSlot(x, r)} \cup {r}

\* A block or a file ends only where the key changes.
Boundaries(s) == {i \in 1..(Len(s) - 1) : s[i].key # s[i + 1].key}
Split(s, C) ==
    LET e == InOrder(C \cup {Len(s)}, <)
    IN  [j \in DOMAIN e |-> SubSeq(s, IF j = 1 THEN 1 ELSE e[j - 1] + 1, e[j])]

Records(file) == FlattenSeq(file)
LevelRecords(files) == FlattenSeq([i \in DOMAIN files |-> Records(files[i])])

\* gen_sst_from_iter: files end at F, blocks at the records B.
Level(s, F, B) ==
    LET files == Split(s, F)
    IN  [j \in DOMAIN files |->
           Split(files[j], {i \in Boundaries(files[j]) : files[j][i] \in B})]

-----------------------------------------------------------------------------
(* What goes on around a reader.                                            *)

Reading == q.ph # "none"        \* ssts_mtx is held shared

\* A record enters the active table, which may be full then.
Store(r) ==
    \/ cur' = PutRec(cur, r) /\ UNCHANGED frozen
    \/ cur' = {} /\ frozen' = <<PutRec(cur, r)>> \o frozen

Write(k, v, del) ==
    /\ v \notin ended /\ writes < MaxWrites
    /\ Store([key |-> k, ver |-> v, del |-> del, n |-> writes + 1])
    /\ writes' = writes + 1
    /\ UNCHANGED <<l0, l1, aborted, ended, q>>

(* Commit leaves a marker under the empty key; rollback leaves nothing.     *)
Commit(v) ==
    /\ v \notin ended /\ writes < MaxWrites
    /\ Store([key |-> 0, ver |-> v, del |-> TRUE, n |-> writes + 1])
    /\ ended' = ended \cup {v} /\ writes' = writes + 1
    /\ UNCHANGED <<l0, l1, aborted, q>>

Abort(v) ==
    /\ v \notin ended
    /\ aborted' = aborted \cup {v} /\ ended' = ended \cup {v}
    /\ UNCHANGED <<data, q, writes>>

(* LSMEngine::flush under ssts_mtx, which a reader holds shared: a full     *)
(* level 0 is merged into level 1, then the oldest table becomes a file of  *)
(* level 0.                                                                 *)
Flush ==
    /\ ~Reading /\ (frozen # <<>> \/ cur # {})
    /\ LET tables == IF frozen = <<>> THEN <<cur>> ELSE frozen
           table == Sorted(Last(tables))
           full == Len(l0) >= Ratio
           merged == Sorted(Range(LevelRecords(l0 \o l1)))
       IN  /\ frozen' = Front(tables)
           /\ cur' = IF frozen = <<>> THEN {} ELSE cur
           /\ \E C \in SUBSET Boundaries(table) :
                l0' = <<Split(table, C)>> \o (IF full THEN <<>> ELSE l0)
           /\ \/ ~full /\ UNCHANGED l1
              \/ /\ full
                 /\ \E F \in SUBSET Boundaries(merged),
                       B \in SUBSET {merged[i] : i \in Boundaries(merged)} :
                      l1' = Level(merged, F, B)
    /\ UNCHANGED <<aborted, ended, q, writes>>

-----------------------------------------------------------------------------
(* Sources of a reader.                                                     *)

\* skip_by_tranc_id: within the cap, and not rolled back when asked.
Visible(r, cap) == (cap = 0 \/ r.ver <= cap) /\ r.ver \notin aborted

\* An SST iterator run to its end: the first visible record of each key.
Heads(s, cap) ==
    LET I == {i \in DOMAIN s :
                /\ Visible(s[i], cap)
                /\ \A j \in 1..(i - 1) : s[j].key = s[i].key => ~Visible(s[j], cap)}
    IN  {s[i] : i \in I}

\* MemTable::begin: the visible records of every table, the empty key left out.
Items(S, pri) == {[r |-> r, pri |-> pri] : r \in S}
MemItems(cap) ==
    LET tables == <<cur>> \o frozen
    IN  UNION {Items({r \in tables[i] : r.key # 0 /\ Visible(r, cap)},
                     Len(l0) + Len(l1) + Len(tables) - i) : i \in DOMAIN tables}

\* operator< of SearchItem: larger version, then newer source.
Wins(a, b) == a.r.ver > b.r.ver \/ (a.r.ver = b.r.ver /\ a.pri > b.pri)

\* HeapIterator without skip_delete: by key, the first of each.
Winners(items) ==
    {a.r : a \in {x \in items : \A y \in items :
                    y.r.key = x.r.key => y = x \/ Wins(x, y)}}
Heap(items) == Sorted(Winners(items))

\* The priority of a file: newer and shallower first.
Files == l0 \o l1
Priority(i) == Len(Files) - i

\* ConcactIterator: the rest of the level from its next visible record on.
From(s, I) == IF I = {} THEN <<>> ELSE SubSeq(s, Min(I), Len(s))
Seek(s, cap) == From(s, {i \in DOMAIN s : Visible(s[i], cap)})

-----------------------------------------------------------------------------
(* Level_Iterator.  The constructor takes ssts_mtx, copies the memtable,    *)
(* reads level 0 file by file, and puts an iterator on level 1.             *)

\* snap and before are history: all records, and the versions rolled back.
Query(ph, cap, lo, hi, items) ==
    [ph |-> ph, cap |-> cap, lo |-> lo, hi |-> hi, items |-> items, next |-> 1,
     src |-> <<>>, out |-> <<>>, before |-> aborted,
     snap |-> cur \cup (UNION Range(frozen)) \cup Range(LevelRecords(Files))]

ScanBegin(cap) ==
    /\ ~Reading
    /\ q' = [Query("l0", cap, Min(Keys), Max(Keys), {}) EXCEPT
               !.src = <<Heap(MemItems(cap))>>]
    /\ UNCHANGED <<data, aborted, ended, writes>>

ScanL0 ==
    /\ q.ph = "l0" /\ q.next <= Len(l0)
    /\ q' = [q EXCEPT !.next = @ + 1,
               !.items = @ \cup Items(Heads(Records(l0[q.next]), q.cap), Priority(q.next))]
    /\ UNCHANGED <<data, aborted, ended, writes>>

\* skip_key on the sources: the heaps have one record per key left, the level
\* goes on to the next key and the next record that is visible by now.
HeapSkip(s, k) == IF s # <<>> /\ Head(s).key = k THEN Tail(s) ELSE s
LevelSkip(s, k) ==
    IF s # <<>> /\ Head(s).key = k
    THEN From(s, {i \in DOMAIN s : s[i].key # k /\ Visible(s[i], q.cap)}) ELSE s
SkipKey(src, k) == <<HeapSkip(src[1], k), HeapSkip(src[2], k), LevelSkip(src[3], k)>>

ScanLevels ==
    /\ q.ph = "l0" /\ q.next > Len(l0)
    /\ q' = [q EXCEPT !.ph = "walk",
               !.src = SkipKey(<<q.src[1], Heap(q.items), Seek(LevelRecords(l1), q.cap)>>, 0)]
    /\ UNCHANGED <<data, aborted, ended, writes>>

\* Faulty variant: of one key the first source wins, whatever its version.
MinKeyIdxFirst(src) ==
    CHOOSE i \in DOMAIN src :
      /\ src[i] # <<>>
      /\ \A j \in DOMAIN src : src[j] # <<>> =>
           \/ Head(src[i]).key < Head(src[j]).key
           \/ Head(src[i]).key = Head(src[j]).key /\ i <= j

\* get_min_key_idx: the smallest key, the largest version, the first source.
MinKeyIdx(src) ==
    CHOOSE i \in DOMAIN src :
      /\ src[i] # <<>>
      /\ \A j \in DOMAIN src : src[j] # <<>> =>
           LET a == Head(src[i])
               b == Head(src[j])
           IN  \/ a.key < b.key
               \/ a.key = b.key /\ (a.ver > b.ver \/ (a.ver = b.ver /\ i <= j))

(* One turn of the loop that ends the constructor and operator++: a         *)
(* tombstone hides its key in every source, a value is where it stops.      *)
ScanStep ==
    /\ q.ph = "walk"
    /\ \/ /\ \A i \in DOMAIN q.src : q.src[i] = <<>>
          /\ q' = [q EXCEPT !.ph = "end"]
       \/ /\ \E i \in DOMAIN q.src : q.src[i] # <<>>
          /\ LET r == Head(q.src[MinKeyIdx(q.src)])
             IN  q' = IF r.del THEN [q EXCEPT !.src = SkipKey(@, r.key)]
                      ELSE [q EXCEPT !.ph = "at", !.out = Append(@, r)]
    /\ UNCHANGED <<data, aborted, ended, writes>>

(* operator++ leaves the current key and the markers behind.                *)
ScanNext ==
    /\ q.ph = "at"
    /\ q' = [q EXCEPT !.ph = "walk",
               !.src = SkipKey(SkipKey(@, Last(q.out).key), 0)]
    /\ UNCHANGED <<data, aborted, ended, writes>>

(* The iterator is destroyed.                                               *)
ScanDrop ==
    /\ q.ph \in {"at", "end"}
    /\ q' = NoQuery
    /\ UNCHANGED <<data, aborted, ended, writes>>

-----------------------------------------------------------------------------
(* lsm_iters_monotony_predicate for the keys lo..hi.                        *)

\* The predicate, wrapped so that the empty key lies left of every interval.
Predicate(k, lo, hi) == IF k = 0 \/ k < lo THEN 1 ELSE IF k > hi THEN -1 ELSE 0
InRange(S, lo, hi) == {r \in S : Predicate(r.key, lo, hi) = 0}

\* Faulty variant: a block that begins left of the interval is passed over.
MeetsFromFirst(block, lo, hi) ==
    Predicate(Head(block).key, lo, hi) = 0 /\ Predicate(Last(block).key, lo, hi) <= 0

\* Pruning by the first and last key of a block.
Meets(block, lo, hi) ==
    Predicate(Head(block).key, lo, hi) >= 0 /\ Predicate(Last(block).key, lo, hi) <= 0

\* Block::get_monotony_predicate_iters: the visible records of a block that lie
\* in the interval; the block counts if there is one.
Hits(block, cap, lo, hi) == {r \in InRange(Range(block), lo, hi) : Visible(r, cap)}

\* sst_iters_monotony_predicate and the loop that collects its records: from
\* the first block with a visible hit to the last one, checking each key again.
FileRange(file, cap, lo, hi) ==
    LET hits == {b \in DOMAIN file :
                   Meets(file[b], lo, hi) /\ Hits(file[b], cap, lo, hi) # {}}
    IN  IF hits = {} THEN {}
        ELSE InRange(Heads(Records(SubSeq(file, Min(hits), Max(hits))), cap), lo, hi)

RangeBegin(cap, lo, hi) ==
    /\ ~Reading
    /\ q' = Query("range", cap, lo, hi,
                  {a \in MemItems(cap) : Predicate(a.r.key, lo, hi) = 0})
    /\ UNCHANGED <<data, aborted, ended, writes>>

RangeFile ==
    /\ q.ph = "range" /\ q.next <= Len(Files)
    /\ q' = [q EXCEPT !.next = @ + 1,
               !.items = @ \cup Items(FileRange(Files[q.next], q.cap, q.lo, q.hi),
                                      Priority(q.next))]
    /\ UNCHANGED <<data, aborted, ended, writes>>

\* The heap drops older versions and tombstones.
RangeResult == Sorted({r \in Winners(q.items) : ~r.del})

(* The lock is released and the result returned.                            *)
RangeReturn ==
    /\ q.ph = "range" /\ q.next > Len(Files)
    /\ q' = NoQuery
    /\ UNCHANGED <<data, aborted, ended, writes>>

RNext ==
    \/ \E k \in Keys, v \in Vers, del \in BOOLEAN : Write(k, v, del)
    \/ \E v \in Vers : Commit(v) \/ Abort(v)
    \/ Flush
    \/ \E cap \in Caps : ScanBegin(cap)
    \/ ScanL0 \/ ScanLevels \/ ScanStep \/ ScanNext \/ ScanDrop
    \/ \E cap \in Caps, lo, hi \in Keys : lo <= hi /\ RangeBegin(cap, lo, hi)
    \/ RangeFile \/ RangeReturn

RSpec == RInit /\ [][RNext]_rvars

-----------------------------------------------------------------------------
(* Properties.                                                              *)

\* The records of key k that a read within its cap may have to consider: of
\* each version the last write, unless rolled back before the read began.
Eligible(k) ==
    {r \in q.snap : /\ r.key = k /\ (q.cap = 0 \/ r.ver <= q.cap)
                    /\ r.ver \notin q.before
                    /\ \A s \in q.snap : SameSlot(r, s) => s.n <= r.n}

\* r is the newest choice but for versions rolled back while the read ran.
Newest(r) == \A s \in Eligible(r.key) : s.ver > r.ver => s.ver \in aborted

\* The answer for key k: its newest record, or no record because the newest is
\* a tombstone or every version was rolled back.
RightFor(k, out) ==
    \/ \E r \in Eligible(k) : r \in Range(out) /\ ~r.del /\ Newest(r)
    \/ /\ \A r \in Range(out) : r.key # k
       /\ \/ \E r \in Eligible(k) : r.del /\ Newest(r)
          \/ \A r \in Eligible(k) : r.ver \in aborted

\* The keys of out are in K, in order, and each key of K that was passed has
\* its right answer.
RightAnswer(out, K, passed) ==
    /\ \A i \in DOMAIN out : out[i].key \in K
    /\ \A i, j \in DOMAIN out : i < j => out[i].key < out[j].key
    /\ \A k \in passed : RightFor(k, out)

\* Level_Iterator: what it has passed is, key by key and in order, what one
\* reading of all sources at its construction would show, although memtable
\* and level 0 are copied at different moments, level 1 is read lazily, and
\* writes and rollbacks go on; only a rollback during the scan is visible.
ScanExact ==
    q.ph \in {"walk", "at", "end"} =>
      RightAnswer(q.out, Keys,
        {k \in Keys : q.ph = "end" \/ (q.out # <<>> /\ k <= Last(q.out).key)})

\* lsm_iters_monotony_predicate: the same for the interval asked for, whatever
\* blocks are pruned and wherever hidden records lie at the edges of blocks.
RangeExact ==
    [][q.ph = "range" /\ q'.ph = "none" =>
         LET K == {k \in Keys : q.lo <= k /\ k <= q.hi}
         IN  RightAnswer(RangeResult, K, K)]_rvars
=============================================================================
