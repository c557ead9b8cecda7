------------------------------ MODULE SstLevels ------------------------------
(***************************************************************************)
(* The persistent half of LSMEngine (src/lsm/engine.cpp): flushing the     *)
(* memtable to level 0, compacting a full level into the next one, point   *)
(* lookups over the levels, and reopening the directory.                   *)
(*                                                                         *)
(* flush holds ssts_mtx from its first to its last step, so lookups see    *)
(* only the states in which no flush runs; a crash sees all of them.  The  *)
(* memtable is the sequence of its writes: where one frozen table ends and *)
(* the next begins depends on sizes and is chosen when a flush takes the   *)
(* oldest one.  Where compaction cuts a level into files also depends on   *)
(* sizes and is a free choice among the places the code allows.            *)
(***************************************************************************)
EXTENDS Integers, FiniteSetsExt, SequencesExt, Orders

CONSTANTS
    Keys,           \* keys, ordered as numbers
    MaxVer,         \* versions (transaction ids) are 1..MaxVer
    Ratio,          \* LsmSstLevelRatio
    MaxLevel,       \* bound: levels are 0..MaxLevel
    EngineFaults,   \* which of "crash", "build" and "remove" may happen
    MaxWrites,      \* bound: writes
    MaxMem,         \* bound: writes waiting in the memtable
    MaxLate,        \* bound: flushes that come too late to find anything
    MaxFaults       \* bound: faults

ASSUME KeysAssumption == Keys \subseteq Nat
ASSUME RatioAssumption == Ratio \in Nat \ {0}
ASSUME FaultsAssumption == EngineFaults \subseteq {"crash", "build", "remove"}
ASSUME BoundsAssumption ==
    /\ MaxVer \in Nat /\ MaxLevel \in Nat \ {0}
    /\ MaxWrites \in Nat /\ MaxMem \in Nat /\ MaxFaults \in Nat /\ MaxLate \in Nat

VARIABLES
    mem,        \* the memtable: its writes, oldest first
    files,      \* SST files on disk: id -> level, records, torn
    lists,      \* level_sst_ids
    nextSstId,  \* next_sst_id
    job,        \* the thread inside flush
    late,       \* has another thread found the memtable not yet empty
    proc        \* is the engine open

VARIABLES       \* history
    writes,     \* writes so far
    faults,     \* faults so far
    lates,      \* late flushes so far
    flushed     \* records that a finished flush moved to disk

history == <<writes, faults, lates, flushed>>
svars == <<mem, files, lists, nextSstId, job, late, proc, history>>

Idle == [ph |-> "idle"]
NoLists == [l \in 0..MaxLevel |-> <<>>]

SInit ==
    /\ mem = <<>>
    /\ files = [i \in {} |-> [level |-> 0, recs |-> <<>>, torn |-> FALSE]]
    /\ lists = NoLists
    /\ nextSstId = 1
    /\ job = Idle
    /\ late = FALSE
    /\ proc = "open"
    /\ writes = 0 /\ faults = 0 /\ lates = 0 /\ flushed = {}

-----------------------------------------------------------------------------
(* Tables and the merge of two levels.  A record is [key, ver, n]: n counts *)
(* the writes, so it stands for the value.                                  *)

SameSlot(r, s) == r.key = s.key /\ r.ver = s.ver

\* Key ascending, version descending: the order of skip list, block and SST.
Before(r, s) == r.key < s.key \/ (r.key = s.key /\ r.ver > s.ver)

\* The memtable keeps one entry per key and version, the last one written.
TableOf(recs) ==
    InOrder({r \in Range(recs) : \A s \in Range(recs) : SameSlot(r, s) => s.n <= r.n},
            Before)

\* SearchItem: records of one key and version, the one of the newer file first.
HeapBefore(a, b) == Before(a.r, b.r) \/ (SameSlot(a.r, b.r) /\ a.id > b.id)

\* The heap over level 0.
HeapMerge(ids) ==
    LET items == UNION {{[id |-> i, r |-> r] : r \in Range(files[i].recs)} : i \in Range(ids)}
        order == InOrder(items, HeapBefore)
    IN  [i \in DOMAIN order |-> order[i].r]

\* ConcactIterator: the files of a level one after the other.
Concat(ids) == FlattenSeq([i \in DOMAIN ids |-> files[ids[i]].recs])

\* Faulty variant: the older level wins ties.
ChooseOlder(r, s) == r.key < s.key \/ (r.key = s.key /\ r.ver > s.ver)

\* choose_it_a: smaller key, then larger version, then the newer level.
ChooseA(r, s) == r.key < s.key \/ (r.key = s.key /\ r.ver >= s.ver)

\* Which iterator is next once at[1] records of a and at[2] of b are out.
TakesA(a, b, at) ==
    at[1] < Len(a) /\ (at[2] < Len(b) => ChooseA(a[at[1] + 1], b[at[2] + 1]))

\* How far both iterators are after each turn.
MergeTurns(a, b) ==
    LET at[k \in 0..(Len(a) + Len(b))] ==
          IF k = 0 THEN <<0, 0>>
          ELSE IF TakesA(a, b, at[k - 1]) THEN <<at[k - 1][1] + 1, at[k - 1][2]>>
          ELSE <<at[k - 1][1], at[k - 1][2] + 1>>
    IN  at

\* TwoMergeIterator, keeping all versions.
TwoMerge(a, b) ==
    LET at == MergeTurns(a, b)
    IN  [k \in 1..(Len(a) + Len(b)) |->
           IF TakesA(a, b, at[k - 1]) THEN a[at[k - 1][1] + 1] ELSE b[at[k - 1][2] + 1]]

\* Faulty variant: the versions of one key may end up in two files.
MayCutAnywhere(recs, n) == TRUE

\* gen_sst_from_iter closes a file only between two different keys.
MayCut(recs, n) == n < Len(recs) => recs[n].key # recs[n + 1].key

Created(id, level, recs, torn) ==
    [i \in DOMAIN files \cup {id} |->
       IF i = id THEN [level |-> level, recs |-> recs, torn |-> torn] ELSE files[i]]
Removed(id) == [i \in DOMAIN files \ {id} |-> files[i]]

-----------------------------------------------------------------------------
(* put, remove and their batches: one record each.                          *)
Write(k, v) ==
    /\ proc = "open" /\ writes < MaxWrites /\ Len(mem) < MaxMem
    /\ mem' = Append(mem, [key |-> k, ver |-> v, n |-> writes + 1])
    /\ writes' = writes + 1
    /\ UNCHANGED <<files, lists, nextSstId, job, late, proc, faults, lates, flushed>>

\* Faulty variant: a level is full only beyond the ratio.
FullBeyond(l) == Len(lists[l]) > Ratio

Full(l) == Len(lists[l]) >= Ratio

\* full_compact makes room below before it moves a level: the compactions it
\* runs start at the first level whose successor is not full.
Deepest == Min({l \in 0..(MaxLevel - 1) : l = MaxLevel - 1 \/ ~Full(l + 1)})

\* full_compact(src) with level_sst_ids = ls: what it merges and will delete.
Compacting(ls, src) ==
    [ph |-> "compact", src |-> src, new |-> <<>>,
     rest |-> TwoMerge(IF src = 0 THEN HeapMerge(ls[0]) ELSE Concat(ls[src]),
                       Concat(ls[src + 1])),
     old |-> ls[src] \o ls[src + 1]]

(* The size of the memtable is read before ssts_mtx is taken: a thread that *)
(* comes late may find nothing left to flush, and still compacts first.     *)
FlushStart ==
    /\ proc = "open" /\ job = Idle /\ (mem # <<>> \/ late)
    /\ late' = (late /\ mem # <<>>)
    /\ lates' = IF mem = <<>> THEN lates + 1 ELSE lates
    /\ job' = IF Full(0) THEN Compacting(lists, Deepest) ELSE [ph |-> "build"]
    /\ UNCHANGED <<mem, files, lists, nextSstId, proc, writes, faults, flushed>>

(* One turn of gen_sst_from_iter: a file with the first n records left.     *)
CompactWrite ==
    /\ job.ph = "compact"
    /\ \E n \in DOMAIN job.rest :
         /\ MayCut(job.rest, n)
         /\ files' = Created(nextSstId, job.src + 1, SubSeq(job.rest, 1, n), FALSE)
         /\ job' = [job EXCEPT !.rest = SubSeq(@, n + 1, Len(@)),
                               !.new = Append(@, nextSstId)]
    /\ nextSstId' = nextSstId + 1
    /\ UNCHANGED <<mem, lists, late, proc, history>>

(* del_sst of the next old file; an error is not noticed.                   *)
CompactDelete ==
    /\ job.ph = "compact" /\ job.rest = <<>> /\ job.old # <<>>
    /\ \/ files' = Removed(Head(job.old)) /\ UNCHANGED faults
       \/ /\ "remove" \in EngineFaults /\ faults < MaxFaults
          /\ faults' = faults + 1 /\ UNCHANGED files
    /\ job' = [job EXCEPT !.old = Tail(@)]
    /\ UNCHANGED <<mem, lists, nextSstId, late, proc, writes, lates, flushed>>

Installed == [lists EXCEPT ![job.src] = <<>>, ![job.src + 1] = job.new]

(* The new files replace both levels, then the level above is compacted or  *)
(* the flush goes on.                                                       *)
CompactInstall ==
    /\ job.ph = "compact" /\ job.rest = <<>> /\ job.old = <<>>
    /\ lists' = Installed
    /\ job' = IF job.src = 0 THEN [ph |-> "build"]
              ELSE Compacting(Installed, job.src - 1)
    /\ UNCHANGED <<mem, files, nextSstId, late, proc, history>>

(* flush_last writes the oldest table, which holds the first n writes.      *)
FlushBuild ==
    /\ job.ph = "build"
    /\ \E n \in DOMAIN mem :
         LET table == TableOf(SubSeq(mem, 1, n))
         IN  /\ files' = Created(nextSstId, 0, table, FALSE)
             /\ flushed' = flushed \cup Range(table)
             /\ mem' = SubSeq(mem, n + 1, Len(mem))
    /\ lists' = [lists EXCEPT ![0] = <<nextSstId>> \o @]
    /\ nextSstId' = nextSstId + 1
    /\ job' = Idle
    /\ late' = (lates < MaxLate)
    /\ UNCHANGED <<proc, writes, faults, lates>>

(* flush_last finds no table: the id is spent and nothing is registered.    *)
FlushNothing ==
    /\ job.ph = "build" /\ mem = <<>>
    /\ nextSstId' = nextSstId + 1
    /\ job' = Idle
    /\ UNCHANGED <<mem, files, lists, late, proc, history>>

(* Building a file throws: flush is left, what was written stays on disk,   *)
(* the lists and the memtable are as they were.                             *)
BuildFails ==
    /\ "build" \in EngineFaults /\ faults < MaxFaults
    /\ (job.ph = "build" /\ mem # <<>>) \/ (job.ph = "compact" /\ job.rest # <<>>)
    /\ LET level == IF job.ph = "build" THEN 0 ELSE job.src + 1
       IN  \/ files' = Created(nextSstId, level, <<>>, TRUE)
           \/ UNCHANGED files
    /\ nextSstId' = nextSstId + 1
    /\ job' = Idle
    /\ faults' = faults + 1
    /\ UNCHANGED <<mem, lists, late, proc, writes, lates, flushed>>

-----------------------------------------------------------------------------
(* LSMEngine::clear, called while nothing else runs.                        *)
Clear ==
    /\ proc = "open" /\ job = Idle
    /\ mem' = <<>> /\ lists' = NoLists /\ files' = [i \in {} |-> files[i]]
    /\ flushed' = {}
    /\ late' = FALSE
    /\ UNCHANGED <<nextSstId, job, proc, writes, faults, lates>>

(* ~LSM after flush_all.                                                    *)
Close ==
    /\ proc = "open" /\ job = Idle /\ mem = <<>>
    /\ proc' = "closed" /\ late' = FALSE
    /\ UNCHANGED <<mem, files, lists, nextSstId, job, history>>

(* A file being written when the process dies may be cut short.             *)
Crash ==
    /\ "crash" \in EngineFaults /\ faults < MaxFaults /\ proc = "open"
    /\ proc' = "closed" /\ mem' = <<>> /\ job' = Idle /\ late' = FALSE
    /\ faults' = faults + 1
    /\ \/ UNCHANGED files
       \/ /\ (job.ph = "build" /\ mem # <<>>) \/ (job.ph = "compact" /\ job.rest # <<>>)
          /\ files' = Created(nextSstId, IF job.ph = "build" THEN 0 ELSE job.src + 1,
                              <<>>, TRUE)
    /\ UNCHANGED <<lists, nextSstId, writes, lates, flushed>>

\* Faulty variant: the largest id in use is handed out again.
ReopenNextInUse == Max(DOMAIN files \cup {0})

ReopenNext == Max(DOMAIN files \cup {0}) + 1

\* The files of a level by id; level 0 newest first.
LevelFromDisk(l) ==
    LET ids == {i \in DOMAIN files : files[i].level = l}
    IN  IF l = 0 THEN InOrder(ids, >) ELSE InOrder(ids, <)

Reopen ==
    /\ proc = "closed" /\ \A i \in DOMAIN files : ~files[i].torn
    /\ lists' = [l \in 0..MaxLevel |-> LevelFromDisk(l)]
    /\ nextSstId' = ReopenNext
    /\ proc' = "open"
    /\ UNCHANGED <<mem, files, job, late, history>>

(* SST::open cannot read the footer of a torn file and throws.              *)
ReopenFails ==
    /\ proc = "closed" /\ \E i \in DOMAIN files : files[i].torn
    /\ proc' = "broken"
    /\ UNCHANGED <<mem, files, lists, nextSstId, job, late, history>>

SNext ==
    \/ \E k \in Keys, v \in 1..MaxVer : Write(k, v)
    \/ FlushStart
    \/ CompactWrite \/ CompactDelete \/ CompactInstall
    \/ FlushBuild \/ FlushNothing \/ BuildFails
    \/ Clear \/ Close \/ Crash \/ Reopen \/ ReopenFails

SSpec == SInit /\ [][SNext]_svars

-----------------------------------------------------------------------------
(* Lookups.  A table is a sequence of records in the order Before: a table  *)
(* of the memtable or a file.                                               *)

Missing == [key |-> 0, ver |-> 0, n |-> 0]

\* The first record of the key within the cap: the largest such version.
InTable(recs, k, cap) ==
    LET hits == {p \in DOMAIN recs : recs[p].key = k /\ (cap = 0 \/ recs[p].ver <= cap)}
    IN  IF hits = {} THEN Missing ELSE recs[Min(hits)]

\* What was found first is kept, but for a larger version.
Better(best, r) == IF r.ver > best.ver THEN r ELSE best

\* What is best after each of the tables.
BestTurns(tables, k, cap) ==
    LET best[n \in 0..Len(tables)] ==
          IF n = 0 THEN Missing ELSE Better(best[n - 1], InTable(tables[n], k, cap))
    IN  best

Best(tables, k, cap) == BestTurns(tables, k, cap)[Len(tables)]

(* The memtable: the frozen tables end with the writes at the places F, the *)
(* rest is the current table.                                               *)

LastBefore(F, e) == Max({0} \cup {d \in F : d < e})

\* Faulty variant: the oldest table is asked first.
FrozenFromOldest(F) ==
    LET ends == InOrder(F, <)
    IN  [i \in DOMAIN ends |-> TableOf(SubSeq(mem, LastBefore(F, ends[i]) + 1, ends[i]))]

\* frozen_tables, newest first.
Frozen(F) ==
    LET ends == InOrder(F, >)
    IN  [i \in DOMAIN ends |-> TableOf(SubSeq(mem, LastBefore(F, ends[i]) + 1, ends[i]))]

Current(F) == TableOf(SubSeq(mem, Max({0} \cup F) + 1, Len(mem)))

\* get_: the current table, then the frozen ones.
MemGet(F, k, cap) == Better(InTable(Current(F), k, cap), Best(Frozen(F), k, cap))

(* sst_get_: every file of level 0, and one file per deeper level.          *)

FirstKey(i) == Head(files[i].recs).key
LastKey(i) == Last(files[i].recs).key

\* One turn of the binary search over ids[l + 1] to ids[r]; it stays where it
\* finds the key within a file, and where nothing is left.
Narrow(ids, k, at) ==
    LET l == at[1]
        r == at[2]
        mid == (l + r) \div 2
        i == ids[mid + 1]
    IN  IF l >= r \/ (FirstKey(i) <= k /\ k <= LastKey(i)) THEN at
        ELSE IF LastKey(i) < k THEN <<mid + 1, r>>
        ELSE <<l, mid>>

\* The search: each turn drops at least one file, so Len(ids) turns are enough.
SearchTurns(ids, k) ==
    LET at[n \in 0..Len(ids)] == IF n = 0 THEN <<0, Len(ids)>> ELSE Narrow(ids, k, at[n - 1])
    IN  at

\* The file the search ends in; <<>> if it ends outside.
Located(ids, k) ==
    LET at == SearchTurns(ids, k)[Len(ids)]
    IN  IF at[1] >= at[2] THEN <<>> ELSE <<ids[(at[1] + at[2]) \div 2 + 1]>>

Candidates(k) ==
    lists[0] \o FlattenSeq([l \in 1..MaxLevel |-> Located(lists[l], k)])

SstGet(k, cap) ==
    LET ids == Candidates(k)
    IN  Best([i \in DOMAIN ids |-> files[ids[i]].recs], k, cap)

\* LSMEngine::get with what sst_get_ returned: it counts only when its version is
\* larger than that of the memtable.
Get(F, k, cap, sst_ret) == Better(MemGet(F, k, cap), sst_ret)

-----------------------------------------------------------------------------
(* Properties.                                                              *)

Registered == UNION {Range(lists[l]) : l \in 0..MaxLevel}

\* The lists name files of their own level, and between flushes level 0, whose
\* files every lookup reads, holds at most Ratio of them.
STypeOK ==
    /\ proc \in {"open", "closed", "broken"}
    /\ proc = "open" =>
         /\ nextSstId > Max(DOMAIN files \cup {0})
         /\ Len(lists[0]) <= Ratio
         /\ job = Idle =>
              \A l \in 0..MaxLevel : \A i \in Range(lists[l]) :
                 i \in DOMAIN files /\ files[i].level = l /\ ~files[i].torn

\* What the records S hold for key k within cap: the largest version, and of
\* that version the last write.
Expected(S, k, cap) ==
    LET hits == {r \in S : r.key = k /\ (cap = 0 \/ r.ver <= cap)}
    IN  IF hits = {} THEN Missing
        ELSE CHOOSE r \in hits : \A s \in hits :
               s.ver < r.ver \/ (s.ver = r.ver /\ s.n <= r.n)

\* get and sst_get_ after any sequence of writes, flushes, cascading compactions
\* and clean restarts, wherever tables were frozen: a lookup returns the largest
\* version within its cap and, where one transaction wrote it several times, the
\* last of its writes.  Of these a write in the memtable may well have a smaller
\* version than one on disk, and the same version may be in both.
ReadsNewest ==
    proc = "open" /\ job = Idle =>
        \A k \in Keys, cap \in 0..MaxVer :
           LET sst_ret == SstGet(k, cap)
               newest == Expected(flushed \cup Range(mem), k, cap)
           IN  /\ sst_ret = Expected(flushed, k, cap)
               /\ \A F \in SUBSET DOMAIN mem : Get(F, k, cap, sst_ret) = newest

\* The comment in sst_get_, on which its binary search rests: below level 0
\* the files of a level are ordered by key and do not overlap.
LevelsDisjoint ==
    proc = "open" /\ job = Idle =>
        \A l \in 1..MaxLevel : \A i, j \in DOMAIN lists[l] :
            i < j => LastKey(lists[l][i]) < FirstKey(lists[l][j])

\* full_compact writes every new file before it deletes an old one, and keeps
\* all versions: at every moment, whatever fails or crashes, each flushed record
\* is in a readable file.
FlushedKept ==
    \A r \in flushed :
        \E i \in DOMAIN files : ~files[i].torn /\ r \in Range(files[i].recs)
=============================================================================
