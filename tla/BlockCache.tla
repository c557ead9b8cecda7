----------------------------- MODULE BlockCache -----------------------------
(***************************************************************************)
(* The block cache (class BlockCache, src/block/block_cache.cpp) under the *)
(* readers, flushes and compactions that share it: SST::read_block asks    *)
(* the cache, reads and decodes the block on a miss without holding the    *)
(* cache's mutex, and fills it in afterwards.                              *)
(*                                                                         *)
(* The cache is keyed by SST id and block index and is never invalidated,  *)
(* so that it is right rests on how ids are handed out: by flush and       *)
(* compaction (next_sst_id), across clear(), which keeps the engine and    *)
(* its cache, and across a restart, which may reuse the id of a deleted    *)
(* file.  A file's content is the number of the build that made it.        *)
(***************************************************************************)
EXTENDS Integers, FiniteSetsExt, SequencesExt

CONSTANTS
    Threads,    \* threads that use the engine
    Blocks,     \* block indexes of an SST
    Capacities, \* values of the configured cache capacity
    Ks,         \* values of the configured K of LRU-K
    MaxBuilds   \* bound: SST files built

ASSUME CapacitiesAssumption == Capacities \subseteq Nat
ASSUME KsAssumption == Ks \subseteq Nat
ASSUME MaxBuildsAssumption == MaxBuilds \in Nat

VARIABLES
    up,         \* is the engine open
    capacity,   \* capacity_
    k,          \* k_
    hot,        \* cache_list_greater_k, most recently used first
    cold,       \* cache_list_less_k, most recently used first
    index,      \* the keys of cache_map_
    ssts,       \* the SSTs registered with the engine, which are the files
    nextSstId,  \* next_sst_id
    held,       \* ssts_mtx: how each thread holds it
    handles,    \* the SSTs a thread got hold of under the lock
    reading     \* the block a thread is reading after a miss, or <<>>

VARIABLES       \* history
    builds,     \* files built so far
    uses,       \* how often each cached block was used since it was filled in
    newer       \* pairs of cached blocks, the first used after the second

cache == <<capacity, k, hot, cold, index>>
users == <<held, handles, reading>>
history == <<builds, uses, newer>>
cvars == <<up, cache, ssts, nextSstId, users, history>>

Sst(id, build) == [id |-> id, build |-> build]
KeyOf(sst, b) == [id |-> sst.id, block |-> b]
Item(key, data, n) == [key |-> key, data |-> data, count |-> n]

CacheEmpty ==
    hot' = <<>> /\ cold' = <<>> /\ index' = {} /\ newer' = {} /\ uses' = <<>>

CInit ==
    /\ up = TRUE
    /\ capacity \in Capacities /\ k \in Ks
    /\ hot = <<>> /\ cold = <<>> /\ index = {}
    /\ ssts = {} /\ nextSstId = 1
    /\ held = [t \in Threads |-> "no"]
    /\ handles = [t \in Threads |-> {}]
    /\ reading = [t \in Threads |-> <<>>]
    /\ builds = 0 /\ uses = <<>> /\ newer = {}

-----------------------------------------------------------------------------
(* BlockCache.                                                              *)

Items == Range(hot) \cup Range(cold)
Cached(key) == CHOOSE x \in Items : x.key = key
Place(list, key) == CHOOSE i \in DOMAIN list : list[i].key = key
Unkeyed(list, key) == RemoveAt(list, Place(list, key))

\* The order of use once key is used and keys are cached.
Touched(keys, key) ==
    {p \in newer : {p[1], p[2]} \subseteq keys \ {key}} \cup ({key} \X (keys \ {key}))

\* Faulty variant: a block that has reached K uses stays where it is.
AccessedInPlace(key) ==
    LET it == Cached(key)
        n == it.count + 1
        counted == [it EXCEPT !.count = n]
    IN  IF it.count >= k THEN [hot |-> hot, cold |-> cold]
        ELSE IF n = k
        THEN [hot |-> <<counted>> \o hot, cold |-> Unkeyed(cold, key)]
        ELSE [hot |-> hot, cold |-> <<counted>> \o Unkeyed(cold, key)]

\* update_access_count: the lists after one more use of a cached block.
Accessed(key) ==
    LET it == Cached(key)
        n == it.count + 1
        counted == [it EXCEPT !.count = n]
    IN  IF it.count >= k THEN [hot |-> <<it>> \o Unkeyed(hot, key), cold |-> cold]
        ELSE IF n = k
        THEN [hot |-> <<counted>> \o hot, cold |-> Unkeyed(cold, key)]
        ELSE [hot |-> hot, cold |-> <<counted>> \o Unkeyed(cold, key)]

Use(key) ==
    /\ hot' = Accessed(key).hot /\ cold' = Accessed(key).cold
    /\ uses' = [uses EXCEPT ![key] = Min({@ + 1, k})]
    /\ newer' = Touched(index, key)
    /\ UNCHANGED <<capacity, k, index>>

\* Faulty variant: the key of the evicted block stays in the index.
EvictedKeepsIndex ==
    IF Cardinality(index) < capacity THEN [hot |-> hot, cold |-> cold, index |-> index]
    ELSE IF cold = <<>> THEN [hot |-> Front(hot), cold |-> cold, index |-> index]
    ELSE [hot |-> hot, cold |-> Front(cold), index |-> index]

\* Lists and index once there is room: the last block of the cold list goes,
\* or of the hot list if no block is cold.
Evicted ==
    IF Cardinality(index) < capacity THEN [hot |-> hot, cold |-> cold, index |-> index]
    ELSE IF cold = <<>>
    THEN [hot |-> Front(hot), cold |-> cold, index |-> index \ {Last(hot).key}]
    ELSE [hot |-> hot, cold |-> Front(cold), index |-> index \ {Last(cold).key}]

(* put of a block that is not cached, with room for it or after an eviction *)
Insert(key, data) ==
    LET new == <<Item(key, data, 1)>>
        cached == Evicted.index \cup {key}
    IN  /\ hot' = IF k = 1 THEN new \o Evicted.hot ELSE Evicted.hot
        /\ cold' = IF k = 1 THEN Evicted.cold ELSE new \o Evicted.cold
        /\ index' = cached
        /\ uses' = [x \in cached |-> IF x = key THEN 1 ELSE uses[x]]
        /\ newer' = Touched(cached, key)
        /\ UNCHANGED <<capacity, k>>

(* put; the caller has decoded the block.  The throw of K = 0 is FillFails. *)
Put(key, data) ==
    \/ capacity = 0 /\ UNCHANGED <<cache, uses, newer>>
    \/ capacity > 0 /\ key \in index /\ Use(key)
    \/ capacity > 0 /\ key \notin index /\ Insert(key, data)

-----------------------------------------------------------------------------
(* ssts_mtx.  A point read or a Level_Iterator takes it shared and keeps    *)
(* the SSTs it found; flush takes it exclusively.                           *)

Free(t) == held' = [held EXCEPT ![t] = "no"] /\ handles' = [handles EXCEPT ![t] = {}]

LockShared(t) ==
    /\ up /\ held[t] = "no" /\ \A u \in Threads : held[u] # "exclusive"
    /\ held' = [held EXCEPT ![t] = "shared"]
    /\ handles' = [handles EXCEPT ![t] = ssts]
    /\ UNCHANGED <<up, cache, ssts, nextSstId, reading, history>>

LockExclusive(t) ==
    /\ up /\ \A u \in Threads : held[u] = "no"
    /\ held' = [held EXCEPT ![t] = "exclusive"]
    /\ handles' = [handles EXCEPT ![t] = ssts]
    /\ UNCHANGED <<up, cache, ssts, nextSstId, reading, history>>

Unlock(t) ==
    /\ held[t] # "no" /\ reading[t] = <<>>
    /\ Free(t)
    /\ UNCHANGED <<up, cache, ssts, nextSstId, reading, history>>

(* SST::read_block: the cache is asked under its own mutex.                 *)
GetHit(t, s, b) ==
    /\ s \in handles[t] /\ reading[t] = <<>>
    /\ KeyOf(s, b) \in index
    /\ Use(KeyOf(s, b))
    /\ UNCHANGED <<up, ssts, nextSstId, users, builds>>

GetMiss(t, s, b) ==
    /\ s \in handles[t] /\ reading[t] = <<>>
    /\ KeyOf(s, b) \notin index
    /\ reading' = [reading EXCEPT ![t] = <<s, b>>]
    /\ UNCHANGED <<up, cache, ssts, nextSstId, held, handles, history>>

(* The block was read from the SST's open file and decoded, and is put.     *)
Fill(t) ==
    /\ reading[t] # <<>> /\ k > 0
    /\ LET s == reading[t][1] IN Put(KeyOf(s, reading[t][2]), s.build)
    /\ reading' = [reading EXCEPT ![t] = <<>>]
    /\ UNCHANGED <<up, ssts, nextSstId, held, handles, builds>>

(* The read or the checksum fails, or put throws because K is 0: the        *)
(* exception leaves read_block and every lock on the way.                   *)
FillFails(t) ==
    /\ reading[t] # <<>>
    /\ reading' = [reading EXCEPT ![t] = <<>>]
    /\ Free(t)
    /\ UNCHANGED <<up, cache, ssts, nextSstId, history>>

-----------------------------------------------------------------------------
(* What creates and removes SSTs.                                           *)

(* flush registers a new file; full_compact replaces the files of two       *)
(* levels, which it has read through the cache, by a new one.               *)
Build(t, old) ==
    /\ held[t] = "exclusive" /\ reading[t] = <<>> /\ builds < MaxBuilds
    /\ ssts' = (ssts \ old) \cup {Sst(nextSstId, builds + 1)}
    /\ handles' = [handles EXCEPT ![t] = ssts']
    /\ nextSstId' = nextSstId + 1
    /\ builds' = builds + 1
    /\ UNCHANGED <<up, cache, held, reading, uses, newer>>

(* The build fails, or no table is left to flush: the id is spent.          *)
BuildNothing(t) ==
    /\ held[t] = "exclusive" /\ reading[t] = <<>> /\ nextSstId <= MaxBuilds
    /\ nextSstId' = nextSstId + 1
    /\ Free(t)
    /\ UNCHANGED <<up, cache, ssts, reading, history>>

\* Faulty variant: clear starts the ids again.
NextAfterClearReset == 1

NextAfterClear == nextSstId

(* LSMEngine::clear takes no lock; it is called while no flush runs.  A     *)
(* thread that is iterating keeps the SSTs it holds, and their open files,  *)
(* although they are deleted.                                               *)
Clear ==
    /\ up /\ \A t \in Threads : held[t] # "exclusive"
    /\ ssts' = {}
    /\ nextSstId' = NextAfterClear
    /\ UNCHANGED <<up, cache, users, history>>

Close ==
    /\ up /\ \A t \in Threads : held[t] = "no"
    /\ up' = FALSE
    /\ CacheEmpty
    /\ UNCHANGED <<capacity, k, ssts, nextSstId, users, builds>>

(* The constructor: a new cache, and ids that go on after the largest file. *)
Reopen ==
    /\ ~up /\ up' = TRUE
    /\ capacity' \in Capacities /\ k' \in Ks
    /\ nextSstId' = Max({s.id : s \in ssts} \cup {0}) + 1
    /\ UNCHANGED <<hot, cold, index, ssts, users, history>>

CNext ==
    \/ \E t \in Threads : LockShared(t) \/ LockExclusive(t) \/ Unlock(t)
    \/ \E t \in Threads : \E s \in handles[t], b \in Blocks :
         GetHit(t, s, b) \/ GetMiss(t, s, b)
    \/ \E t \in Threads : Fill(t) \/ FillFails(t)
    \/ \E t \in Threads, old \in SUBSET ssts : Build(t, old)
    \/ \E t \in Threads : BuildNothing(t)
    \/ Clear \/ Close \/ Reopen

CSpec == CInit /\ [][CNext]_cvars

ThreadSymmetry == Permutations(Threads)     \* threads differ only by name

-----------------------------------------------------------------------------
(* Properties.                                                              *)

\* put and update_access_count keep the index and the lists in step: each
\* indexed block is in one list once, in the hot one exactly when it was used
\* K times, no more blocks than the capacity are kept, and two threads that
\* missed the same block and both fill it in leave one copy.
CacheConsistent ==
    /\ index = {x.key : x \in Items}
    /\ Len(hot) + Len(cold) = Cardinality(index)
    /\ Cardinality(index) <= capacity
    /\ \A x \in Range(hot) : x.count = k /\ uses[x.key] = k
    /\ \A x \in Range(cold) : x.count < k /\ uses[x.key] = x.count

\* The cache is keyed by ids and never invalidated: no block in it can be
\* served to a reader of another file, be it registered or deleted under the
\* reader, although clear keeps the cache and restarts reuse ids.
CacheCoherent ==
    \A s \in ssts \cup UNION Range(handles) : \A x \in Items :
        x.key.id = s.id => x.data = s.build

\* A full cache may drop v: it is the least recently used of the blocks with
\* fewer than K uses, or of all of them when every block has K.
Coldest(v) ==
    LET few == {x \in index : uses[x] < k}
        pool == IF few = {} THEN index ELSE few
    IN  /\ Cardinality(index) = capacity
        /\ v \in pool
        /\ \A x \in pool \ {v} : <<x, v>> \in newer

\* put under LRU-K: a block leaves a cache in use only when the cache is full,
\* and it is the one that LRU-K would drop.
EvictsColdest == [][up /\ up' => \A v \in index \ index' : Coldest(v)]_cvars
=============================================================================
