# A TLA+ model of KopiDB

KopiDB is a key-value engine in C++20: a log-structured merge tree with
multi-version transactions, a write-ahead log and a Redis-compatible front end.
This directory models its core in TLA+, checks the models with TLC and proves
most of the safety results with TLAPS. Paths below are relative to the repository.

## 1. Inventory

| Component | State | Operations | Modelled in |
| --- | --- | --- | --- |
| Transaction manager (`src/lsm/transation.cpp`, `TranManager`) | id counter, active, ready, flushed and aborted ids, state file `tranc_id` | `new_tranc`, `add_ready_to_flush_tranc_id`, `add_flushed_tranc_id`, `should_skip_read`, `write_tranc_id_file`, `read_tranc_id_file`, `init_new_wal` | `TranManager` |
| Transaction contexts (same file, `TranContext`) | staged writes, first reads, operations, count of logged operations | `put`, `remove`, `get`, `commit`, `abort` | `Transactions` |
| MemTable (`src/memtable`) | active table, frozen queue, two locks | `put`, `get_record`, `frozen_cur_table`, `flush_last`, `begin`, `clear` | `Transactions`, `SstLevels`, `RangeScan` |
| Engine (`src/lsm/engine.cpp`, `LSMEngine`) | level lists, SST table, `ssts_mtx`, next file id | `get`, `sst_get_`, `put`, `flush`, `full_compact`, `clear`, constructor | `Transactions`, `SstLevels` |
| Facade (`LSM`) | engine and manager | plain `put`/`get`/`remove`, batches, `flush_all`, `begin_tran` | partly: as ids that never end, and as plain writes |
| Write-ahead log (`src/wal/wal.cpp`) | buffer, active file, failure flag, checkpoint, cleaner thread | `log`, `flush`, `set_checkpoint_tranc_id`, `cleaner`, `reset_file`, destructor | `WAL` |
| SkipList, blocks, SST files, merge iterators | ordered records | point lookup, predicate search, build, merge | as the ordered records they stand for, in `SstLevels` and `RangeScan` |
| Range scans (`src/lsm/level_iterator.cpp`, `lsm_iters_monotony_predicate`) | a position in each source, `ssts_mtx` held shared for the lifetime | `begin`, `operator++`, interval query | `RangeScan` |
| Block cache (`src/block/block_cache.cpp`) | two LRU lists, index, `mutex_` | `get`, `put`, through `SST::read_block` | `BlockCache` |
| Record codec (`src/wal/record.cpp`) | bytes | five factories, `encode`, `decode` | `RecordCodec` |
| Redis wrapper (`src/redis_wrapper`) | records of a key, of its fields or members and of its expiry; `redis_mtx` | commands on strings, hashes, lists, sets, sorted sets; expiry | `RedisWrapper` |
| Server | connections, parser | dispatch | not modelled, see section 8 |
| Bloom filter, value log, file layer, configuration, logger, SDK | | | not modelled, see section 8 |

How they interact. A context logs through the manager to the WAL, writes the
memtable through the engine, and at commit holds `ssts_mtx` (shared), `cur_mtx`
and `frozen_mtx` while it checks for conflicts, logs COMMIT, writes its records
and an end marker (the empty key), and registers itself as ready. A flush holds
`ssts_mtx` exclusively, compacts full levels, writes the oldest frozen table,
and reports each end marker it wrote to the manager, which settles the
transaction and moves the checkpoint. Every read asks the manager which
versions to skip. On restart the engine rebuilds its lists from file names, the
manager reads `tranc_id`, and `init_new_wal` starts a new log. A range read
holds `ssts_mtx` shared from its first source to its last (`Level_Iterator` as
long as it lives). Every block of an SST is read through one cache, which the
engine shares among all files and never invalidates.

What is hard: reads that take two lock phases; a flush moving data under reads
and commits; failing log writes whose effect is unknown; a truncated state
file; crashes between the steps of a compaction; a cleaner thread that must be
stopped without a lost wakeup; the order in which markers reach the manager;
scans whose sources are read at different moments; a cache keyed by file ids
over clear and restart; log files cut in the middle of a record.
`PROJECT.json` lists these hazards with the lines where they bite.

What makes each component correct:

* manager: the checkpoint never passes an id that a replay needs, moves only
  forward and closes every gap it can; ids are unique; unfinished or
  rolled-back versions are never accepted by a strict read;
* contexts: commits are atomic and validated; strict reads return committed
  versions that were the newest at some instant; data is never ahead of the
  log; a rolled-back transaction has no COMMIT record;
* log: each record once and in order; nothing acknowledged is lost above the
  checkpoint; covered files go; the destructor ends;
* levels: lookups return the newest version and of it the last write; levels
  stay disjoint; nothing flushed is lost at any crash;
* range reads: each key once, in order, with its newest visible version;
* block cache: a block is served only to readers of its own file; the lists and
  the index agree; LRU-K names the victim;
* record codec: what was written is read back; a cut file is never taken for a
  complete one;
* Redis wrapper: the records of one value agree with each other; a clean-up
  removes only what has expired; every command returns.

## 2. Modules

| Module | Content |
| --- | --- |
| `TranManager` | the manager, its file and the life cycle of the process |
| `Transactions` | EXTENDS `TranManager`: contexts, memtable, SSTs, log and flush |
| `TxnMap` | the abstract specification: one map, atomic commits, validated reads |
| `WAL` | the log with its cleaner thread and destructor |
| `SstLevels` | flush, compaction, lookup and reopening of the SST levels |
| `RangeScan` | scans and interval queries next to writers, rollbacks and flushes |
| `BlockCache` | the LRU-K cache under readers, flushes, compactions, clear and restarts |
| `RecordCodec` | log records as bytes: limits, encode, decode, cut and damaged files |
| `RedisWrapper` | Redis commands of several clients on one key that may expire |
| `MCCodec`, `MCRedis` | strings for `RecordCodec`, which takes any set of them, and times for EXPIRE |
| `Orders` | the sequence of a finite set in a given order, as `std::map`, `std::sort` and the merge heap produce it |
| `ProofLemmas` | facts about minima, sequences, orders and recursive functions that several proofs use |
| `Transactions_proofs` | invariants and theorems of `TranManager`, then of `Transactions`; for staging writers atomic reads and the refinement of `TxnMap` |
| `WAL_proofs`, `SstLevels_proofs`, `RangeScan_proofs`, `BlockCache_proofs`, `RecordCodec_proofs`, `RedisWrapper_proofs` | invariant and theorems of the module each is named after |

**TranManager.** Variables carry the member names. Each member function is one
critical section of `mutex_` and one action. Saving is two actions
(`SaveBegin`, `SaveEnd`), because reopening the file truncates it first;
`SaveFails` and `Crash` leave the truncated file. The history variables
`begun`, `committed`, `rolledBack`, `base` and `lost` are read only by
properties; `lost` records that a crash, or a shutdown with open transactions,
has discarded something the file does not hold. `markers` stands for the end
markers waiting in the memtable.

**Transactions.** A context is a record with its level, program counter,
operations, logged count, staged writes and first reads. A version is the id of
the writing transaction; the value is `val` or the tombstone `del`. The locks
appear as predicates on program counters (`CurFree`, `FrozenFree`,
`SstsShareable`, `SstsFree`): a commit holds its three locks from `CommitLog`
to `CommitApply`; a read is `ReadMem` under the memtable locks, then `ReadSsts`
and one `ReadVersion` for each version on which it consults the manager; a
flush is `FlushLock`, `FlushPick`, `FlushBuilt` or `FlushFails`,
`FlushRegister` and one `FlushReport` per marker. Sizes are abstracted: whether
a write fills the active table is free. A log write either succeeds or leaves
any prefix of the batch and sets the sticky failure.

**WAL.** A file is the sequence of its records and a flag for a torn end; the
size of a file is its number of records. `log`, `set_checkpoint_tranc_id` and
the constructor hold `mutex_` throughout and are single actions; `cleaner()` is
split where it takes or releases the mutex and inside `wait_for` (check, sleep,
timeout, notification, spurious wakeup), the destructor where it sets the flag,
notifies, joins and flushes. The sequence number stops at `MaxSeq`, which
stands for the maximum of `uint64_t`.

**SstLevels.** A record is a key, a version and the number of the write. The
memtable is the sequence of its writes; a flush takes any non-empty prefix as
the oldest table, and a lookup (`Get`) is defined for every set of places at
which tables may have been frozen. The merges (`HeapMerge`, `Concat`, `TwoMerge`) keep all
versions, as compaction asks for. `CompactWrite` writes one file,
`CompactDelete` removes one, `CompactInstall` replaces the lists and continues
with the level above. `Crash` may hit every state and may leave a torn file;
`Reopen` rebuilds the lists as the constructor does. `Located` is the binary
search as written, so that it can go wrong on a level that overlaps. A flush
that read the memtable's size before another flush emptied it still compacts
and then finds nothing (`FlushNothing`).

**RangeScan.** Tables are sets of records, files sequences of blocks; where
tables, blocks and files end is free among the places the code allows. A scan
is `ScanBegin` (memtable), one `ScanL0` per file of level 0, `ScanLevels`, and
then `ScanStep` (one turn of the loop that passes over tombstones) and
`ScanNext` (`operator++`), with level 1 read lazily; an interval query is
`RangeBegin`, one `RangeFile` per file and `RangeReturn`. Between any two of
them transactions write, commit and roll back; flushes wait for the lock. The
records of one source are judged in one step: that `is_aborted` may change its
answer between two records of one file is not modelled. `snap` and `before` in
the read's state are history.

**BlockCache.** The lists and the index carry the code's structure; a file's
content is the number of the build that made it, so serving a block of another
file is visible. A miss and the filling in are two actions, as the block is
read outside the mutex. `LockShared`, `LockExclusive` and `Unlock` are
`ssts_mtx`; `Build` stands for flush and compaction, `Clear` keeps the cache and
the files that iterators hold, `Reopen` continues after the largest file id.
`uses` (how often a key was used) and `newer` (which of two keys was used last)
are history, the reference for LRU-K.

**RecordCodec.** The widths of bytes and length fields are parameters, so that a
small base reaches the limits (`Base` 256, `LenW` 2, `IdW` 8 in the code), and so
are the strings that keys and values are taken from.
`Decode` translates the loop with its bounds; `Cut` leaves any prefix of the
file, `Damage` changes one byte.

**RedisWrapper.** One key of one type. `key`, `sub`, `expireAt` and, for sorted
sets, `scoreOf` and `memberAt` are the records in the LSM. A command is `Invoke`, then for most of them `Check` under
the shared lock, `Unlock`, a `Clean` under the exclusive lock if the check
found the key expired, and its effect (`HsetBatch`, `Pop`, `Zadd`, ...) under the
exclusive lock taken anew. A section under the exclusive lock is one action;
the holders of the shared lock are in `readers`. The clock is `Tick`.
Exceptions of `std::stoll` on values that are no numbers are left out.

**Faulty variants.** Next to some definitions stands a variant with a plausible
bug, named in a comment. It is used nowhere in the specification; replacing the
definition by its variant must make the stated property fail, which shows that
the property depends on that line of the code.

## 3. Runs

Passing runs:

| Run | Shows |
| --- | --- |
| `manager` | crashes, failing saves and abandoned transactions: the inductive invariant, soundness and tightness of the checkpoint; while nothing is lost, unique ids, a monotone checkpoint and filtered reads over restarts (0.9 million states) |
| `staged` | three RC or SERIALIZABLE transactions on one key against concurrent flushes: atomic reads, refinement of `TxnMap` (0.5 million) |
| `durable` | READ_UNCOMMITTED and staging writers, failing log writes and failing builds: log before data, commits survive a crash at any point, no resurrection, markers accounted for, no dirty read; under fairness every commit is settled |
| `wal` | errors, rotation, cleaning, crashes and reopening: order, no duplicate, no loss; covered files are removed; the destructor ends without the interval elapsing (0.3 million) |
| `levels` | every way of splitting five writes into tables and files: correct lookups over the SSTs and over current table, frozen tables and SSTs; disjoint levels, level 0 bounded (1 million) |
| `levels_faults` | crash, failing build and failing removal during cascades: nothing flushed is lost (4 million) |
| `redis` | two clients on a string, hash, list, set or sorted set that expires: field list and size agree with the fields and members, scores with their members, ranges are exact, every command returns (0.5 million) |
| `cache` | two threads read, fill, flush, compact, clear and reopen: no block of another file is served, lists and index agree, LRU-K names the victim |
| `scan` | scans and interval queries over memtable, level 0 and level 1 while transactions write and end: each key once, in order, newest visible version |
| `codec` | records with strings around the limits: round trip; a cut file yields whole records or an error; nothing but an encoding is accepted (0.6 million) |

Runs that expect a violation; each quotes a statement of the repository that
the code does not keep (`findings` in `PROJECT.json`):

| Run | Statement | What TLC shows |
| --- | --- | --- |
| `expiry` | `redis_wrapper.h:24`, the clean-up checks whether the key is expired | of two commands that found the key expired, one (an HSET) cleans up and writes; then the clean-up of the other (an HSET or an HDEL, both call `expire_hash_clean`) removes the fresh field |
| `overlap` | `engine.cpp:276`, files of a deeper level do not overlap | a crash during compaction leaves two generations in one level |

Further observations come out of the models and have no run of their own:

* a read asks `should_skip_read` anew for each version; if a READ_UNCOMMITTED
  writer ends between the memtable phase and the SST phase, the answer combines
  both states and was at no instant the newest committed version
  (`engine.cpp:143`); `AtomicRead` is checked for staging writers;
* `write_tranc_id_file` does not save the active ids: versions of a
  READ_UNCOMMITTED transaction that is open at a clean shutdown and reached an
  SST are accepted by strict reads after the restart, against the comment at
  `transation.cpp:911`; `SkipsSurviveRestart` is stated for shutdowns that leave
  nothing open;
* a scan asks `is_aborted` at a different moment for each source, so with two
  rollbacks during one scan its answer may combine both states; `ScanExact`
  excuses exactly the versions rolled back while the scan ran;
* the cache stays right over `clear` only because `next_sst_id` goes on
  (`engine.cpp:370`); with ids starting again, TLC finds a stale block served;
* ZADD collects the record of a member's old score in `remove_keys` and then
  removes `del_keys`, which is empty (`redis_wrapper.cpp:946` and 952): the old
  record stays although the comment says it is to be removed, and ZCARD and
  ZRANGE count the member twice. Two members with one score share one record,
  so ZREM of either hides the other. `ScoresPaired` is stated until a ZADD gives
  a member another score or a second one, or two members share one;
* ZRANK scans the prefix that member and score records share
  (`redis_wrapper.cpp:1148`), so that the rank is too large by the number of
  members;
* `abort` computes `need_rollback_log` and never uses it: no ROLLBACK record is
  written, against the comment at `transation.cpp:512`;
* after a crash the saved id counter is older than the ids handed out, so
  `new_tranc` hands one out again (`transation.cpp:1063`); `UniqueIds` is
  therefore stated for processes that lost nothing;
* `abort` keeps `wal_written_count_` although `transaction.h:76` asks for the
  reset; an ended context logs nothing more, so nothing depends on it;
* `full_compact` deletes the files of level 0 newest first (`engine.cpp:714`);
  after a crash between two deletions an older write of a version can outrank
  the compacted newer one; `ReadsNewest` is checked without crashes;
* `redis_del` leaves the members of a set, after which `SCARD` and `SMEMBERS`
  disagree; so they do after an SADD that names a new member twice or an SREM
  that names one of the set twice (`redis_wrapper.cpp:1184` and 1221).
  `miscounted` records either, and `SizeExact` is stated until then;
* LRANGE with a stop before the first element returns the tail from start, as
  the comparison at `redis_wrapper.cpp:892` is unsigned;
* HDEL or LPOP of the last entry leaves the expire record, which a value created
  later inherits.

The README of the repository says that crash recovery from the WAL is not
offered yet; the runs above do not claim otherwise. `CommitsSurviveCrash`
states what a replay from the checkpoint would find in the log, not that the
code replays.

## 4. Bounds

* `MaxId` 4 in `TranManager`: a gap, an id settled ahead of it and a later one
  need three; the fourth lets a ready entry of an earlier process, with a gap
  above it, be settled after a restart. The proofs cover the rest.
* `MaxId` 3, one key, one write each in `staged`: a writer, a reader and a third
  transaction that ends between the reader's phases. `ReadLevels` limits which
  levels read where reads are not the question.
* `durable`: two transactions on one key with one write each: one unfinished or
  failing writer next to a reader of its version or to a second writer whose
  marker shares its table.
* `wal`: a buffer of 2, one record per file, 3 records, 3 file numbers (0 to
  `MaxSeq` 2) and two openings reach buffering, rotation, exhaustion and a
  reopened log in one behaviour.
* `levels`: `Ratio` 2 and five writes reach a full level 0, a compaction, a
  late flush and a restart; `levels_faults` uses `Ratio` 1 so that four writes
  cascade through three levels with two faults. `MaxLevel` is deep enough not
  to be reached.
* `redis`: two clients, two names and four commands reach a value, its expiry
  and two commands that race on it. EXPIRE sets a time that passes with the one
  tick of the clock or one that has passed, so that a value can expire again. All
  types are covered, one per behaviour. `MaxArgs` 2 lets SADD, SREM and ZADD name
  two members, or one twice.
  Scores start at 1 and grow by ZINCRBY, which reaches equal scores, a member
  moved by ZADD, and two orders of two members.
* `cache`: two threads, two blocks per file, three builds, capacity 0 or 3 and K
  0, 1 or 2: hits, misses, both lists, promotion, eviction from either, an id
  used again after a restart, and both refusals (`put` throws for K 0).
* `scan`: two keys, two versions, three records and `Ratio` 1 put one version
  each into memtable, level 0 and level 1, split into blocks and files at every
  place, with a tombstone, a marker or a rollback among them. `Caps` holds 0, no
  cap, and 1; a cap of `MaxVer` reads as 0 does.
* `codec`: base 16 with length fields of one digit limits a record to 15 bytes;
  strings of 0 to 16 bytes fall on both sides of every limit, and one string is
  the encoding of a record, so that a value can be mistaken for one. Two records
  let a cut fall in the first, between them and in the second.
* Runs that end when a bound is used up switch off deadlock checking; the runs
  of `Transactions` keep it, since a flush is always possible.

## 5. Fairness

`TFairSpec`: a call that runs goes on (weak fairness of `ApplyWrite`,
`CommitApply` and the read steps; each waits only for locks that other running
calls release), and somebody calls flush again and again, as `LSM::flush_all`
in the destructor does. Whether a client commits is not assumed. A
`std::shared_mutex` may prefer readers, so overlapping reads without end can
keep a flush from ever getting `ssts_mtx`; `CommitsSettle` therefore has the
premise `SF(FlushLock)`, and without it TLC shows that starvation.
`WFairSpec`: the threads of the log go on; nothing is assumed about the
interval, so `CloseEnds` cannot rest on it. `CoveredFilesGo` has two premises:
the timeout is strongly fair, since `wait_for` has a fixed deadline that
spurious wakeups do not move, and removing a file does not fail for ever.

`RFairSpec`: a command that was issued goes on. The number of commands is
bounded, so waiting for the exclusive lock ends; an unbounded stream of readers
could starve it, as above.

## 6. Proofs

The theorems hold for every value of the constants; each safety invariant of
the runs that they state is thereby shown beyond the bounds of section 4. Every
proof follows one pattern: an inductive invariant, which TLC checked on a small
instance first, holds initially; each action keeps it, part by part; the
property follows from it.

The library's induction theorems take an operator as parameter and cannot be
used with the installed provers. Where a loop of the code is a recursive
function over turns (the merges, the binary search, the bytes of a number, the
records of a file), `ProofLemmas` states induction for a *set* of numbers
(`UpTo`: a set that has 0, and with each number below n the next, has 0 to n), and the proof names
the set of turns at which the loop's invariant holds. Sorting is `InOrder` of `Orders`, which puts each
element at its rank; `ProofLemmas` proves that in a finite set with a strict
total order the ranks are 0 to n - 1, each taken once, so that the sequence
lists the set in order (`RankFacts`, `ListsFacts`).

**Manager** (`Transactions_proofs`, first part; `MaxId` a positive natural, `Faults` any of
the named faults).

* `Invariance`: `Spec => []IInv`; from it `TypeCorrect`, `CheckpointSoundness`,
  `CommitsAwaitOwnFlush` and `CheckpointIsTight`. `CheckpointSound` is not
  inductive: that an id below the checkpoint is covered survives a flush report
  only if (a) a marker in memory belongs to a commit that is still in the ready
  map as `OP_COMMITTED` (`MarkersReady`), (b) a ready entry marked `ABORTED`
  really rolled back (`ReadyAborted`), (c) active ids have not ended and are
  above `base` (`ActiveUnended`), and (d) every id in the containers and in the
  saved file is below the corresponding counter (`BelowCounter`), which makes a
  restart from the file sound. `CheckpointTight` is what makes the compressed
  set the contiguous prefix.
* `CheckpointAdvances`: `Spec => CheckpointMonotone`, with a second invariant
  `FileInv`: until something is lost, a saved file holds the flushed set.
* `Remembered`: `Spec => []RestartInv`. Until something is lost, the manager and
  the file it leaves behind remember every id handed out and every transaction
  that must be skipped. From it `IdsUnique` and `SkipsSurvive`.
* `WalBelowLive`: the log was opened at or below what counted as finished then
  (`WalBelowBase`), and everything that begins later is above.

**Transactions** (`Transactions_proofs`; any keys, levels,
bounds and I/O faults). `TInv` ties five pieces of state together:

* contexts and manager agree on who is active, committed and rolled back
  (`CtxInv`), and the locks let one commit through at a time and none beside a
  flush (`LockInv`);
* until a file operation fails, and for every transaction whose last records
  were written, the log is the prefix of the operations that `written` counts
  (`OpsInv`, `LogInv`, `PendingInv`); a COMMIT record reaches the log only in an
  attempt that bars every other (`EndInv`);
* every record in a table was logged and belongs to a commit or to a
  READ_UNCOMMITTED writer (`RecordsKnown`), and the newest table with a version
  shows the last value logged for it (`DataInv`);
* the marker of a commit is in some table and no record of the transaction in a
  newer one (`MarkerPlaced`, `MarkerLast`), and the markers the manager waits
  for are those in memory and those being reported (`MarkerInv`);
* a strict read holds only committed versions (`ReadInv`).

`TInvariance` proves it; from it follow `TTypeCorrect`, `RolledBackStays`,
`ReadsCommitted`, `LoggedFirst`, `MarkersExact` and `CommitsDurable`. The last is
the long one: a transaction at or below the checkpoint is settled, so its marker
has been reported and is in an SST (`MarkerInv`); all its records are in that
SST or an older one (`MarkerLast`); and the newest of them is what the log holds
(`DataInv`). `ManagerInvariance` shows that `Transactions` drives the manager
only in ways that keep `IInv`, whence `EngineCheckpointSound`.

**Atomic reads and the refinement** (end of `Transactions_proofs`). Both assume
`AllStage`, that `Levels` has no `"RU"`, which is how the `staged` run is
configured. The hypothesis is needed: a READ_UNCOMMITTED writer that commits
between the two phases of a read, after its version was flushed, is skipped in
the memtable phase and met in the SST phase (section 3), and the answer is one
that no instant would have given.

* `AtomicInvariance`, `ReadsAtomic`: with staging writers all records in the
  tables belong to commits and a version of a key is one record (`OneRecord`).
  Between its phases a read holds the best of the memtable. A flush may move
  tables across the boundary but keeps their order, so whatever boundary the SST
  phase finds, the best of the answer so far and of the tables from there on is
  an answer of an instant since the start (`MemReadOk`); once the SST phase has
  its lock, the tables to come are fixed (`SstReadOk`).
* `MapRefinement`: `TSpec => ImplementsTxnMap`. The map of `TxnMap` shows for
  each key the newest committed version over all tables. `RefInv` carries what
  validation found until the commit applies its records: no version of a written
  key above the writer, and for SERIALIZABLE no version of a read key other than
  the one read. Then `CommitApply` is the atomic commit of the map, `ReadReturn`
  its read, and every step of memtable, flush and log is a stutter.

**Log** (`WAL_proofs`; any buffer size, file limit, records and faults). `WInv`:
the active file of a usable log is the newest and whole (`ActiveNewest`), the
buffer is increasing and goes on where the files end (`Batch`), no record is
numbered above the calls made, and the cleaner looks only at files below the
active one and keeps the mutex meanwhile (`CleanerScans`). `WalOrdered` and
`WalKeeps` are conjuncts of it that are not inductive without the others: a
rotation keeps the order only because the new file is above all others, and a
removal keeps the acknowledged records only because what the cleaner found
covered can no longer change.

**Levels** (`SstLevels_proofs`; any keys, versions, ratio, writes and, for
`FlushedKeptAlways`, any number of faults). Two invariants:

* `FaultInv` holds whatever fails. Ids in use are below the next one, the lists
  name readable files (`ListInv`), and every flushed record is in a readable
  file; during a compaction also in one that will stay, or among the records
  still to be written (`KeepInv`). The second half is what carries
  `FlushedKeptAlways` over the deletions: they start when nothing is left to be
  written. It rests on the merges keeping the set of records (`HeapMergeFacts`,
  `ConcatLevel`, `TwoMergeFacts`).
* `NoFaultInv` adds, as long as nothing has failed, the order of everything:
  files are sorted, the lists hold exactly the files of their level, upper
  levels and larger ids in level 0 are newer, keys grow with the ids below
  level 0 (`LevelOrder`), and what a compaction has still to write fits its
  place among them (`RestOrder`). For `CompactWrite` it needs that a file is cut
  only between two keys, the guard `MayCut`.

`LevelTypes` and `LevelsApart` follow. `LookupsNewest` also needs that the binary
search finds the one file whose range holds the key (`LocatedFacts`), that going
through tables, the newer first, keeps the best of the candidates seen
(`BestFacts`, for frozen tables and for files), that the tables of the memtable
hold the last write of every version wherever they were cut (`FrozenFacts`,
`MemGetFacts`), and that the memtable has later writes than any file
(`MemNewer`). The premise `faults = 0` of these three is needed: section 3 shows
levels that overlap, and an older write that outranks a newer one, after a crash
inside a compaction.

**Range reads** (`RangeScan_proofs`; any keys, versions, caps, ratio, writes and
layouts of tables, blocks and files). `DataInv` is about what is stored: tables
and files are sorted, files end between keys, and a newer table or file holds
later writes. `QueryOk` is about the read under way. Its heart is
`Reads(cap, before, aborted, X, Y)`: the records Y collected from the sources X
are within the cap, were not rolled back when the read began, include the last
write of a version or something better, and miss a record of X only if a
candidate of its key is as new or its version has been rolled back since. Five
facts carry it through a read:

* it survives later rollbacks (`ReadsLater`) and holds of a source read at any
  later moment (`VisibleReads`);
* it holds of two sources together if it holds of each and the second is older
  (`ReadsJoin`): this is why memtable and level 0 may be copied one after the
  other while transactions go on;
* it survives every thinning that keeps the best of each key (`ReadsCovered`):
  the duplicates an SST iterator passes over (`HeadsFacts`), the merge heap
  (`HeapFacts`), and the pruning of blocks (`FileRangeFacts`);
* the level below is read lazily: behind key g, `Reads` holds of its records up
  to the one the iterator stands on (`LevelMoves`), and `skip_key` keeps that
  (`SkipKeeps`);
* a candidate that is best of its key among all sources is the right answer
  (`Unbeaten`), and `get_min_key_idx` finds it (`PickRight`).

`ScansExact` and the action property `RangesExact` follow. That a flush waits for
the lock the reader holds keeps the files as they are meanwhile (`FlushAlone`).

**Record codec** (`RecordCodec_proofs`; any base above 5, so that an
operation's code is one byte, any widths that leave room for a header, and any
set of strings of any bytes, `Texts`). `KInv`: untouched, the file is the encoding of the records appended,
each within the limits of the factories; cut, it is a front part of that.
`FilesReadBack` goes up the format: a number written in `w` bytes is read back
if it is below `Base^w` (`UintRead`), then a string with its length, a body, a
record, and turn by turn the file (`DecodeRead`). The limits of `putRecord` and
`deleteRecord` are what keeps the lengths below that bound. `AcceptedIsCanonical`
goes the other way, for any bytes at all: digits that sum up to a number are its
encoding (`UintAccepted`), and a record that ends where its length says is the
encoding of what was read (`DecodeCanon`). `CutsAreNoticed` joins both: were a
file cut inside a record accepted, two different sequences of records would
encode to a file and to a front part of it, against `PrefixFree`.

**Block cache** (`BlockCache_proofs`; any threads, blocks, capacities and K).
`CInv`: both lists hold each key once, in the order of use, with the counts that
decide their list (`ListsOk`); a thread reads from a file it holds (`Holding`); and
an id stands for one file as long as the engine, a reader or a cached block knows
it, and is below `nextSstId` (`IdsFresh`). The last part is why the cache may go
without invalidation. `CacheIsConsistent`, `CacheIsCoherent` and the action
property `EvictionIsColdest` follow; for the last, the order of use in each list
makes its end the least recently used, as `pop_back` assumes.

**Redis wrapper** (`RedisWrapper_proofs`; any clients, finitely many names, any
scores, seconds and indices). `RInv`: a command under way is one of the key's
type with arguments of its own, and the shared lock is held between check and
unlock only (`ClientInv`); the field list has no repetition and holds exactly the
fields with a record, and the size of a set is the number of its members until
DEL orphans some or a command counts one twice (`DataInv`): an SADD that names
each new member once raises the size by as many as it adds (`NamedOnce`);
scores are filed under members and members under
scores (`ScoresOk`). Nothing in it depends on what the check found, so an
outdated check cannot break it: this is why `FieldsExact` and `SizesExact` hold
although `CleanupSparesFresh` does not. `LRangesExact` needs only that a stored
list is not empty. That the names are finitely many is implied by what a client
can send. `PairsInvariance` and `ScoresStayPaired`: until tangled, member and
score records are inverse functions (`PairsInv`), so that ordering the score
records lists each member once and both tables have one size.

**Only model-checked.**

* Liveness (`CommitsSettle`, `CloseEnds`, `CoveredFilesGo`, `CommandsEnd`): out of
  the prover's reach.
* `CleanupSparesFresh` and, after a crash, `LevelsDisjoint` are violated
  (section 3).

## 7. Plan

1. Once the repository binds the manager to the engine and replays the log: the
   plain operations next to transactions, and a restart of the whole engine.
2. The key encoding of the Redis wrapper with several keys.

## 8. Not modelled

* `WAL::recover`, `check_recover`, `VLog::append` and `VLog::read_value` are
  stubs in the source.
* `LSM::LSM` does not yet bind the transaction manager to the engine or start
  the log (TODO Lab 5.5, `engine.cpp:935`), so that reads through the facade
  throw. The models take a bound manager, as `test_wal.cpp` sets up by hand;
  the plain `LSM` operations next to transactions and a
  restart of the whole engine wait for it.
* The server runs one `io_context` thread and adds parsing and dispatch. The
  interleavings of `RedisWrapper` are those of several threads that share one
  wrapper, which its lock is there for; the present server has one.
* The linked levels of the skip list and the byte layout of blocks and SSTs are
  sequential and have unit tests; the models use the ordered records.
* The Bloom filter may only save lookups; its hash arithmetic is out of scope.
* The file layer appears through the faults it can report. That a synced file
  survives a crash is taken from the operating system.
* `LSMEngine::clear` runs without `ssts_mtx`; the model calls it only when
  nothing else runs, or beside iterators that keep the files they hold
  (`BlockCache`). A lookup or flush at the same time is a data race.
* An allocation failure inside a critical section is not modelled.
* SERIALIZABLE is documented as incomplete (no range validation); only its
  point validation is stated.
* Configuration, logger, scripts and the Python SDK keep no state worth
  checking.
