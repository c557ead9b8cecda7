---------------------------- MODULE Transactions ----------------------------
(***************************************************************************)
(* Transaction contexts (class TranContext, src/lsm/transation.cpp) running *)
(* over the manager of module TranManager, the memtable, the SST files and *)
(* the write-ahead log.                                                    *)
(*                                                                         *)
(* A record is a version of a key: the id of the writing transaction is    *)
(* its version and the value "del" is a tombstone.  Sizes are abstracted:  *)
(* whether a write fills the active table is a free choice, and a flush    *)
(* may be called at any time.  Locks are kept: ssts_mtx, cur_mtx and       *)
(* frozen_mtx decide which steps exclude each other.                       *)
(***************************************************************************)
EXTENDS TranManager, SequencesExt

CONSTANTS
    Keys,       \* user keys
    Levels,     \* isolation levels the clients ask for
    ReadLevels, \* bound: the levels whose transactions also read
    MaxOps,     \* bound: writes per transaction
    IoFaults    \* which of "wal" and "build" may fail

ASSUME LevelsAssumption == Levels \subseteq {"RU", "RC", "RR", "SER"}
ASSUME MaxOpsAssumption == MaxOps \in Nat
ASSUME IoFaultsAssumption == IoFaults \subseteq {"wal", "build"}
ASSUME KeysAssumption == "marker" \notin Keys

Tx == 1..MaxId
Vals == {"val", "del"}
Unset == [ver |-> 0, val |-> "unset"]    \* no entry in a map
None == [ver |-> 0, val |-> "none"]      \* std::nullopt

VARIABLES
    ctx,        \* the contexts, by transaction id
    rd,         \* the engine read a context is executing
    cur,        \* active memtable: set of records
    frozen,     \* frozen memtables, newest first
    ssts,       \* registered SSTs, newest first
    flush,      \* the thread inside LSMEngine::flush
    wal,        \* records that reached the log file, by transaction
    walFailed   \* WAL::write_failed_

mem == <<cur, frozen>>
log == <<wal, walFailed>>
tvars == <<vars, ctx, rd, mem, ssts, flush, log>>

NoRead == [ph |-> "none"]
NoFlush == [ph |-> "idle"]
NoContext == [level |-> "none", pc |-> "none", ops |-> <<>>, written |-> 0,
              temp |-> [k \in Keys |-> "unset"], seen |-> [k \in Keys |-> Unset]]

-----------------------------------------------------------------------------
(* Records, lookups and locks.                                             *)

Rec(k, t, v) == [key |-> k, ver |-> t, val |-> v]
Op(o, k, v) == [op |-> o, key |-> k, val |-> v]
Ends(ops) == \E i \in DOMAIN ops : ops[i].op = "COMMIT"

\* SkipList::put: one node per key and version, the value is overwritten.
PutRec(table, r) == {x \in table : x.key # r.key \/ x.ver # r.ver} \cup {r}

Better(a, b) == IF b.ver > a.ver THEN b ELSE a       \* ties keep the first
Result(r) == [ver |-> r.ver, val |-> r.val]
Versions(table, k, cap) ==
    {r \in table : r.key = k /\ (cap = 0 \/ r.ver <= cap)}
Newest(S) == CHOOSE r \in S : \A x \in S : x.ver <= r.ver

\* The ids that should_skip_read tells a lookup to skip.
Skipped(strict) == {id \in Tx : ShouldSkipRead(id, strict)}

\* One table's answer: its largest version within cap that is not skipped.
Lookup(table, k, cap, skip) ==
    LET S == {r \in Versions(table, k, cap) : r.ver \notin skip}
    IN  IF S = {} THEN None ELSE Result(Newest(S))

\* The largest version over several tables, the first table winning ties.
LookupAll(tables, k, cap, skip) ==
    LET found == [i \in DOMAIN tables |-> Lookup(tables[i], k, cap, skip)]
        hits == {i \in DOMAIN tables : found[i] # None}
    IN  IF hits = {} THEN None
        ELSE found[CHOOSE i \in hits : \A j \in hits :
                     \/ found[j].ver < found[i].ver
                     \/ found[j].ver = found[i].ver /\ i <= j]

Strict(t) == ctx[t].level # "RU"
Cap(t) == IF ctx[t].level \in {"RR", "SER"} THEN t ELSE 0
MemTables == <<cur>> \o frozen

\* cur_mtx and frozen_mtx are held by a commit from its check to its unlock;
\* flush_last holds frozen_mtx while it builds; flush holds ssts_mtx
\* exclusively, SST reads and commits share it.
CurFree == \A t \in Tx : ctx[t].pc # "logged"
FrozenFree == CurFree /\ flush.ph # "building"
SstsShareable == flush.ph = "idle"
SstsFree == SstsShareable /\ CurFree /\ \A t \in Tx : rd[t].ph # "sst"

\* A context is used serially, and only until it has ended.
Usable(t) == ctx[t].pc = "open" /\ rd[t].ph = "none"

Freeze(table) ==        \* frozen_cur_table_ with `table` as current table
    cur' = {} /\ frozen' = <<table>> \o frozen

(* A write under cur_mtx that may fill the active table.                    *)
StoreCur(table) ==
    \/ cur' = table /\ UNCHANGED frozen
    \/ FrozenFree /\ Freeze(table)

(* LSMEngine::get, SST scan: the versions of one key, table by table, from  *)
(* the next table that has any.                                             *)
FromNextHit(todo) ==
    LET hits == {i \in DOMAIN todo : todo[i] # {}}
    IN  IF hits = {} THEN <<>> ELSE SubSeq(todo, Min(hits), Len(todo))

SstCandidates(k, cap) ==
    FromNextHit([i \in DOMAIN ssts |-> Versions(ssts[i], k, cap)])

-----------------------------------------------------------------------------
TInit ==                \* an engine and a manager that have just started
    /\ nextTransactionId = 1
    /\ activeTrans = {}
    /\ readyToFlushTrancIds = [i \in {} |-> "ABORTED"]
    /\ flushedTrancIds = {0}
    /\ abortedTrancIds = {}
    /\ walCheckpoint = 0
    /\ trancIdFile = Empty
    /\ proc = "up"
    /\ markers = {}
    /\ begun = {} /\ committed = {} /\ rolledBack = {} /\ base = 0
    /\ lost = FALSE
    /\ ctx = [t \in Tx |-> NoContext]
    /\ rd = [t \in Tx |-> NoRead]
    /\ cur = {} /\ frozen = <<>> /\ ssts = <<>>
    /\ flush = NoFlush
    /\ wal = [t \in Tx |-> <<>>]
    /\ walFailed = FALSE

storage == <<mem, ssts, flush>>

(* new_tranc and the constructor of TranContext.                            *)
Begin(level) ==
    /\ NewTranc
    /\ ctx' = [ctx EXCEPT ![nextTransactionId] =
                 [NoContext EXCEPT !.level = level, !.pc = "open",
                                   !.ops = <<Op("CREATE", "marker", "val")>>]]
    /\ UNCHANGED <<rd, storage, log>>

\* Faulty variant: the last record is left out.
PendingButLast(t, ops) == SubSeq(ops, ctx[t].written + 1, Len(ops) - 1)

Pending(t, ops) == SubSeq(ops, ctx[t].written + 1, Len(ops))

(* persist_pending_wal_ through write_to_wal and WAL::log: the records of   *)
(* ops not yet sent are appended.                                           *)
Persist(t, ops) ==
    /\ ~walFailed
    /\ wal' = [wal EXCEPT ![t] = @ \o Pending(t, ops)]
    /\ UNCHANGED walFailed

(* The same when the file operation fails: part of the batch may be in the  *)
(* file, and every later call fails at once.                                *)
PersistFails(t, ops) ==
    /\ walFailed \/ "wal" \in IoFaults
    /\ walFailed' = TRUE
    /\ \E n \in 0..Len(Pending(t, ops)) :
         /\ walFailed => n = 0
         /\ wal' = [wal EXCEPT ![t] = @ \o SubSeq(Pending(t, ops), 1, n)]

WriteOp(k, v) == Op(IF v = "del" THEN "DELETE" ELSE "PUT", k, v)
CanWrite(t) == Usable(t) /\ Len(ctx[t].ops) <= MaxOps

(* put and remove of a level that stages its writes.                        *)
StageWrite(t, k, v) ==
    /\ CanWrite(t) /\ Strict(t)
    /\ ctx' = [ctx EXCEPT ![t].ops = Append(@, WriteOp(k, v)),
                          ![t].temp[k] = v]
    /\ UNCHANGED <<vars, rd, storage, log>>

(* put and remove of READ_UNCOMMITTED: log first, then write the engine.    *)
LogWrite(t, k, v) ==
    /\ CanWrite(t) /\ ~Strict(t)
    /\ LET ops == Append(ctx[t].ops, WriteOp(k, v))
       IN  \/ /\ Persist(t, ops)
              /\ ctx' = [ctx EXCEPT ![t].ops = ops, ![t].written = Len(ops),
                                    ![t].pc = "writing"]
           \/ /\ PersistFails(t, ops)
              /\ ctx' = [ctx EXCEPT ![t].ops = ops]
    /\ UNCHANGED <<vars, rd, storage>>

ApplyWrite(t) ==
    /\ ctx[t].pc = "writing" /\ CurFree
    /\ LET w == Last(ctx[t].ops) IN StoreCur(PutRec(cur, Rec(w.key, t, w.val)))
    /\ ctx' = [ctx EXCEPT ![t].pc = "open"]
    /\ UNCHANGED <<vars, rd, ssts, flush, log>>

-----------------------------------------------------------------------------
(* TranContext::get and LSMEngine::get.  A hit in temp_map_ or read_map_    *)
(* returns at once and changes nothing, so only engine reads are actions:   *)
(* the memtable is searched under its locks, then the SSTs under ssts_mtx,  *)
(* asking the manager about each version met.  `ideal` is history: what an  *)
(* instantaneous read could have returned since this one began.             *)

AllTables ==
    MemTables \o (IF flush.ph = "built" THEN <<flush.table>> ELSE <<>>) \o ssts

Shown(r) == IF r.val = "del" THEN None ELSE r
CommittedView(tables, com, k, cap) ==
    Shown(LookupAll(tables, k, cap, Tx \ com))

\* Faulty variant: the frozen tables are not searched.
SearchedActiveOnly == <<cur>>

SearchedTables == MemTables

ReadMem(t, k) ==
    /\ Usable(t) /\ FrozenFree /\ ctx[t].level \in ReadLevels
    /\ ctx[t].temp[k] = "unset" /\ ctx[t].seen[k] = Unset
    /\ rd' = [rd EXCEPT ![t] =
         [ph |-> "mem", key |-> k, todo |-> <<>>,
          best |-> LookupAll(SearchedTables, k, Cap(t), Skipped(Strict(t))),
          ideal |-> {CommittedView(AllTables, committed, k, Cap(t))}]]
    /\ UNCHANGED <<vars, ctx, storage, log>>

ReadSsts(t) ==
    /\ rd[t].ph = "mem" /\ SstsShareable
    /\ rd' = [rd EXCEPT ![t].ph = "sst",
                        ![t].todo = SstCandidates(rd[t].key, Cap(t))]
    /\ UNCHANGED <<vars, ctx, storage, log>>

(* The next version, largest first within a table: a skipped one leads to   *)
(* the next of its table, an accepted one to the next table.                *)
ReadVersion(t) ==
    /\ rd[t].ph = "sst" /\ rd[t].todo # <<>>
    /\ LET S == Head(rd[t].todo)
           r == Newest(S)
           skip == ShouldSkipRead(r.ver, Strict(t))
       IN  rd' = [rd EXCEPT
             ![t].todo = FromNextHit(IF skip THEN <<S \ {r}>> \o Tail(@) ELSE Tail(@)),
             ![t].best = IF skip THEN @ ELSE Better(@, Result(r))]
    /\ UNCHANGED <<vars, ctx, storage, log>>

ReadReturn(t) ==
    /\ rd[t].ph = "sst" /\ rd[t].todo = <<>>
    /\ ctx' = IF Cap(t) = 0 THEN ctx
              ELSE [ctx EXCEPT ![t].seen[rd[t].key] = Shown(rd[t].best)]
    /\ rd' = [rd EXCEPT ![t] = NoRead]
    /\ UNCHANGED <<vars, storage, log>>

-----------------------------------------------------------------------------
(* TranContext::commit.                                                     *)

\* Faulty variants: only the memtable is asked for later versions; an attempt
\* to end that did not finish does not bar another.
LatestInMemory(k) ==
    LookupAll(MemTables, k, 0, Skipped(FALSE))
EndableAgain(t) == Usable(t)

\* latest_record: the newest version that was not rolled back, tombstones
\* included; the memtable wins ties.
LatestRecord(k) ==
    LookupAll(MemTables \o ssts, k, 0, Skipped(FALSE))

Writes(t) == {k \in Keys : ctx[t].temp[k] # "unset"}
Seen(t) == {k \in Keys : ctx[t].seen[k] # Unset}       \* read_map_
WriteConflict(t) == \E k \in Writes(t) : LatestRecord(k).ver > t
ReadConflict(t) ==
    /\ ctx[t].level = "SER"
    /\ \E k \in Seen(t) : Shown(LatestRecord(k)) # ctx[t].seen[k]

\* An attempt to end that did not finish bars every later one.
Endable(t) == Usable(t) /\ ~Ends(ctx[t].ops)

CommitReady(t) ==
    /\ Endable(t)
    /\ SstsShareable /\ FrozenFree

CommitConflict(t) ==
    /\ CommitReady(t) /\ (WriteConflict(t) \/ ReadConflict(t))
    /\ AddReadyToFlush(t, "ABORTED")
    /\ ctx' = [ctx EXCEPT ![t].pc = "aborted"]
    /\ UNCHANGED <<rd, storage, log>>

(* The COMMIT record is written; the locks stay held until CommitApply.     *)
CommitLog(t) ==
    /\ CommitReady(t) /\ ~WriteConflict(t) /\ ~ReadConflict(t)
    /\ LET ops == Append(ctx[t].ops, Op("COMMIT", "marker", "val"))
       IN  \/ /\ Persist(t, ops)
              /\ ctx' = [ctx EXCEPT ![t].ops = ops, ![t].written = Len(ops),
                                    ![t].pc = "logged"]
           \/ /\ PersistFails(t, ops)
              /\ ctx' = [ctx EXCEPT ![t].ops = ops]
    /\ UNCHANGED <<vars, rd, storage>>

(* The staged records and the end marker enter the active table and the     *)
(* manager is told, all under the memtable locks.                           *)
Applied(t) ==
    LET staged == {Rec(k, t, ctx[t].temp[k]) : k \in Writes(t)}
    IN  {r \in cur : r.ver = t => r.key \notin Writes(t)} \cup staged
          \cup {Rec("marker", t, "del")}

CommitApply(t) ==
    /\ ctx[t].pc = "logged"
    /\ \/ cur' = Applied(t) /\ UNCHANGED frozen
       \/ Freeze(Applied(t))
    /\ AddReadyToFlush(t, "OP_COMMITTED")
    /\ ctx' = [ctx EXCEPT ![t].pc = "committed"]
    /\ LET tables == <<Applied(t)>> \o Tail(AllTables)
       IN  rd' = [r \in Tx |->
             IF rd[r].ph = "none" THEN rd[r]
             ELSE [rd[r] EXCEPT !.ideal = @ \cup
                     {CommittedView(tables, committed \cup {t}, rd[r].key, Cap(r))}]]
    /\ UNCHANGED <<ssts, flush, log>>

(* TranContext::abort: no ROLLBACK record is written, the operations are    *)
(* dropped and the count of written ones is kept.                           *)
Abort(t) ==
    /\ Endable(t)
    /\ ctx[t].written <= Len(ctx[t].ops)
    /\ AddReadyToFlush(t, "ABORTED")
    /\ ctx' = [ctx EXCEPT ![t].pc = "aborted", ![t].ops = <<>>,
                          ![t].temp = NoContext.temp, ![t].seen = NoContext.seen]
    /\ UNCHANGED <<rd, storage, log>>

-----------------------------------------------------------------------------
(* LSMEngine::flush and MemTable::flush_last.  The total size was read      *)
(* before ssts_mtx was taken, so there may be nothing left to flush.        *)

MarkersOf(table) == {r.ver : r \in {x \in table : x.key = "marker"}}

FlushLock ==
    /\ SstsFree
    /\ flush' = [ph |-> "locked"]
    /\ UNCHANGED <<vars, ctx, rd, mem, ssts, log>>

FlushNothing ==
    /\ flush.ph = "locked" /\ cur = {} /\ frozen = <<>>
    /\ flush' = NoFlush
    /\ UNCHANGED <<vars, ctx, rd, mem, ssts, log>>

FlushPick ==
    /\ flush.ph = "locked"
    /\ \/ frozen # <<>> /\ UNCHANGED mem
       \/ frozen = <<>> /\ cur # {} /\ Freeze(cur)
    /\ flush' = [ph |-> "building"]
    /\ UNCHANGED <<vars, ctx, rd, ssts, log>>

\* Faulty variants: the newest table is taken; a failed build drops the table.
NewestFirst == [table |-> Head(frozen), rest |-> Tail(frozen)]
DroppedOnFailure == Front(frozen)

\* The oldest frozen table, and the queue once its SST is built; a build that
\* throws leaves the queue alone.
Oldest == [table |-> Last(frozen), rest |-> Front(frozen)]
KeptOnFailure == frozen

FlushFails ==
    /\ flush.ph = "building" /\ "build" \in IoFaults
    /\ flush' = NoFlush
    /\ frozen' = KeptOnFailure
    /\ UNCHANGED <<vars, ctx, rd, cur, ssts, log>>

FlushBuilt ==
    /\ flush.ph = "building"
    /\ flush' = [ph |-> "built", table |-> Oldest.table]
    /\ frozen' = Oldest.rest
    /\ UNCHANGED <<vars, ctx, rd, cur, ssts, log>>

Reporting(ids) == IF ids = {} THEN NoFlush ELSE [ph |-> "reporting", ids |-> ids]

FlushRegister ==
    /\ flush.ph = "built"
    /\ ssts' = <<flush.table>> \o ssts
    /\ flush' = Reporting(MarkersOf(flush.table))
    /\ UNCHANGED <<vars, ctx, rd, mem, log>>

(* Markers are versions of one key, so they are met largest first.          *)
FlushReport ==
    /\ flush.ph = "reporting"
    /\ AddFlushed(Max(flush.ids))
    /\ flush' = Reporting(flush.ids \ {Max(flush.ids)})
    /\ UNCHANGED <<ctx, rd, mem, ssts, log>>

FlushStep ==
    \/ FlushNothing \/ FlushPick \/ FlushFails \/ FlushBuilt
    \/ FlushRegister \/ FlushReport

TNext ==
    \/ \E level \in Levels : Begin(level)
    \/ \E t \in Tx, k \in Keys, v \in Vals : StageWrite(t, k, v)
    \/ \E t \in Tx, k \in Keys, v \in Vals : LogWrite(t, k, v)
    \/ \E t \in Tx : ApplyWrite(t)
    \/ \E t \in Tx, k \in Keys : ReadMem(t, k)
    \/ \E t \in Tx : ReadSsts(t) \/ ReadVersion(t) \/ ReadReturn(t)
    \/ \E t \in Tx : CommitConflict(t) \/ CommitLog(t) \/ CommitApply(t)
    \/ \E t \in Tx : Abort(t)
    \/ FlushLock
    \/ FlushStep

TSpec == TInit /\ [][TNext]_tvars

(* A call that is running goes on, and somebody keeps calling flush, as     *)
(* LSM::flush_all does until the memtable is empty.                         *)
TFairSpec ==
    /\ TSpec
    /\ WF_tvars(FlushLock \/ FlushStep)
    /\ \A t \in Tx : /\ WF_tvars(ApplyWrite(t))
                     /\ WF_tvars(CommitApply(t))
                     /\ WF_tvars(ReadSsts(t) \/ ReadVersion(t) \/ ReadReturn(t))

-----------------------------------------------------------------------------
(* Properties.                                                              *)

\* Contexts, reads and flush take the values of their life cycles, and the
\* manager keeps its types under them.
TTypeOK ==
    /\ TypeOK
    /\ \A t \in Tx :
         /\ ctx[t].level \in Levels \cup {"none"}
         /\ ctx[t].pc \in {"none", "open", "writing", "logged", "committed", "aborted"}
         /\ rd[t].ph \in {"none", "mem", "sst"}
    /\ flush.ph \in {"idle", "locked", "building", "built", "reporting"}
    /\ walFailed \in BOOLEAN

Records == UNION Range(AllTables)
Returning(t) == rd[t].ph = "sst" /\ rd[t].todo = <<>>

\* LSMEngine::get with require_committed: what a strict read returns was
\* written by a transaction that had committed, wherever the version lay and
\* whatever moved or ended while the read went from the memtable to the SSTs.
NoDirtyRead ==
    \A t \in Tx : Returning(t) /\ Strict(t) /\ rd[t].best # None
                     => rd[t].best.ver \in committed

\* LSMEngine::get searches the memtable and the SSTs under different locks:
\* its answer is nevertheless the newest committed version within the cap at
\* some instant between its start and its return.
AtomicRead ==
    \A t \in Tx : Returning(t) /\ Strict(t) => Shown(rd[t].best) \in rd[t].ideal

\* persist_pending_wal_ before every write: a record in the memtable or an
\* SST is in the log of its transaction.
LogBeforeData ==
    \A r \in Records :
        r.key # "marker" =>
          \E i \in DOMAIN wal[r.ver] : /\ wal[r.ver][i].key = r.key
                                       /\ wal[r.ver][i].val = r.val

\* The last value the log holds for key k of transaction t.
Logged(t, k) ==
    LET I == {i \in DOMAIN wal[t] : wal[t][i].key = k /\ wal[t][i].op # "CREATE"}
    IN  IF I = {} THEN "unset" ELSE wal[t][Max(I)].val

\* The checkpoint add_flushed_tranc_id maintains against the queue order of
\* flush_last: whatever a committed transaction wrote is in an SST, or the
\* transaction is above the checkpoint and its log ends with COMMIT, so that
\* a replay from the checkpoint restores it after a crash at any point.
CommitsSurviveCrash ==
    \A t \in committed :
        \/ t > Checkpoint /\ Ends(wal[t])
        \/ \A k \in Keys : Logged(t, k) = "unset"
                             \/ LookupAll(ssts, k, t, Tx \ {t}).val = Logged(t, k)

\* abort and a failed commit: a transaction that was reported as rolled back
\* has no COMMIT record in the log that a replay would obey.
NoResurrection == \A t \in rolledBack : ~Ends(wal[t])

\* LSMEngine::flush reports exactly the markers it took from the memtable:
\* none is lost by a failed build, reported twice, or reported early.
MarkersAccounted ==
    markers = (UNION {MarkersOf(table) : table \in Range(MemTables)})
                \cup (IF flush.ph = "built" THEN MarkersOf(flush.table) ELSE {})
                \cup (IF flush.ph = "reporting" THEN flush.ids ELSE {})

\* commit() against everything that moves data: when all writers stage their
\* writes, contexts, memtable, SSTs and manager together behave as one map
\* that changes atomically at each commit, and a SERIALIZABLE transaction
\* commits only if the keys it read are unchanged.
Map == INSTANCE TxnMap WITH
    store <- [k \in Keys |-> CommittedView(AllTables, committed, k, 0)],
    status <- [t \in Tx |-> CASE ctx[t].pc = "none" -> "idle"
                              [] ctx[t].pc \in {"committed", "aborted"} -> ctx[t].pc
                              [] OTHER -> "active"],
    validates <- [t \in Tx |-> ctx[t].level = "SER"],
    staged <- [t \in Tx |-> IF t \in activeTrans THEN ctx[t].temp ELSE NoContext.temp],
    seen <- [t \in Tx |-> IF t \in activeTrans THEN ctx[t].seen ELSE NoContext.seen]

ImplementsTxnMap == Map!MapSpec

\* LSMEngine::flush and add_flushed_tranc_id: unless a stream of readers
\* starves flush of ssts_mtx for ever or building an SST never succeeds again,
\* every commit is settled in the end, and by then the checkpoint or the
\* flushed set covers it.
CommitsSettle ==
  SF_tvars(FlushLock) /\ SF_tvars(FlushBuilt) =>
    \A t \in Tx : t \in committed ~>
        /\ t \notin DOMAIN readyToFlushTrancIds
        /\ t <= Checkpoint \/ t \in flushedTrancIds
=============================================================================
