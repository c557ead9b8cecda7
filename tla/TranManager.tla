---------------------------- MODULE TranManager ----------------------------
(***************************************************************************)
(* The transaction manager of KopiDB (src/lsm/transation.cpp, class        *)
(* TranManager): id allocation, the active / ready / flushed / aborted     *)
(* containers, the checkpoint derived from the flushed set, the state file *)
(* tranc_id, and what a restart makes of it.                               *)
(*                                                                         *)
(* Every action that names a member function is one critical section of    *)
(* mutex_; saving the file is two steps because the file is truncated      *)
(* before it is written.                                                   *)
(***************************************************************************)
EXTENDS Integers, FiniteSetsExt

CONSTANTS
    MaxId,      \* bound: ids are handed out up to MaxId
    Faults      \* which faults the environment may inject

ASSUME MaxIdAssumption == MaxId \in Nat \ {0}
ASSUME FaultsAssumption == Faults \subseteq {"crash", "writefail", "abandon"}

States == {"OP_COMMITTED", "ABORTED"}
Id == 0..MaxId

VARIABLES
    nextTransactionId,     \* atomic counter, starts at 1
    activeTrans,           \* ids of the contexts the manager holds
    readyToFlushTrancIds,  \* ended, not yet settled: id -> state
    flushedTrancIds,       \* settled ids; its minimum is the checkpoint
    abortedTrancIds,       \* rolled-back ids, kept for ever
    walCheckpoint,         \* checkpoint the current WAL was opened with
    trancIdFile,           \* contents of the file tranc_id
    proc,                  \* life cycle of the process
    markers                \* ids whose end marker waits in the memtable

VARIABLES                  \* history, read only by the properties
    begun,                 \* ids that new_tranc ever handed out
    committed,             \* those whose last holder registered OP_COMMITTED
    rolledBack,            \* those whose last holder registered ABORTED
    base,                  \* what init_new_wal declared finished
    lost                   \* has a crash or an unfinished context lost state

memory == <<nextTransactionId, activeTrans, readyToFlushTrancIds,
            flushedTrancIds, abortedTrancIds>>
history == <<begun, committed, rolledBack, base, lost>>
vars == <<memory, walCheckpoint, trancIdFile, proc, markers, history>>

Absent == [kind |-> "absent"]
Empty == [kind |-> "empty"]

-----------------------------------------------------------------------------
(* Helpers on the containers.                                              *)

Checkpoint == Min(flushedTrancIds)             \* get_checkpoint_tranc_id
MaxFlushed == Max(flushedTrancIds)             \* get_max_flushed_tranc_id

\* Faulty variants, against which the properties are tested.
CompressNothing(S) == S
CompressWholeRun(S) == {x \in S : ~(Min(S)..x \subseteq S)}

\* Every id of the run that starts at the smallest element is dropped except
\* the last one: {0, 1, 2, 4} becomes {2, 4}.
Compress(S) == {x \in S : ~(Min(S)..(x + 1) \subseteq S)}

\* Faulty variants: commits settled with a later one; id itself forgotten.
SettledAllBelow(id) == {i \in DOMAIN readyToFlushTrancIds : i <= id}
SettledOnlyBelow(id) ==
    {i \in DOMAIN readyToFlushTrancIds :
        i < id /\ readyToFlushTrancIds[i] = "ABORTED"}

\* The ready entries a flush report for id settles: id itself and every
\* smaller rolled-back one.  Smaller committed ones wait for their own report.
Settled(id) ==
    {i \in DOMAIN readyToFlushTrancIds :
        i = id \/ (i < id /\ readyToFlushTrancIds[i] = "ABORTED")}

\* Faulty variant: entries of an earlier process are inserted below.
NewlySettledAny(id) == Settled(id)

\* What a report adds to the flushed set: a restart may leave ready entries at
\* or below the checkpoint, which only leave the ready map.
NewlySettled(id) == {i \in Settled(id) : i > Checkpoint}

\* Faulty variant: the active set is not consulted.
SkipOnlyAborted(id, requireCommitted) == id \in abortedTrancIds

ShouldSkipRead(id, requireCommitted) ==
    id \in abortedTrancIds \/ (requireCommitted /\ id \in activeTrans)

-----------------------------------------------------------------------------
Init ==
    /\ nextTransactionId = 1
    /\ activeTrans = {}
    /\ readyToFlushTrancIds = [i \in {} |-> "ABORTED"]
    /\ flushedTrancIds = {0}
    /\ abortedTrancIds = {}
    /\ walCheckpoint = 0
    /\ trancIdFile = Absent
    /\ proc = "down"
    /\ markers = {}
    /\ begun = {} /\ committed = {} /\ rolledBack = {}
    /\ base = 0 /\ lost = FALSE

(* TranManager(data_dir) without a state file: the default member values,   *)
(* and an empty file is created.                                            *)
StartFresh ==
    /\ proc = "down" /\ trancIdFile = Absent
    /\ nextTransactionId' = 1
    /\ activeTrans' = {}
    /\ readyToFlushTrancIds' = [i \in {} |-> "ABORTED"]
    /\ flushedTrancIds' = {0}
    /\ abortedTrancIds' = {}
    /\ markers' = {}
    /\ trancIdFile' = Empty
    /\ proc' = "starting"
    /\ UNCHANGED <<walCheckpoint, history>>

(* TranManager(data_dir) with a state file: read_tranc_id_file replaces     *)
(* every saved container; contexts are not saved.                           *)
StartFromFile ==
    /\ proc = "down" /\ trancIdFile.kind = "saved"
    /\ nextTransactionId' = trancIdFile.next
    /\ activeTrans' = {}
    /\ readyToFlushTrancIds' = trancIdFile.ready
    /\ flushedTrancIds' = trancIdFile.flushed
    /\ abortedTrancIds' = trancIdFile.aborted
    /\ markers' = {}
    /\ proc' = "starting"
    /\ UNCHANGED <<walCheckpoint, trancIdFile, history>>

(* A file shorter than its four-word header makes the constructor throw.    *)
StartFails ==
    /\ proc = "down" /\ trancIdFile = Empty
    /\ proc' = "broken"
    /\ UNCHANGED <<memory, walCheckpoint, trancIdFile, markers, history>>

\* Faulty variant: the WAL is opened with the next id.
NewWalAtNext == nextTransactionId

\* What init_new_wal hands to the WAL, and what it declares finished.
NewWalCheckpoint == MaxFlushed
FinishedAtStart == nextTransactionId - 1

(* init_new_wal, the last step of start-up: a new WAL is opened with the    *)
(* largest flushed id and everything allocated so far counts as finished.   *)
InitNewWal ==
    /\ proc = "starting"
    /\ walCheckpoint' = NewWalCheckpoint
    /\ flushedTrancIds' = {FinishedAtStart}
    /\ base' = nextTransactionId - 1
    /\ proc' = "up"
    /\ UNCHANGED <<nextTransactionId, activeTrans, readyToFlushTrancIds,
                   abortedTrancIds, trancIdFile, markers,
                   begun, committed, rolledBack, lost>>

-----------------------------------------------------------------------------
(* getNextTransactionId on its own: the plain reads and writes of LSM take  *)
(* an id that never ends, so nothing ever settles it.                       *)
GetNextTransactionId ==
    /\ proc = "up" /\ nextTransactionId <= MaxId
    /\ nextTransactionId' = nextTransactionId + 1
    /\ UNCHANGED <<activeTrans, readyToFlushTrancIds, flushedTrancIds,
                   abortedTrancIds, walCheckpoint, trancIdFile, proc, markers,
                   history>>

NewTranc ==
    /\ proc = "up" /\ nextTransactionId <= MaxId
    /\ nextTransactionId' = nextTransactionId + 1
    /\ activeTrans' = activeTrans \cup {nextTransactionId}
    /\ begun' = begun \cup {nextTransactionId}
    /\ committed' = committed \ {nextTransactionId}
    /\ rolledBack' = rolledBack \ {nextTransactionId}
    /\ UNCHANGED <<readyToFlushTrancIds, flushedTrancIds, abortedTrancIds,
                   walCheckpoint, trancIdFile, proc, markers, base, lost>>

\* Faulty variant: the ended context stays registered as active.
StillActive(id) == activeTrans

ActiveWithout(id) == activeTrans \ {id}

(* add_ready_to_flush_tranc_id: how a context ends.  A context ends once,   *)
(* so the id is still active; a commit has just put its end marker into the *)
(* memtable and still holds the memtable locks.                             *)
AddReadyToFlush(id, state) ==
    /\ proc = "up" /\ id \in activeTrans
    /\ abortedTrancIds' = IF state = "ABORTED" THEN abortedTrancIds \cup {id}
                          ELSE abortedTrancIds
    /\ readyToFlushTrancIds' =
         [i \in DOMAIN readyToFlushTrancIds \cup {id} |->
            IF i = id THEN state ELSE readyToFlushTrancIds[i]]
    /\ activeTrans' = ActiveWithout(id)
    /\ committed' = IF state = "OP_COMMITTED" THEN committed \cup {id}
                    ELSE committed
    /\ rolledBack' = IF state = "ABORTED" THEN rolledBack \cup {id}
                     ELSE rolledBack
    /\ markers' = IF state = "OP_COMMITTED" THEN markers \cup {id} ELSE markers
    /\ UNCHANGED <<nextTransactionId, flushedTrancIds, walCheckpoint,
                   trancIdFile, proc, begun, base, lost>>

(* add_flushed_tranc_id: LSMEngine::flush found the end marker of id in the *)
(* table it wrote, which is thereby gone from the memtable.                 *)
AddFlushed(id) ==
    /\ proc = "up" /\ id \in markers
    /\ flushedTrancIds' = IF NewlySettled(id) = {} THEN flushedTrancIds
                          ELSE Compress(flushedTrancIds \cup NewlySettled(id))
    /\ readyToFlushTrancIds' =
         [i \in DOMAIN readyToFlushTrancIds \ Settled(id) |->
            readyToFlushTrancIds[i]]
    /\ markers' = markers \ {id}
    /\ UNCHANGED <<nextTransactionId, activeTrans, abortedTrancIds,
                   walCheckpoint, trancIdFile, proc, history>>

-----------------------------------------------------------------------------
(* write_tranc_id_file: reopening the file truncates it, then the encoded   *)
(* containers are written.  mutex_ is held throughout, so no other          *)
(* operation runs in between.                                               *)
SaveBegin(after) ==
    /\ proc = "up"
    /\ after = "down" => (activeTrans = {} \/ "abandon" \in Faults)
    /\ trancIdFile' = Empty
    /\ proc' = IF after = "down" THEN "closing" ELSE "saving"
    /\ lost' = (lost \/ (after = "down" /\ activeTrans # {}))
    /\ UNCHANGED <<memory, walCheckpoint, markers, begun, committed, rolledBack,
                   base>>

\* Faulty variants: the rolled-back ids are not saved; the counter is saved
\* one too low.
SavedWithoutAborted ==
    [kind |-> "saved", next |-> nextTransactionId, flushed |-> flushedTrancIds,
     ready |-> readyToFlushTrancIds, aborted |-> {}]
SavedLowCounter ==
    [kind |-> "saved", next |-> Max({1, nextTransactionId - 1}),
     flushed |-> flushedTrancIds, ready |-> readyToFlushTrancIds,
     aborted |-> abortedTrancIds]

SavedState ==
    [kind |-> "saved", next |-> nextTransactionId, flushed |-> flushedTrancIds,
     ready |-> readyToFlushTrancIds, aborted |-> abortedTrancIds]

AfterSave == IF proc = "closing" THEN "down" ELSE "up"

SaveEnd ==
    /\ proc \in {"saving", "closing"}
    /\ trancIdFile' = SavedState
    /\ proc' = AfterSave
    /\ UNCHANGED <<memory, walCheckpoint, markers, history>>

(* The write or the sync reports an error: the truncated file stays.        *)
SaveFails ==
    /\ "writefail" \in Faults
    /\ proc \in {"saving", "closing"}
    /\ proc' = AfterSave
    /\ UNCHANGED <<memory, walCheckpoint, trancIdFile, markers, history>>

(* The process dies; what is in memory is gone at the next start.           *)
Crash ==
    /\ "crash" \in Faults
    /\ proc \notin {"down", "broken"}
    /\ proc' = "down"
    /\ lost' = TRUE
    /\ UNCHANGED <<memory, walCheckpoint, trancIdFile, markers, begun, committed,
                   rolledBack, base>>

Next ==
    \/ StartFresh \/ StartFromFile \/ StartFails \/ InitNewWal
    \/ GetNextTransactionId \/ NewTranc
    \/ \E id \in activeTrans, state \in States : AddReadyToFlush(id, state)
    \/ \E id \in markers : AddFlushed(id)
    \/ \E after \in {"up", "down"} : SaveBegin(after)
    \/ SaveEnd \/ SaveFails \/ Crash

Spec == Init /\ [][Next]_vars

-----------------------------------------------------------------------------
(* Properties.                                                              *)

Running == proc \in {"up", "saving", "closing"}

\* The containers hold ids below the counter and the file holds such a state.
TypeOK ==
    /\ nextTransactionId \in 1..(MaxId + 1)
    /\ activeTrans \subseteq Id
    /\ DOMAIN readyToFlushTrancIds \subseteq Id
    /\ readyToFlushTrancIds \in [DOMAIN readyToFlushTrancIds -> States]
    /\ flushedTrancIds \in (SUBSET Id) \ {{}}
    /\ abortedTrancIds \subseteq Id
    /\ walCheckpoint \in Id
    /\ proc \in {"down", "starting", "up", "saving", "closing", "broken"}
    /\ \/ trancIdFile \in {Absent, Empty}
       \/ /\ trancIdFile.kind = "saved"
          /\ trancIdFile.next \in 1..(MaxId + 1)
          /\ trancIdFile.flushed \in (SUBSET Id) \ {{}}
          /\ DOMAIN trancIdFile.ready \subseteq Id
          /\ trancIdFile.ready \in [DOMAIN trancIdFile.ready -> States]
          /\ trancIdFile.aborted \subseteq Id
    /\ begun \subseteq Id /\ committed \subseteq Id
    /\ rolledBack \subseteq Id /\ markers \subseteq Id
    /\ base \in Id

\* id needs no replay: it predates the current WAL, was rolled back, or
\* committed and the flush of its own end marker was reported.
Covered(id) ==
    id <= base \/ id \in rolledBack \/ (id \in committed /\ id \notin markers)

\* add_flushed_tranc_id and init_new_wal: the checkpoint never passes an id
\* that is unfinished or committed but not yet flushed, and neither does any
\* id settled ahead of it.
CheckpointSound ==
    Running => \A id \in 1..MaxId :
                 (id <= Checkpoint \/ id \in flushedTrancIds) => Covered(id)

\* add_flushed_tranc_id, init_new_wal and the saved file: the checkpoint moves
\* only forward, also when a process starts, unless a crash lost the last save.
CheckpointMonotone ==
    [][proc # "down" \/ ~lost => Min(flushedTrancIds') >= Checkpoint]_flushedTrancIds

\* add_flushed_tranc_id closes every gap it can: the id after the checkpoint is
\* never one that is settled already, so the log can be cleaned that far.
CheckpointTight == Running => Checkpoint + 1 \notin flushedTrancIds

\* A commit stays in the ready map until the flush of its own marker: a later
\* transaction's report must not settle it.
CommitAwaitsOwnFlush ==
    Running => \A id \in markers :
                 /\ id \in DOMAIN readyToFlushTrancIds
                 /\ readyToFlushTrancIds[id] = "OP_COMMITTED"

UnfinishedSkipped ==
    /\ \A id \in begun \ committed : ShouldSkipRead(id, TRUE)
    /\ \A id \in rolledBack : ShouldSkipRead(id, FALSE)

\* should_skip_read, across saves and restarts that leave nothing unfinished: a
\* strict read never accepts a version of a transaction that did not commit,
\* and no read accepts a version of one that rolled back.
SkipsSurviveRestart == Running /\ ~lost => UnfinishedSkipped

\* new_tranc: the id handed out is unique in the life of the database, so the
\* counter stays above every id handed out before, clean restarts included.
UniqueIds == Running /\ ~lost => \A id \in begun : id < nextTransactionId

\* init_new_wal opens the WAL with the largest flushed id: no transaction
\* that logs to it may have an id its cleaner regards as finished.
WalCheckpointBelowLive ==
    Running => \A id \in activeTrans \cup DOMAIN readyToFlushTrancIds :
                 id > base => id > walCheckpoint

-----------------------------------------------------------------------------
(* The inductive invariant behind CheckpointSound.                          *)

\* Ids in the containers, and in the saved file, lie below its counter.
BelowCounter ==
    /\ \A id \in flushedTrancIds \cup DOMAIN readyToFlushTrancIds :
          id < nextTransactionId
    /\ trancIdFile.kind = "saved" =>
          \A id \in trancIdFile.flushed \cup DOMAIN trancIdFile.ready :
             id < trancIdFile.next

\* An active id is of this epoch and has not ended.
ActiveUnended ==
    \A id \in activeTrans : /\ id < nextTransactionId
                            /\ id > base
                            /\ id \notin committed \cup rolledBack

\* A marker waiting in memory belongs to a commit the ready map still holds.
MarkersReady ==
    \A id \in markers : /\ id \in committed
                        /\ id \in DOMAIN readyToFlushTrancIds
                        /\ readyToFlushTrancIds[id] = "OP_COMMITTED"

\* A ready entry that may be settled early really rolled back.
ReadyAborted ==
    \A id \in DOMAIN readyToFlushTrancIds :
        readyToFlushTrancIds[id] = "ABORTED" => id <= base \/ id \in rolledBack

FlushedCovered ==
    /\ \A id \in flushedTrancIds : Covered(id)
    /\ \A id \in Id : id <= Checkpoint => Covered(id)

\* Start-up begins without contexts and without markers.
StartEmpty == proc = "starting" => activeTrans = {} /\ markers = {}

IInv ==
    /\ TypeOK
    /\ BelowCounter
    /\ StartEmpty
    /\ Running => /\ base < nextTransactionId
                  /\ ActiveUnended
                  /\ MarkersReady
                  /\ ReadyAborted
                  /\ FlushedCovered
                  /\ CheckpointTight

\* While a save runs the file is truncated; after one, and until a crash, it
\* holds the flushed set.  The file is absent only before the first
\* start, when no id is flushed.
FileInv ==
    /\ trancIdFile = Absent => proc = "down" /\ flushedTrancIds = {0}
    /\ proc \in {"saving", "closing"} => trancIdFile = Empty
    /\ proc = "down" /\ ~lost /\ trancIdFile.kind = "saved" =>
          trancIdFile.flushed = flushedTrancIds

\* What the next start needs of a set of counter and rolled-back ids: all ids
\* handed out lie below the counter, and what did not commit is marked.
Remembers(next, skipped, rolled) ==
    /\ \A id \in begun : id < next
    /\ begun \ committed \subseteq skipped
    /\ rolledBack \subseteq rolled

\* Until state is lost, the manager remembers every transaction while it runs
\* or starts, a clean close finds none active, and the file it leaves behind
\* remembers what memory did.  Before the first start there is none.
RestartInv ==
    /\ trancIdFile = Absent => begun = {} /\ rolledBack = {}
    /\ ~lost =>
         /\ Running \/ proc = "starting" =>
              Remembers(nextTransactionId, activeTrans \cup abortedTrancIds,
                        abortedTrancIds)
         /\ proc = "closing" => activeTrans = {}
         /\ proc = "down" /\ trancIdFile.kind = "saved" =>
              Remembers(trancIdFile.next, trancIdFile.aborted, trancIdFile.aborted)

\* The WAL in use was opened at or below what counted as finished then.
WalBelowBase == Running => walCheckpoint <= base
=============================================================================
