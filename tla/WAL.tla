--------------------------------- MODULE WAL ---------------------------------
(***************************************************************************)
(* The write-ahead log of KopiDB (src/wal/wal.cpp): buffering, rotation,   *)
(* the sticky failure, the background cleaner, and a destructor that has   *)
(* to stop the cleaner.  One process at a time opens the directory; it may *)
(* close the log, fail, or die and open it again.                          *)
(*                                                                         *)
(* A record is its transaction and its place in the order of the calls to  *)
(* log; the size of a file is its number of records.  log, set_checkpoint  *)
(* and the scan of the directory each hold mutex_ from start to end, so    *)
(* only the cleaner holds it across steps.                                 *)
(***************************************************************************)
EXTENDS Integers, FiniteSetsExt, SequencesExt

CONSTANTS
    Txs,            \* transaction ids
    BufferSize,     \* buffer_size_
    FileSizeLimit,  \* file_size_limit_, 0 turns rotation off
    MaxSeq,         \* the largest value of a file's sequence number
    WalFaults,      \* which of "io", "remove" and "crash" may happen
    MaxRecords,     \* bound: records logged
    MaxOpens        \* bound: how often the log is opened

ASSUME TxsAssumption == Txs \subseteq Nat
ASSUME SizesAssumption == BufferSize \in Nat /\ FileSizeLimit \in Nat /\ MaxSeq \in Nat
ASSUME WalFaultsAssumption == WalFaults \subseteq {"io", "remove", "crash"}
ASSUME BoundsAssumption == MaxRecords \in Nat /\ MaxOpens \in Nat

VARIABLES
    files,        \* the directory: sequence number -> contents
    active,       \* number of the file of active_log_path_
    buffer,       \* log_buffer_
    writeFailed,  \* write_failed_
    checkpoint,   \* checkpoint_tranc_id_
    mutex,        \* holder of mutex_
    stop,         \* stop_cleaner_
    cleaner,      \* the thread running cleaner()
    owner         \* the thread that constructs, uses and destroys the log

VARIABLES         \* history
    logged,       \* records passed to log so far
    acked,        \* records whose write was reported as done
    highest,      \* largest checkpoint ever given
    opens         \* constructions so far

memory == <<active, buffer, writeFailed, checkpoint>>
threads == <<mutex, stop, cleaner>>
history == <<logged, acked, highest, opens>>
wvars == <<files, memory, threads, owner, history>>

EmptyFile == [recs |-> <<>>, torn |-> FALSE]
NoThread == [pc |-> "none", todo |-> {}]

WInit ==
    /\ files = [s \in {} |-> EmptyFile]
    /\ active = 0 /\ buffer = <<>> /\ writeFailed = FALSE /\ checkpoint = 0
    /\ mutex = "free" /\ stop = FALSE /\ cleaner = NoThread
    /\ owner = "closed"
    /\ logged = 0 /\ acked = {} /\ highest = 0 /\ opens = 0

-----------------------------------------------------------------------------

\* The number of a new file: above every file in the directory.
NextSeq == IF DOMAIN files = {} THEN 0 ELSE Max(DOMAIN files) + 1

(* WAL(log_dir, ...): a new file above all old ones, then the cleaner       *)
(* thread unless clean_interval is 0.                                       *)
Open(c, cleans) ==
    /\ owner = "closed" /\ opens < MaxOpens /\ MaxSeq \notin DOMAIN files
    /\ files' = [s \in DOMAIN files \cup {NextSeq} |->
                   IF s = NextSeq THEN EmptyFile ELSE files[s]]
    /\ active' = NextSeq /\ buffer' = <<>> /\ writeFailed' = FALSE
    /\ checkpoint' = c /\ highest' = Max({highest, c})
    /\ mutex' = "free" /\ stop' = FALSE
    /\ cleaner' = IF cleans THEN [NoThread EXCEPT !.pc = "lock"] ELSE NoThread
    /\ owner' = "using"
    /\ opens' = opens + 1
    /\ UNCHANGED <<logged, acked>>

(* The constructor refuses to wrap the sequence number around.              *)
OpenExhausted ==
    /\ owner = "closed" /\ opens < MaxOpens /\ MaxSeq \in DOMAIN files
    /\ opens' = opens + 1
    /\ UNCHANGED <<files, memory, threads, owner, logged, acked, highest>>

-----------------------------------------------------------------------------
(* log(records, force_flush).  After a failure it throws at once.           *)

\* Faulty variants: a failed log is written again; a full buffer waits.
AcceptsAlways == TRUE
DueLate(b, force) == b # <<>> /\ (force \/ Len(b) > BufferSize)

Accepts == ~writeFailed
Due(b, force) == b # <<>> /\ (force \/ Len(b) >= BufferSize)

\* reset_file is called before the write once the active file is full.
Rotates == FileSizeLimit # 0 /\ Len(files[active].recs) >= FileSizeLimit
Target == IF Rotates THEN active + 1 ELSE active

\* The directory after rotation and after writing recs to the target.
Written(recs, torn) ==
    [s \in DOMAIN files \cup {Target} |->
       IF s # Target THEN files[s]
       ELSE [recs |-> (IF Rotates THEN <<>> ELSE files[s].recs) \o recs,
             torn |-> torn]]

LogKeeps(b, force) ==
    /\ Accepts /\ mutex = "free" /\ ~Due(b, force)
    /\ buffer' = b
    /\ UNCHANGED <<files, active, writeFailed, checkpoint, acked>>

LogWrites(b, force) ==
    /\ Accepts /\ mutex = "free" /\ Due(b, force)
    /\ Rotates => active < MaxSeq
    /\ files' = Written(b, FALSE)
    /\ active' = Target
    /\ buffer' = <<>>
    /\ acked' = acked \cup Range(b)
    /\ UNCHANGED <<writeFailed, checkpoint>>

(* A file operation fails: any prefix of the batch may be in the file, the  *)
(* last record cut short, and the buffer is kept.                           *)
AppendFails(b) ==
    /\ "io" \in WalFaults
    /\ Rotates => active < MaxSeq
    /\ \E n \in 0..Len(b), torn \in BOOLEAN :
         /\ torn => n < Len(b)
         /\ files' = Written(SubSeq(b, 1, n), torn)
    /\ active' = Target

(* The size cannot be read or the next file cannot be created, or it was    *)
(* created and its flush failed; the old file stays the active one.         *)
RotateFails ==
    /\ "io" \in WalFaults \/ (Rotates /\ active = MaxSeq)
    /\ \/ UNCHANGED files
       \/ Rotates /\ active < MaxSeq /\ files' = Written(<<>>, FALSE)
    /\ UNCHANGED active

LogFails(b, force) ==
    /\ Accepts /\ mutex = "free" /\ Due(b, force)
    /\ AppendFails(b) \/ RotateFails
    /\ writeFailed' = TRUE
    /\ buffer' = b
    /\ UNCHANGED <<checkpoint, acked>>

LogCall(b, force) == LogKeeps(b, force) \/ LogWrites(b, force) \/ LogFails(b, force)

Log(t, force) ==
    /\ owner = "using" /\ logged < MaxRecords
    /\ LogCall(Append(buffer, [n |-> logged + 1, tx |-> t]), force)
    /\ logged' = logged + 1
    /\ UNCHANGED <<threads, owner, highest, opens>>

Flush ==
    /\ owner = "using"
    /\ LogCall(buffer, TRUE)
    /\ UNCHANGED <<threads, owner, logged, highest, opens>>

SetCheckpoint(c) ==
    /\ owner = "using" /\ mutex = "free"
    /\ checkpoint' = c
    /\ highest' = Max({highest, c})
    /\ UNCHANGED <<files, active, buffer, writeFailed, threads, owner, logged,
                   acked, opens>>

-----------------------------------------------------------------------------
(* cleaner().  wait_for checks the predicate under mutex_, releases it to   *)
(* sleep, and takes it again after a notification, the interval, or a       *)
(* spurious wakeup.                                                         *)

At(pc) == cleaner.pc = pc
Go(pc) == cleaner' = [cleaner EXCEPT !.pc = pc]
cleanerLocal == <<files, memory, stop, owner, history>>

CleanerLock ==
    /\ At("lock") /\ mutex = "free"
    /\ Go("check") /\ mutex' = "cleaner"
    /\ UNCHANGED cleanerLocal

CleanerCheck ==
    /\ At("check")
    /\ \/ stop /\ Go("exited") /\ mutex' = "free"
       \/ ~stop /\ Go("enter") /\ UNCHANGED mutex
    /\ UNCHANGED cleanerLocal

CleanerSleep ==
    /\ At("enter") /\ Go("asleep") /\ mutex' = "free"
    /\ UNCHANGED cleanerLocal

CleanerTimeout ==
    /\ At("asleep") /\ Go("timeout")
    /\ UNCHANGED <<mutex, cleanerLocal>>

CleanerSpurious ==
    /\ At("asleep") /\ Go("lock")
    /\ UNCHANGED <<mutex, cleanerLocal>>

(* The interval is over: stop if asked to, otherwise unlock and clean.      *)
CleanerRelock ==
    /\ At("timeout") /\ mutex = "free"
    /\ Go(IF stop THEN "exited" ELSE "clean")
    /\ UNCHANGED <<mutex, cleanerLocal>>

(* cleanWALFile under mutex_: the older files, in any order.                *)
CleanBegin ==
    /\ At("clean") /\ mutex = "free"
    /\ cleaner' = [pc |-> "scan", todo |-> {s \in DOMAIN files : s < active}]
    /\ mutex' = "cleaner"
    /\ UNCHANGED cleanerLocal

\* Faulty variants: the file's number is compared instead of its records; the
\* checkpoint itself does not count as finished.
DeletableBySeq(s) == ~files[s].torn /\ s <= checkpoint
DeletableStrict(s) ==
    ~files[s].torn /\ \A r \in Range(files[s].recs) : r.tx < checkpoint

\* A torn record makes decode throw, and the file is kept.
Deletable(s) ==
    ~files[s].torn /\ \A r \in Range(files[s].recs) : r.tx <= checkpoint

CleanFile(s) ==
    /\ At("scan") /\ s \in cleaner.todo
    /\ \/ Deletable(s) /\ files' = [x \in DOMAIN files \ {s} |-> files[x]]
       \/ (~Deletable(s) \/ "remove" \in WalFaults) /\ UNCHANGED files
    /\ cleaner' = [cleaner EXCEPT !.todo = @ \ {s}]
    /\ UNCHANGED <<memory, mutex, stop, owner, history>>

CleanEnd ==
    /\ At("scan") /\ cleaner.todo = {} /\ Go("lock") /\ mutex' = "free"
    /\ UNCHANGED cleanerLocal

-----------------------------------------------------------------------------
(* ~WAL().                                                                  *)

\* Faulty variant: the flag is set without the lock.
StopUnlocked == TRUE

StopLock == mutex = "free"

StopSet ==
    /\ owner = "using" /\ StopLock
    /\ stop' = TRUE /\ owner' = "notify"
    /\ UNCHANGED <<files, memory, mutex, cleaner, history>>

(* notify_one wakes the cleaner if it sleeps.                               *)
StopNotify ==
    /\ owner = "notify" /\ owner' = "join"
    /\ cleaner' = IF At("asleep") THEN [cleaner EXCEPT !.pc = "lock"] ELSE cleaner
    /\ UNCHANGED <<files, memory, mutex, stop, history>>

StopJoin ==
    /\ owner = "join" /\ cleaner.pc \in {"none", "exited"} /\ owner' = "flush"
    /\ UNCHANGED <<files, memory, threads, history>>

(* The last flush; an error is logged and the file is closed all the same.  *)
StopFlush ==
    /\ owner = "flush" /\ owner' = "closed"
    /\ \/ LogCall(buffer, TRUE)
       \/ writeFailed /\ UNCHANGED <<files, memory, acked>>
    /\ UNCHANGED <<threads, logged, highest, opens>>

Crash ==
    /\ "crash" \in WalFaults /\ owner # "closed"
    /\ owner' = "closed" /\ mutex' = "free" /\ cleaner' = NoThread
    /\ UNCHANGED <<files, memory, stop, history>>

CleanerStep ==
    \/ CleanerLock \/ CleanerCheck \/ CleanerSleep \/ CleanerRelock
    \/ CleanBegin \/ CleanEnd \/ \E s \in cleaner.todo : CleanFile(s)

StopStep == StopNotify \/ StopJoin \/ StopFlush

WNext ==
    \/ \E c \in Txs \cup {0}, cleans \in BOOLEAN : Open(c, cleans)
    \/ OpenExhausted
    \/ \E t \in Txs, force \in BOOLEAN : Log(t, force)
    \/ Flush
    \/ \E c \in Txs : SetCheckpoint(c)
    \/ CleanerStep \/ CleanerTimeout \/ CleanerSpurious
    \/ StopSet \/ StopStep
    \/ Crash

WSpec == WInit /\ [][WNext]_wvars

(* Running threads go on; the interval need never elapse.                   *)
WFairSpec == WSpec /\ WF_wvars(CleanerStep) /\ WF_wvars(StopStep)

-----------------------------------------------------------------------------
(* Properties.                                                              *)

\* While the log is usable, the active file is the newest of the directory and
\* intact, and fewer records than BufferSize wait in the buffer.
WTypeOK ==
    /\ DOMAIN files \subseteq 0..MaxSeq
    /\ mutex \in {"free", "cleaner"}
    /\ owner \in {"using", "notify", "join", "flush"} /\ ~writeFailed =>
         /\ active = Max(DOMAIN files) /\ ~files[active].torn
         /\ buffer = <<>> \/ Len(buffer) < BufferSize

\* log and reset_file across failures, rotations and restarts: read in the
\* order of their numbers, the files hold every record at most once and in the
\* order of the calls.
LogOrdered ==
    \A s, t \in DOMAIN files :
        \A i \in DOMAIN files[s].recs, j \in DOMAIN files[t].recs :
            s < t \/ (s = t /\ i < j) => files[s].recs[i].n < files[t].recs[j].n

\* log against cleanWALFile, reset_file and the constructor: a record whose
\* write was reported and whose transaction no checkpoint ever covered is in a
\* file, whatever was rotated, cleaned, closed or crashed since.
AckedKept ==
    \A r \in acked : r.tx > highest => \E s \in DOMAIN files : r \in Range(files[s].recs)

\* The destructor and the cleaner: once the stop flag is set the log closes
\* without the cleaning interval having to elapse.
CloseEnds == (owner = "notify") ~> (owner = "closed")

CoveredFile(s) ==
    /\ s \in DOMAIN files /\ s < active /\ ~files[s].torn
    /\ \A r \in Range(files[s].recs) : r.tx <= checkpoint

\* cleaner() and cleanWALFile: if the interval elapses again and again (wait_for
\* has a fixed deadline, which spurious wakeups do not move, hence strong
\* fairness) and removing a file does not fail for ever, then while the log
\* stays open an old file whose records the checkpoint covers is removed, or
\* the checkpoint falls again.
CoveredFilesGo ==
    \A s \in 0..MaxSeq :
        SF_wvars(CleanerTimeout) /\ SF_wvars(CleanFile(s) /\ s \notin DOMAIN files')
          => ((CoveredFile(s) /\ cleaner.pc # "none")
                ~> (s \notin DOMAIN files \/ owner # "using" \/ checkpoint < highest))
=============================================================================
