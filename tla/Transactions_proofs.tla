------------------------ MODULE Transactions_proofs ------------------------
(***************************************************************************)
(* Proofs about transactions, for every set of keys and levels, every      *)
(* bound and every I/O fault.  The first part is about the manager alone:  *)
(* its types, the soundness of the checkpoint, and what it remembers of    *)
(* transactions over saves and restarts.  The rest is the inductive        *)
(* invariant of transaction contexts over memtable, SSTs, log and manager: *)
(* first contexts, locks and log, then the tables and the reads: how       *)
(* records move from the active table to the SSTs, which transactions they *)
(* belong to, where the end markers are, and what a read holds.  Its       *)
(* theorems are at the end.                                                *)
(***************************************************************************)
EXTENDS Transactions, ProofLemmas

-----------------------------------------------------------------------------
(* The transaction manager.                                                 *)


\* What compression keeps: a non-empty subset whose minimum ends the run of
\* consecutive ids that starts at the old minimum.
LEMMA CompressFacts ==
    ASSUME NEW n \in Nat, NEW S, S \subseteq 0..n, S # {}
    PROVE  /\ Compress(S) # {} /\ Compress(S) \subseteq S
           /\ Min(S)..Min(Compress(S)) \subseteq S
           /\ Min(Compress(S)) + 1 \notin S
<1> DEFINE m == Min(S)
           T == {x \in Nat : x >= m /\ x + 1 \notin S}
<1>0. S \subseteq Nat /\ \A y \in S : y <= n
  OBVIOUS
<1>1. m \in S /\ m \in Nat /\ m <= n /\ \A y \in S : m <= y
  <2>1. m \in S /\ \A y \in S : m <= y
    BY <1>0, MinNat
  <2> HIDE DEF m, T
  <2> QED
    BY <1>0, <2>1
<1> HIDE DEF m
<1>2. n \in T
  BY <1>1
<1>3. PICK c \in T : \A y \in T : c <= y
  <2>1. T \subseteq Nat /\ T # {}
    BY <1>2
  <2> HIDE DEF T
  <2> QED
    BY <2>1, MinNat
<1>4. c \in Nat /\ c >= m /\ c + 1 \notin S
  BY <1>3
<1>5. ASSUME NEW y \in m..c PROVE y \in S
  <2>1. CASE y = m
    BY <2>1, <1>1
  <2>2. CASE y # m
    <3>1. y - 1 \in Nat /\ y - 1 >= m /\ y - 1 < c /\ (y - 1) + 1 = y
      BY <2>2, <1>1, <1>4
    <3>2. y - 1 \notin T
      <4> HIDE DEF T
      <4> QED
        BY <3>1, <1>3, <1>4
    <3> QED
      BY <3>1, <3>2
  <2> QED
    BY <2>1, <2>2
<1>6. c \in S
  BY <1>5, <1>1, <1>4
<1>7. c \in Compress(S)
  <2>1. c + 1 \in m..(c + 1)
    BY <1>1, <1>4
  <2> QED
    BY <2>1, <1>4, <1>6 DEF Compress, m
<1>8. ASSUME NEW x \in Compress(S) PROVE x >= c
  <2>1. x \in S /\ x \in Nat /\ ~(m..(x + 1) \subseteq S)
    BY DEF Compress, m
  <2>2. ASSUME x < c PROVE m..(x + 1) \subseteq m..c
    BY <2>1, <2>2, <1>1, <1>4
  <2>3. m..c \subseteq S
    BY <1>5
  <2> QED
    BY <2>1, <2>2, <2>3, <1>4
<1>9. Compress(S) \subseteq S /\ Compress(S) \subseteq Nat
  <2>1. Compress(S) \subseteq S
    BY DEF Compress
  <2> QED
    BY <2>1, <1>0
<1>10. Min(Compress(S)) = c
  <2>1. Min(Compress(S)) \in Compress(S) /\ Min(Compress(S)) <= c
    BY <1>7, <1>9, MinNat
  <2>2. Min(Compress(S)) >= c /\ Min(Compress(S)) \in Nat
    BY <2>1, <1>8, <1>9
  <2> QED
    BY <2>1, <2>2, <1>4
<1> QED
  BY <1>4, <1>5, <1>7, <1>9, <1>10 DEF m

\* The checkpoint is the smallest flushed id.
LEMMA CheckpointFacts ==
    ASSUME TypeOK
    PROVE  /\ Checkpoint \in flushedTrancIds /\ Checkpoint \in Id
           /\ \A y \in flushedTrancIds : Checkpoint <= y
<1>1. flushedTrancIds \subseteq Nat /\ flushedTrancIds # {} /\ flushedTrancIds \subseteq Id
  BY MaxIdAssumption DEF TypeOK, Id
<1> QED
  BY <1>1, MinNat DEF Checkpoint

\* A manager that has not started satisfies the invariant.
LEMMA InitIInv == Init => IInv
<1> SUFFICES ASSUME Init PROVE IInv
  OBVIOUS
<1>1. TypeOK
  BY MaxIdAssumption DEF Init, TypeOK, Id, States
<1>2. BelowCounter
  BY DEF Init, BelowCounter, Absent
<1> QED
  BY <1>1, <1>2 DEF Init, IInv, StartEmpty, Running

-----------------------------------------------------------------------------
(* Type correctness is preserved, action by action.                         *)

\* Every manager action, restart and crash included, keeps the types.
LEMMA TypeStep == TypeOK /\ BelowCounter /\ [Next]_vars => TypeOK'
<1> SUFFICES ASSUME TypeOK, BelowCounter, [Next]_vars PROVE TypeOK'
  OBVIOUS
<1> USE MaxIdAssumption DEF Id
<1>1. CASE StartFresh
  BY <1>1 DEF StartFresh, TypeOK, history, States, Absent, Empty
<1>2. CASE StartFromFile
  <2>1. trancIdFile \notin {Absent, Empty}
    BY <1>2 DEF StartFromFile, Absent, Empty
  <2> QED
    BY <1>2, <2>1 DEF StartFromFile, TypeOK, history
<1>3. CASE StartFails
  BY <1>3 DEF StartFails, TypeOK, history, memory
<1>4. CASE InitNewWal
  <2>1. MaxFlushed \in Id
    <3>1. flushedTrancIds \subseteq 0..MaxId /\ flushedTrancIds # {}
      BY DEF TypeOK
    <3>2. MaxFlushed \in flushedTrancIds
      BY <3>1, MaxBounded DEF MaxFlushed
    <3> QED
      BY <3>1, <3>2
  <2>2. nextTransactionId - 1 \in Id
    BY DEF TypeOK
  <2> QED
    BY <1>4, <2>1, <2>2 DEF InitNewWal, NewWalCheckpoint, FinishedAtStart, TypeOK
<1>5. CASE GetNextTransactionId
  BY <1>5 DEF GetNextTransactionId, TypeOK, history
<1>6. CASE NewTranc
  BY <1>6 DEF NewTranc, TypeOK
<1>7. ASSUME NEW id \in activeTrans, NEW state \in States, AddReadyToFlush(id, state)
      PROVE  TypeOK'
  <2>1. readyToFlushTrancIds' \in [DOMAIN readyToFlushTrancIds \cup {id} -> States]
    BY <1>7 DEF AddReadyToFlush, ActiveWithout, TypeOK
  <2>2. DOMAIN readyToFlushTrancIds' = DOMAIN readyToFlushTrancIds \cup {id}
    BY <1>7 DEF AddReadyToFlush, ActiveWithout
  <2> QED
    BY <1>7, <2>1, <2>2 DEF AddReadyToFlush, ActiveWithout, TypeOK
<1>8. ASSUME NEW id \in markers, AddFlushed(id)
      PROVE  TypeOK'
  <2> DEFINE new == NewlySettled(id)
  <2>1. new \subseteq Id
    BY DEF NewlySettled, Settled, TypeOK
  <2>2. flushedTrancIds' \in (SUBSET Id) \ {{}}
    <3>1. CASE new = {}
      BY <1>8, <3>1 DEF AddFlushed, TypeOK
    <3>2. CASE new # {}
      <4>1. flushedTrancIds \cup new \subseteq 0..MaxId /\ flushedTrancIds \cup new # {}
        BY <2>1, <3>2 DEF TypeOK
      <4> HIDE DEF new
      <4>2. /\ Compress(flushedTrancIds \cup new) # {}
            /\ Compress(flushedTrancIds \cup new) \subseteq flushedTrancIds \cup new
        BY <4>1, CompressFacts
      <4>3. flushedTrancIds' = Compress(flushedTrancIds \cup new)
        BY <1>8, <3>2 DEF AddFlushed, new
      <4> QED
        BY <4>1, <4>2, <4>3
    <3> QED
      BY <3>1, <3>2
  <2>3. readyToFlushTrancIds' \in [DOMAIN readyToFlushTrancIds \ Settled(id) -> States]
    BY <1>8 DEF AddFlushed, TypeOK
  <2>4. DOMAIN readyToFlushTrancIds' = DOMAIN readyToFlushTrancIds \ Settled(id)
    BY <1>8 DEF AddFlushed
  <2> QED
    BY <1>8, <2>2, <2>3, <2>4 DEF AddFlushed, TypeOK, history
<1>9. ASSUME NEW after \in {"up", "down"}, SaveBegin(after)
      PROVE  TypeOK'
  BY <1>9 DEF SaveBegin, TypeOK, memory, history
<1>10. CASE SaveEnd
  BY <1>10 DEF SaveEnd, AfterSave, SavedState, TypeOK, memory, history
<1>11. CASE SaveFails
  BY <1>11 DEF SaveFails, AfterSave, TypeOK, memory, history
<1>12. CASE Crash
  BY <1>12 DEF Crash, TypeOK, memory, history
<1>13. CASE UNCHANGED vars
  BY <1>13 DEF vars, memory, history, TypeOK
<1> QED
  BY <1>1, <1>2, <1>3, <1>4, <1>5, <1>6, <1>7, <1>8, <1>9, <1>10, <1>11, <1>12,
     <1>13 DEF Next

-----------------------------------------------------------------------------
(* The whole invariant is preserved.  An action that runs while the manager *)
(* is up has one step per part it can disturb.                              *)

\* new_tranc, the two ready-to-flush paths, add_flushed, the save and the
\* restarts keep the parts of the invariant.
LEMMA NextIInv == IInv /\ [Next]_vars => IInv'
<1> SUFFICES ASSUME IInv, [Next]_vars PROVE IInv'
  OBVIOUS
<1>0. TypeOK'
  BY TypeStep DEF IInv
<1>t. TypeOK /\ BelowCounter /\ StartEmpty
  BY DEF IInv
<1>c. /\ Checkpoint \in flushedTrancIds /\ Checkpoint \in Nat
      /\ nextTransactionId \in Nat /\ MaxId \in Nat /\ base \in Nat
  BY <1>t, CheckpointFacts, MaxIdAssumption DEF TypeOK, Id
<1>1. CASE StartFresh
  BY <1>0, <1>1 DEF StartFresh, IInv, BelowCounter, StartEmpty, Running, Empty
<1>2. CASE StartFromFile
  BY <1>0, <1>2 DEF StartFromFile, IInv, BelowCounter, StartEmpty, Running
<1>3. CASE StartFails
  BY <1>0, <1>3 DEF StartFails, IInv, BelowCounter, StartEmpty, Running, memory
<1>4. CASE InitNewWal
  <2>1. activeTrans' = {} /\ markers' = {} /\ StartEmpty'
    BY <1>4, <1>t DEF InitNewWal, NewWalCheckpoint, FinishedAtStart, StartEmpty
  <2>2. BelowCounter'
    <3>1. nextTransactionId - 1 < nextTransactionId
      BY <1>c
    <3> QED
      BY <1>4, <1>t, <3>1 DEF InitNewWal, NewWalCheckpoint, FinishedAtStart, BelowCounter
  <2>3. base' < nextTransactionId' /\ ActiveUnended' /\ MarkersReady'
    BY <1>4, <1>c, <2>1 DEF InitNewWal, NewWalCheckpoint, FinishedAtStart, ActiveUnended, MarkersReady
  <2>4. ReadyAborted'
    <3>1. \A id \in DOMAIN readyToFlushTrancIds : id <= nextTransactionId - 1
      BY <1>t, <1>c DEF BelowCounter, TypeOK, Id
    <3> QED
      BY <1>4, <3>1 DEF InitNewWal, NewWalCheckpoint, FinishedAtStart, ReadyAborted
  <2>5. flushedTrancIds' = {base'} /\ Checkpoint' = base'
    <3>1. flushedTrancIds' = {base'}
      BY <1>4 DEF InitNewWal, NewWalCheckpoint, FinishedAtStart
    <3> QED
      BY <1>0, <3>1, CheckpointFacts, MinNat DEF Checkpoint, TypeOK, Id
  <2>6. FlushedCovered'
    BY <1>0, <2>5 DEF FlushedCovered, Covered, TypeOK, Id
  <2>7. CheckpointTight'
    BY <1>0, <2>5 DEF CheckpointTight, TypeOK, Id
  <2> QED
    BY <1>0, <2>1, <2>2, <2>3, <2>4, <2>6, <2>7 DEF IInv
<1>5. CASE GetNextTransactionId
  <2>1. UNCHANGED <<activeTrans, readyToFlushTrancIds, flushedTrancIds, trancIdFile,
                    proc, markers, begun, committed, rolledBack, base>>
        /\ nextTransactionId' = nextTransactionId + 1 /\ proc = "up"
    BY <1>5 DEF GetNextTransactionId, history
  <2>2. BelowCounter' /\ StartEmpty'
    BY <1>t, <1>c, <2>1 DEF BelowCounter, StartEmpty, TypeOK, Id
  <2>3. base' < nextTransactionId'
    BY <1>c, <2>1 DEF IInv, Running
  <2>4. ActiveUnended'
    BY <1>t, <1>c, <2>1 DEF IInv, Running, ActiveUnended, TypeOK, Id
  <2>5. MarkersReady' /\ ReadyAborted' /\ FlushedCovered' /\ CheckpointTight'
    BY <2>1 DEF IInv, Running, MarkersReady, ReadyAborted, FlushedCovered, Covered,
                Checkpoint, CheckpointTight
  <2> QED
    BY <1>0, <2>2, <2>3, <2>4, <2>5 DEF IInv
<1>6. CASE NewTranc
  <2> DEFINE next == nextTransactionId
  <2>1. /\ UNCHANGED <<readyToFlushTrancIds, flushedTrancIds, trancIdFile, proc,
                       markers, base>>
        /\ next' = next + 1 /\ proc = "up"
        /\ activeTrans' = activeTrans \cup {next}
        /\ committed' = committed \ {next} /\ rolledBack' = rolledBack \ {next}
    BY <1>6 DEF NewTranc
  <2>2. base < next /\ ActiveUnended /\ MarkersReady /\ ReadyAborted /\ FlushedCovered
    BY <2>1 DEF IInv, Running
  <2>3. BelowCounter' /\ StartEmpty' /\ base' < next'
    BY <1>t, <1>c, <2>1, <2>2 DEF BelowCounter, StartEmpty, TypeOK, Id
  <2>4. ActiveUnended'
    BY <1>t, <1>c, <2>1, <2>2 DEF ActiveUnended, TypeOK, Id
  <2>5. MarkersReady'
    BY <1>t, <1>c, <2>1, <2>2 DEF MarkersReady, BelowCounter, TypeOK, Id
  <2>6. ReadyAborted'
    BY <1>t, <1>c, <2>1, <2>2 DEF ReadyAborted, BelowCounter, TypeOK, Id
  <2>7. FlushedCovered'
    <3>1. \A id \in Id : Covered(id) /\ id < next => Covered(id)'
      BY <1>c, <2>1 DEF Covered, Id
    <3>2. flushedTrancIds \subseteq Id /\ \A id \in flushedTrancIds : id < next
      BY <1>t DEF BelowCounter, TypeOK
    <3>3. \A id \in Id : id <= Checkpoint => id < next
      BY <1>c, <3>2 DEF Id
    <3>4. Checkpoint' = Checkpoint
      BY <2>1 DEF Checkpoint
    <3> QED
      BY <2>1, <2>2, <3>1, <3>2, <3>3, <3>4 DEF FlushedCovered
  <2>8. CheckpointTight'
    BY <2>1 DEF IInv, CheckpointTight, Checkpoint, Running
  <2> QED
    BY <1>0, <2>3, <2>4, <2>5, <2>6, <2>7, <2>8 DEF IInv
<1>7. ASSUME NEW id \in activeTrans, NEW state \in States, AddReadyToFlush(id, state)
      PROVE  IInv'
  <2>1. /\ UNCHANGED <<nextTransactionId, flushedTrancIds, trancIdFile, proc, base>>
        /\ proc = "up" /\ activeTrans' = activeTrans \ {id}
        /\ DOMAIN readyToFlushTrancIds' = DOMAIN readyToFlushTrancIds \cup {id}
        /\ \A i \in DOMAIN readyToFlushTrancIds :
              i # id => readyToFlushTrancIds'[i] = readyToFlushTrancIds[i]
        /\ readyToFlushTrancIds'[id] = state
    BY <1>7 DEF AddReadyToFlush, ActiveWithout
  <2>2. base < nextTransactionId /\ ActiveUnended /\ MarkersReady /\ ReadyAborted
        /\ FlushedCovered
    BY <2>1 DEF IInv, Running
  <2>3. /\ id < nextTransactionId /\ id > base /\ id \in Nat
        /\ id \notin committed \cup rolledBack /\ id \notin markers
    BY <1>t, <1>c, <2>2 DEF ActiveUnended, MarkersReady, TypeOK, Id
  <2>4. \/ /\ state = "OP_COMMITTED" /\ committed' = committed \cup {id}
           /\ rolledBack' = rolledBack /\ markers' = markers \cup {id}
        \/ /\ state = "ABORTED" /\ rolledBack' = rolledBack \cup {id}
           /\ committed' = committed /\ markers' = markers
    BY <1>7 DEF AddReadyToFlush, ActiveWithout, States
  <2>5. BelowCounter' /\ StartEmpty' /\ base' < nextTransactionId'
    BY <1>t, <2>1, <2>2, <2>3 DEF BelowCounter, StartEmpty
  <2>6. ActiveUnended'
    BY <2>1, <2>2, <2>4 DEF ActiveUnended
  <2>7. MarkersReady'
    BY <2>1, <2>2, <2>3, <2>4 DEF MarkersReady
  <2>8. ReadyAborted'
    BY <2>1, <2>2, <2>4 DEF ReadyAborted
  <2>9. FlushedCovered'
    <3>1. \A i \in Id : Covered(i) => i # id /\ Covered(i)'
      BY <1>c, <2>1, <2>3, <2>4 DEF Covered, Id
    <3>2. Checkpoint' = Checkpoint /\ flushedTrancIds \subseteq Id
      BY <1>t, <2>1 DEF Checkpoint, TypeOK
    <3> QED
      BY <2>1, <2>2, <3>1, <3>2 DEF FlushedCovered
  <2>10. CheckpointTight'
    BY <2>1 DEF IInv, CheckpointTight, Checkpoint, Running
  <2> QED
    BY <1>0, <2>5, <2>6, <2>7, <2>8, <2>9, <2>10 DEF IInv
<1>8. ASSUME NEW id \in markers, AddFlushed(id)
      PROVE  IInv'
  <2> DEFINE new == NewlySettled(id)
             all == flushedTrancIds \cup new
  <2>1. /\ UNCHANGED <<nextTransactionId, activeTrans, trancIdFile, proc, begun,
                       committed, rolledBack, base>>
        /\ proc = "up" /\ markers' = markers \ {id}
        /\ DOMAIN readyToFlushTrancIds' = DOMAIN readyToFlushTrancIds \ Settled(id)
        /\ \A i \in DOMAIN readyToFlushTrancIds' :
              readyToFlushTrancIds'[i] = readyToFlushTrancIds[i]
        /\ flushedTrancIds' = IF new = {} THEN flushedTrancIds ELSE Compress(all)
    BY <1>8 DEF AddFlushed, history
  <2>2. base < nextTransactionId /\ ActiveUnended /\ MarkersReady /\ ReadyAborted
        /\ FlushedCovered
    BY <2>1 DEF IInv, Running
  <2>3. all \subseteq 0..MaxId /\ all # {} /\ all \subseteq Nat
        /\ \A i \in all : i < nextTransactionId
    BY <1>t, <1>c DEF NewlySettled, Settled, TypeOK, Id, BelowCounter
  <2>4. \A i \in Id : Covered(i) => Covered(i)'
    BY <2>1 DEF Covered
  <2>5. \A i \in all : Covered(i)'
    <3>1. \A i \in Settled(id) : Covered(i)'
      BY <2>1, <2>2 DEF Settled, Covered, MarkersReady, ReadyAborted
    <3> QED
      BY <1>t, <2>2, <2>4, <3>1 DEF NewlySettled, FlushedCovered, TypeOK
  <2>6. flushedTrancIds' \subseteq all
    BY <2>1 DEF Compress
  <2>7. BelowCounter' /\ StartEmpty' /\ base' < nextTransactionId'
    BY <1>t, <2>1, <2>2, <2>3, <2>6 DEF BelowCounter, StartEmpty
  <2>8. ActiveUnended'
    BY <2>1, <2>2 DEF ActiveUnended
  <2>9. MarkersReady'
    BY <2>1, <2>2 DEF MarkersReady, Settled
  <2>10. ReadyAborted'
    BY <2>1, <2>2 DEF ReadyAborted
  <2>11. FlushedCovered'
    <3>1. \A i \in flushedTrancIds' : Covered(i)'
      BY <2>5, <2>6
    <3>2. CASE new = {}
      <4>1. Checkpoint' = Checkpoint
        BY <2>1, <3>2 DEF Checkpoint
      <4> QED
        BY <2>2, <2>4, <3>1, <4>1 DEF FlushedCovered
    <3>3. CASE new # {}
      <4>1. Checkpoint' = Min(Compress(all))
        BY <2>1, <3>3 DEF Checkpoint
      <4>2. Min(all) = Checkpoint
        <5>1. Min(all) \in all /\ \A y \in all : Min(all) <= y
          <6> HIDE DEF all
          <6> QED
            BY <2>3, MinNat
        <5>2. Min(all) <= Checkpoint /\ Min(all) \in Nat
          BY <1>c, <2>3, <5>1
        <5>3. \A y \in all : Checkpoint <= y
          BY <1>t, <1>c, CheckpointFacts DEF NewlySettled, Settled, TypeOK, Id
        <5>4. Checkpoint <= Min(all)
          <6> HIDE DEF all
          <6> QED
            BY <5>1, <5>3
        <5> HIDE DEF all
        <5> QED
          BY <1>c, <5>2, <5>4
      <4>3. Checkpoint..Checkpoint' \subseteq all
        <5> HIDE DEF all
        <5> QED
          BY <1>c, <2>3, <4>1, <4>2, CompressFacts
      <4>4. Checkpoint' \in Nat
        <5> HIDE DEF all
        <5>1. Compress(all) # {} /\ Compress(all) \subseteq all
          BY <1>c, <2>3, CompressFacts
        <5> QED
          BY <2>3, <4>1, <5>1, MinNat
      <4>5. ASSUME NEW i \in Id, i <= Checkpoint' PROVE Covered(i)'
        <5>1. CASE i <= Checkpoint
          BY <2>2, <2>4, <5>1 DEF FlushedCovered
        <5>2. CASE ~(i <= Checkpoint)
          <6>1. i \in Checkpoint..Checkpoint'
            BY <1>c, <4>4, <4>5, <5>2 DEF Id
          <6> QED
            BY <2>5, <4>3, <6>1
        <5> QED
          BY <5>1, <5>2
      <4> QED
        BY <3>1, <4>5 DEF FlushedCovered
    <3> QED
      BY <3>2, <3>3
  <2>12. CheckpointTight'
    <3>1. CASE new = {}
      BY <2>1, <3>1 DEF IInv, CheckpointTight, Checkpoint, Running
    <3>2. CASE new # {}
      <4>1. Checkpoint' = Min(Compress(all)) /\ flushedTrancIds' \subseteq all
        BY <2>1, <2>6, <3>2 DEF Checkpoint
      <4> HIDE DEF all
      <4>2. Min(Compress(all)) + 1 \notin all
        BY <1>c, <2>3, CompressFacts
      <4> QED
        BY <4>1, <4>2 DEF CheckpointTight
    <3> QED
      BY <3>1, <3>2
  <2> QED
    BY <1>0, <2>7, <2>8, <2>9, <2>10, <2>11, <2>12 DEF IInv
<1>9. ASSUME NEW after \in {"up", "down"}, SaveBegin(after)
      PROVE  IInv'
  BY <1>0, <1>9 DEF SaveBegin, memory, history, IInv, Running, BelowCounter, StartEmpty,
     ActiveUnended, MarkersReady, ReadyAborted, FlushedCovered, CheckpointTight, Covered, Checkpoint, Empty
<1>10. CASE SaveEnd
  BY <1>0, <1>10 DEF SaveEnd, AfterSave, SavedState, memory, history, IInv, Running,
     BelowCounter, StartEmpty, ActiveUnended, MarkersReady, ReadyAborted, FlushedCovered, CheckpointTight,
     Covered, Checkpoint
<1>11. CASE SaveFails
  BY <1>0, <1>11 DEF SaveFails, AfterSave, memory, history, IInv, Running, BelowCounter,
     StartEmpty, ActiveUnended, MarkersReady, ReadyAborted, FlushedCovered, CheckpointTight, Covered,
     Checkpoint
<1>12. CASE Crash
  BY <1>0, <1>12 DEF Crash, memory, history, IInv, Running, BelowCounter, StartEmpty
<1>13. CASE UNCHANGED vars
  BY <1>0, <1>13 DEF vars, memory, history, IInv, Running, BelowCounter, StartEmpty,
     ActiveUnended, MarkersReady, ReadyAborted, FlushedCovered, CheckpointTight, Covered, Checkpoint
<1> QED
  BY <1>1, <1>2, <1>3, <1>4, <1>5, <1>6, <1>7, <1>8, <1>9, <1>10, <1>11, <1>12,
     <1>13 DEF Next

-----------------------------------------------------------------------------
(* The saved file follows the flushed set.                                  *)

\* write_tranc_id_file and the restarts keep the saved file in step with the
\* flushed set; a crash inside the save leaves it empty or whole.
LEMMA NextFileInv == FileInv /\ [Next]_vars => FileInv'
<1> SUFFICES ASSUME FileInv, [Next]_vars PROVE FileInv'
  OBVIOUS
<1> USE DEF FileInv, Absent, Empty
<1>1. CASE StartFresh
  BY <1>1 DEF StartFresh
<1>2. CASE StartFromFile
  BY <1>2 DEF StartFromFile
<1>3. CASE StartFails
  BY <1>3 DEF StartFails, memory
<1>4. CASE InitNewWal
  BY <1>4 DEF InitNewWal
<1>5. CASE GetNextTransactionId
  BY <1>5 DEF GetNextTransactionId
<1>6. CASE NewTranc
  BY <1>6 DEF NewTranc
<1>7. CASE \E id \in activeTrans, state \in States : AddReadyToFlush(id, state)
  BY <1>7 DEF AddReadyToFlush
<1>8. CASE \E id \in markers : AddFlushed(id)
  BY <1>8 DEF AddFlushed
<1>9. CASE \E after \in {"up", "down"} : SaveBegin(after)
  BY <1>9 DEF SaveBegin
<1>10. CASE SaveEnd
  BY <1>10 DEF SaveEnd, SavedState, AfterSave, memory
<1>11. CASE SaveFails
  BY <1>11 DEF SaveFails, AfterSave, memory
<1>12. CASE Crash
  BY <1>12 DEF Crash, memory
<1>13. CASE UNCHANGED vars
  BY <1>13 DEF vars, memory, history
<1> QED
  BY <1>1, <1>2, <1>3, <1>4, <1>5, <1>6, <1>7, <1>8, <1>9, <1>10, <1>11, <1>12,
     <1>13 DEF Next

\* A step keeps the checkpoint or raises it, unless it restarts a process from
\* a file that a crash left behind.
LEMMA CheckpointStep ==
    ASSUME IInv, FileInv, [Next]_vars, proc # "down" \/ ~lost
    PROVE  Min(flushedTrancIds') >= Checkpoint
<1>t. TypeOK
  BY DEF IInv
<1>c. Checkpoint \in flushedTrancIds /\ Checkpoint \in Nat
      /\ \A y \in flushedTrancIds : Checkpoint <= y
  BY <1>t, CheckpointFacts, MaxIdAssumption DEF Id
<1>0. Min({0}) = 0
  <2>1. {0} \subseteq Nat /\ {0} # {}
    OBVIOUS
  <2>2. Min({0}) \in {0}
    BY <2>1, MinNat
  <2> QED
    BY <2>2
<1>1. CASE flushedTrancIds' = flushedTrancIds
  BY <1>1, <1>c DEF Checkpoint
<1>2. CASE StartFresh
  <2>1. flushedTrancIds = {0} /\ flushedTrancIds' = {0}
    BY <1>2 DEF StartFresh, FileInv
  <2> QED
    BY <2>1, <1>1
<1>3. CASE StartFromFile
  <2>1. flushedTrancIds' = flushedTrancIds
    BY <1>3 DEF StartFromFile, FileInv
  <2> QED
    BY <2>1, <1>1
<1>4. CASE InitNewWal
  <2>1. flushedTrancIds' = {nextTransactionId - 1} /\ nextTransactionId \in Nat \ {0}
    BY <1>4, <1>t, MaxIdAssumption DEF InitNewWal, FinishedAtStart, TypeOK
  <2>2. Checkpoint < nextTransactionId
    BY <1>c DEF IInv, BelowCounter
  <2>3. Min(flushedTrancIds') = nextTransactionId - 1
    <3>1. flushedTrancIds' \subseteq Nat /\ flushedTrancIds' # {}
      BY <2>1
    <3>2. Min(flushedTrancIds') \in flushedTrancIds'
      BY <3>1, MinNat
    <3> QED
      BY <2>1, <3>2
  <2> QED
    BY <1>c, <2>1, <2>2, <2>3
<1>5. ASSUME NEW id \in markers, AddFlushed(id)
      PROVE  Min(flushedTrancIds') >= Checkpoint
  <2> DEFINE all == flushedTrancIds \cup NewlySettled(id)
  <2>1. flushedTrancIds' = flushedTrancIds \/ flushedTrancIds' = Compress(all)
    BY <1>5 DEF AddFlushed
  <2>2. all \subseteq 0..MaxId /\ all # {}
    BY <1>t DEF NewlySettled, Settled, TypeOK, Id
  <2>3. \A y \in all : y \in Nat /\ Checkpoint <= y
    BY <1>c, <1>t, <2>2, MaxIdAssumption DEF NewlySettled
  <2> HIDE DEF all
  <2>4. Compress(all) # {} /\ Compress(all) \subseteq all
    BY <2>2, CompressFacts, MaxIdAssumption
  <2>5. Min(Compress(all)) \in Compress(all)
    BY <2>3, <2>4, MinNat
  <2>6. Min(Compress(all)) >= Checkpoint
    BY <1>c, <2>3, <2>4, <2>5
  <2> QED
    BY <1>1, <2>1, <2>6
<1>6. CASE \/ StartFails \/ GetNextTransactionId \/ NewTranc \/ SaveEnd \/ SaveFails
           \/ Crash \/ UNCHANGED vars
  BY <1>6, <1>1 DEF StartFails, GetNextTransactionId, NewTranc, SaveEnd, SaveFails,
                    Crash, vars, memory
<1>7. CASE \/ \E id \in activeTrans, state \in States : AddReadyToFlush(id, state)
           \/ \E after \in {"up", "down"} : SaveBegin(after)
  BY <1>7, <1>1 DEF AddReadyToFlush, SaveBegin, memory
<1> QED
  BY <1>2, <1>3, <1>4, <1>5, <1>6, <1>7 DEF Next

-----------------------------------------------------------------------------
(* What is remembered over saves and restarts.                              *)

\* Every action keeps what a restart will find: the ids, the skipped
\* transactions and the base of the run.
LEMMA NextRestartInv ==
    IInv /\ FileInv /\ RestartInv /\ [Next]_vars => RestartInv'
<1> SUFFICES ASSUME IInv, FileInv, RestartInv, [Next]_vars PROVE RestartInv'
  OBVIOUS
<1>t. /\ nextTransactionId \in Nat /\ begun \subseteq Nat
      /\ StartEmpty
  BY MaxIdAssumption DEF IInv, TypeOK, Id
<1> USE DEF RestartInv, Running, Remembers, Absent, Empty
<1>1. CASE StartFresh
  BY <1>1 DEF StartFresh, history
<1>2. CASE StartFromFile
  BY <1>2 DEF StartFromFile, history
<1>3. CASE StartFails
  BY <1>3 DEF StartFails, memory, history
<1>4. CASE InitNewWal
  BY <1>4 DEF InitNewWal
<1>5. CASE GetNextTransactionId
  <2>1. \A id \in begun : id < nextTransactionId => id < nextTransactionId + 1
    BY <1>t
  <2> QED
    BY <1>5, <2>1 DEF GetNextTransactionId, history
<1>6. CASE NewTranc
  <2>1. /\ proc = "up" /\ UNCHANGED <<proc, trancIdFile, lost, abortedTrancIds>>
        /\ nextTransactionId' = nextTransactionId + 1
        /\ activeTrans' = activeTrans \cup {nextTransactionId}
        /\ begun' = begun \cup {nextTransactionId}
        /\ committed' = committed \ {nextTransactionId}
        /\ rolledBack' = rolledBack \ {nextTransactionId}
    BY <1>6 DEF NewTranc
  <2>2. trancIdFile # Absent
    BY <2>1 DEF FileInv
  <2>3. ASSUME ~lost
        PROVE  Remembers(nextTransactionId, activeTrans \cup abortedTrancIds,
                         abortedTrancIds)'
    <3>1. \A id \in begun' : id < nextTransactionId'
      BY <1>t, <2>1, <2>3
    <3>2. begun' \ committed' \subseteq activeTrans' \cup abortedTrancIds'
      BY <2>1, <2>3
    <3> QED
      BY <2>1, <2>3, <3>1, <3>2
  <2> QED
    BY <2>1, <2>2, <2>3
<1>7. ASSUME NEW id \in activeTrans, NEW state \in States, AddReadyToFlush(id, state)
      PROVE  RestartInv'
  <2>1. trancIdFile # Absent /\ proc = "up"
        /\ UNCHANGED <<proc, trancIdFile, lost, nextTransactionId, begun>>
    BY <1>7 DEF AddReadyToFlush, FileInv
  <2>2. CASE state = "ABORTED"
    BY <1>7, <2>1, <2>2 DEF AddReadyToFlush, ActiveWithout
  <2>3. CASE state = "OP_COMMITTED"
    BY <1>7, <2>1, <2>3 DEF AddReadyToFlush, ActiveWithout
  <2> QED
    BY <2>2, <2>3 DEF States
<1>8. CASE \E id \in markers : AddFlushed(id)
  BY <1>8 DEF AddFlushed, history
<1>9. ASSUME NEW after \in {"up", "down"}, SaveBegin(after)
      PROVE  RestartInv'
  <2>1. /\ proc = "up" /\ trancIdFile' = Empty
        /\ proc' \in {"saving", "closing"}
        /\ UNCHANGED <<nextTransactionId, activeTrans, abortedTrancIds, begun,
                       committed, rolledBack>>
    BY <1>9 DEF SaveBegin, memory
  <2>2. ~lost' => ~lost
    BY <1>9, Zenon DEF SaveBegin
  <2>3. ~lost' /\ proc' = "closing" => activeTrans = {}
    BY <1>9 DEF SaveBegin
  <2> QED
    BY <2>1, <2>2, <2>3
<1>10. CASE SaveEnd
  BY <1>10 DEF SaveEnd, SavedState, AfterSave, memory, history
<1>11. CASE SaveFails
  BY <1>11 DEF SaveFails, AfterSave, memory, history, FileInv
<1>12. CASE Crash
  BY <1>12 DEF Crash, memory, FileInv
<1>13. CASE UNCHANGED vars
  BY <1>13 DEF vars, memory, history
<1> QED
  BY <1>1, <1>2, <1>3, <1>4, <1>5, <1>6, <1>7, <1>8, <1>9, <1>10, <1>11, <1>12,
     <1>13 DEF Next

\* Only init_new_wal opens a WAL, and no flushed id reaches the counter then.
LEMMA NextWalBelowBase ==
    IInv /\ WalBelowBase /\ [Next]_vars => WalBelowBase'
<1> SUFFICES ASSUME IInv, WalBelowBase, [Next]_vars PROVE WalBelowBase'
  OBVIOUS
<1> USE DEF WalBelowBase, Running
<1>1. CASE InitNewWal
  <2>1. flushedTrancIds \subseteq 0..MaxId /\ flushedTrancIds # {}
        /\ nextTransactionId \in Nat
        /\ \A id \in flushedTrancIds : id < nextTransactionId
    BY MaxIdAssumption DEF IInv, TypeOK, BelowCounter, Id
  <2>2. MaxFlushed \in flushedTrancIds
    BY <2>1, MaxBounded, MaxIdAssumption DEF MaxFlushed
  <2>3. MaxFlushed <= nextTransactionId - 1
    BY <2>1, <2>2
  <2> QED
    BY <1>1, <2>3 DEF InitNewWal, NewWalCheckpoint
<1>2. CASE StartFresh \/ StartFromFile \/ StartFails \/ Crash
  BY <1>2 DEF StartFresh, StartFromFile, StartFails, Crash
<1>3. CASE GetNextTransactionId \/ NewTranc
  BY <1>3 DEF GetNextTransactionId, NewTranc, history
<1>4. CASE \E id \in activeTrans, state \in States : AddReadyToFlush(id, state)
  BY <1>4 DEF AddReadyToFlush
<1>5. CASE \E id \in markers : AddFlushed(id)
  BY <1>5 DEF AddFlushed, history
<1>6. CASE \E after \in {"up", "down"} : SaveBegin(after)
  BY <1>6 DEF SaveBegin
<1>7. CASE SaveEnd \/ SaveFails
  BY <1>7 DEF SaveEnd, SaveFails, AfterSave, history
<1>8. CASE UNCHANGED vars
  BY <1>8 DEF vars, history
<1> QED
  BY <1>1, <1>2, <1>3, <1>4, <1>5, <1>6, <1>7, <1>8 DEF Next

-----------------------------------------------------------------------------
(* Theorems.                                                                *)

\* The inductive invariant holds of every execution.
THEOREM Invariance == Spec => []IInv
<1> QED
  BY InitIInv, NextIInv, PTL DEF Spec

\* Whatever the bound on ids and whichever faults occur, the containers of
\* TranManager and its state file stay well formed.
THEOREM TypeCorrect == Spec => []TypeOK
<1>1. IInv => TypeOK
  BY DEF IInv
<1> QED
  BY <1>1, Invariance, PTL

\* add_flushed_tranc_id and init_new_wal never let the checkpoint pass a
\* transaction that is unfinished or committed but not yet flushed.
THEOREM CheckpointSoundness == Spec => []CheckpointSound
<1>1. IInv => CheckpointSound
  BY MaxIdAssumption DEF IInv, CheckpointSound, FlushedCovered, Running, Id
<1> QED
  BY <1>1, Invariance, PTL

\* add_flushed_tranc_id for one transaction never settles another that
\* committed and whose own marker is still in memory.
THEOREM CommitsAwaitOwnFlush == Spec => []CommitAwaitsOwnFlush
<1>1. IInv => CommitAwaitsOwnFlush
  BY DEF IInv, CommitAwaitsOwnFlush, MarkersReady
<1> QED
  BY <1>1, Invariance, PTL

\* add_flushed_tranc_id never leaves a settled id right above the checkpoint.
THEOREM CheckpointIsTight == Spec => []CheckpointTight
<1>1. IInv => CheckpointTight
  BY DEF IInv, CheckpointTight
<1> QED
  BY <1>1, Invariance, PTL

\* Within a process, and over restarts that lost no save, the checkpoint that
\* add_flushed_tranc_id and init_new_wal maintain never moves back.
THEOREM CheckpointAdvances == Spec => CheckpointMonotone
<1>1. Init => FileInv
  BY DEF Init, FileInv, Absent
<1>2. IInv /\ FileInv /\ [Next]_vars =>
        [proc # "down" \/ ~lost => Min(flushedTrancIds') >= Checkpoint]_flushedTrancIds
  BY CheckpointStep
<1> QED
  BY <1>1, <1>2, Invariance, NextFileInv, PTL DEF Spec, CheckpointMonotone

\* Memory, and the file a clean close leaves, remember every transaction.
THEOREM Remembered == Spec => []RestartInv
<1>1. Init => FileInv /\ RestartInv
  BY DEF Init, FileInv, RestartInv, Running, Absent
<1> QED
  BY <1>1, Invariance, NextFileInv, NextRestartInv, PTL DEF Spec

\* new_tranc never hands out an id twice in the life of a database whose
\* processes all closed cleanly, however often its state file was saved.
THEOREM IdsUnique == Spec => []UniqueIds
<1>1. RestartInv => UniqueIds
  BY DEF RestartInv, UniqueIds, Remembers
<1> QED
  BY <1>1, Remembered, PTL

\* should_skip_read goes on rejecting the versions of transactions that rolled
\* back or never ended, through every save and clean restart.
THEOREM SkipsSurvive == Spec => []SkipsSurviveRestart
<1>1. RestartInv => SkipsSurviveRestart
  BY DEF RestartInv, SkipsSurviveRestart, Remembers, UnfinishedSkipped, ShouldSkipRead
<1> QED
  BY <1>1, Remembered, PTL

\* No transaction that logs to the WAL opened by init_new_wal has an id that
\* the checkpoint given to that WAL covers, even after a crash.
THEOREM WalBelowLive == Spec => []WalCheckpointBelowLive
<1>1. Init => WalBelowBase
  BY DEF Init, WalBelowBase, Running
<1>2. IInv /\ WalBelowBase => WalCheckpointBelowLive
  <2> SUFFICES ASSUME IInv, WalBelowBase, Running,
                      NEW id \in activeTrans \cup DOMAIN readyToFlushTrancIds,
                      id > base
               PROVE  id > walCheckpoint
    BY DEF WalCheckpointBelowLive
  <2>1. id \in Nat /\ base \in Nat /\ walCheckpoint \in Nat
    BY MaxIdAssumption DEF IInv, TypeOK, Id
  <2> QED
    BY <2>1 DEF WalBelowBase
<1> QED
  BY <1>1, <1>2, Invariance, NextWalBelowBase, PTL DEF Spec


-----------------------------------------------------------------------------
(* The shapes of the values each variable takes.                            *)

OpRecs == [op : {"CREATE", "COMMIT"}, key : {"marker"}, val : Vals]
            \cup [op : {"PUT", "DELETE"}, key : Keys, val : Vals]
Recs == [key : Keys \cup {"marker"}, ver : Tx, val : Vals]
Tables == Seq(SUBSET Recs)
Answers == [ver : Tx, val : Vals] \cup {None}
OpSeqs == Seq(OpRecs)
Pcs == {"none", "open", "writing", "logged", "committed", "aborted"}
Temps == [Keys -> Vals \cup {"unset"}]
Seens == [Keys -> Answers \cup {Unset}]
Contexts ==
    [level : Levels \cup {"none"}, pc : Pcs, ops : OpSeqs, written : Nat, temp : Temps,
     seen : Seens]
Reads ==
    {NoRead} \cup [ph : {"mem", "sst"}, key : Keys, todo : Tables, best : Answers,
                   ideal : SUBSET Answers]
Flushes ==
    {NoFlush, [ph |-> "locked"], [ph |-> "building"]}
      \cup [ph : {"built"}, table : SUBSET Recs]
      \cup [ph : {"reporting"}, ids : (SUBSET Tx) \ {{}}]

CtxShape == ctx \in [Tx -> Contexts]
RdShape == rd \in [Tx -> Reads]
TableShapes == cur \subseteq Recs /\ frozen \in Tables /\ ssts \in Tables
FlushShape == flush \in Flushes
WalShape == wal \in [Tx -> OpSeqs] /\ walFailed \in BOOLEAN

Shapes == CtxShape /\ RdShape /\ TableShapes /\ FlushShape /\ WalShape

-----------------------------------------------------------------------------
(* The parts of the inductive invariant.                                    *)

\* Contexts and manager agree on who is active, committed and rolled back.
CtxInv ==
    /\ proc = "up" /\ base = 0 /\ abortedTrancIds = rolledBack
    /\ committed \subseteq Tx /\ rolledBack \subseteq Tx
    /\ \A t \in Tx :
         /\ ctx[t].pc = "none" <=> t >= nextTransactionId
         /\ t \in activeTrans <=> ctx[t].pc \in {"open", "writing", "logged"}
         /\ t \in committed <=> ctx[t].pc = "committed"
         /\ t \in rolledBack <=> ctx[t].pc = "aborted"

\* What the locks ensure: one commit at a time, none beside a flush, and a
\* context that reads does nothing else.
LockInv ==
    /\ \A t \in Tx : ctx[t].pc = "logged" =>
         flush.ph = "idle" /\ \A u \in Tx : ctx[u].pc = "logged" => u = t
    /\ \A t \in Tx : rd[t].ph # "none" => ctx[t].pc = "open"
    /\ flush.ph = "building" => frozen # <<>>

InLog(t, k, v) == \E i \in DOMAIN wal[t] : wal[t][i].key = k /\ wal[t][i].val = v

\* Operation i of the sequence is the last one on its key up to n.
LastOn(ops, i, n) == \A j \in (i + 1)..n : ops[j].key # ops[i].key

\* Operations and staged values of a context.
Staging(c) == {k \in Keys : c.temp[k] # "unset"}
OpsOk(c) ==
    /\ c.pc = "none" => c.written = 0 /\ c.ops = <<>>
    /\ c.pc # "aborted" => c.written <= Len(c.ops)
    /\ c.pc \in {"writing", "logged", "committed"} => c.written = Len(c.ops)
    /\ c.pc = "writing" => c.ops # <<>> /\ Last(c.ops).key \in Keys /\ c.level = "RU"
    /\ c.level = "RU" => Staging(c) = {}
    /\ c.level # "RU" /\ c.pc # "aborted" => \A i \in DOMAIN c.ops :
         c.ops[i].key \in Keys =>
           /\ c.ops[i].key \in Staging(c)
           /\ LastOn(c.ops, i, Len(c.ops)) => c.ops[i].val = c.temp[c.ops[i].key]
    /\ \A k \in Staging(c) : \E i \in DOMAIN c.ops :
         c.ops[i].key = k /\ c.ops[i].val = c.temp[k]

OpsInv == \A t \in Tx : OpsOk(ctx[t])

\* A transaction the log holds completely: no file operation failed before its
\* last records were written.
Good(t) == ~walFailed \/ ctx[t].pc \in {"writing", "logged", "committed"}

\* What such a transaction has sent is what the log holds.
LogInv ==
    \A t \in Tx : Good(t) /\ ctx[t].pc # "aborted" =>
        /\ Len(wal[t]) = ctx[t].written
        /\ \A i \in 1..ctx[t].written : wal[t][i] = ctx[t].ops[i]

\* Until a file operation fails, a context that writes through has every write
\* in the log.
PendingInv ==
    \A t \in Tx : ~walFailed /\ ctx[t].level = "RU" /\ ctx[t].pc # "aborted" =>
        \A i \in DOMAIN ctx[t].ops : i > ctx[t].written => ctx[t].ops[i].key \notin Keys

\* A COMMIT record reaches the log only in an attempt that bars every other.
EndInv ==
    \A t \in Tx :
        /\ ctx[t].pc # "aborted" /\ Ends(wal[t]) => Ends(ctx[t].ops)
        /\ ctx[t].pc = "aborted" => ~Ends(wal[t])
        /\ ctx[t].pc \in {"logged", "committed"} => Ends(wal[t])

\* Every record is a marker of a committed transaction or was written by one
\* that committed or writes through, and a table has one record per version.
RecordsKnown ==
    \A i \in DOMAIN AllTables : \A r \in AllTables[i] :
        /\ r.key = "marker" => r.ver \in committed
        /\ r.ver \in committed \/ (~Strict(r.ver) /\ ctx[r.ver].pc # "none")
        /\ r.key # "marker" => InLog(r.ver, r.key, r.val)
        /\ \A s \in AllTables[i] : r.key = s.key /\ r.ver = s.ver => r = s

\* The marker of a committed transaction is in some table, and no record of
\* the transaction is in a newer one.
MarkerPlaced ==
    \A t \in committed : \E i \in DOMAIN AllTables : t \in MarkersOf(AllTables[i])
MarkerLast ==
    \A i, j \in DOMAIN AllTables : \A r \in AllTables[i], s \in AllTables[j] :
        r.key = "marker" /\ r.ver = s.ver => i <= j

Unflushed == Len(AllTables) - Len(ssts)

\* The markers that wait are those in memory and those being reported, which
\* are in the newest SST.
MarkerInv ==
    /\ \A t \in Tx : t \in markers <=>
         \/ \E i \in 1..Unflushed : t \in MarkersOf(AllTables[i])
         \/ flush.ph = "reporting" /\ t \in flush.ids
    /\ flush.ph = "reporting" => ssts # <<>> /\ flush.ids \subseteq MarkersOf(ssts[1])

\* The first table with a version of k by t, newest first, has value v.
Placed(k, t, v) ==
    \E i \in DOMAIN AllTables :
        /\ Rec(k, t, v) \in AllTables[i]
        /\ \A j \in 1..(i - 1) : \A r \in AllTables[j] : ~(r.key = k /\ r.ver = t)

\* How many of its log records a transaction has applied to the tables.
Done(t) ==
    IF Strict(t) /\ ctx[t].pc # "committed" THEN 0
    ELSE IF ctx[t].pc = "writing" THEN Len(wal[t]) - 1 ELSE Len(wal[t])

\* The last value logged and applied for a key is the one the tables show.
DataInv ==
    \A t \in Tx : Good(t) /\ ctx[t].pc # "aborted" => \A i \in 1..Done(t) :
        wal[t][i].key \in Keys /\ LastOn(wal[t], i, Done(t)) =>
            Placed(wal[t][i].key, t, wal[t][i].val)

\* A read has met only versions of transactions that exist, and a strict one
\* holds only a committed version.
ReadInv ==
    \A t \in Tx : rd[t].ph # "none" =>
        /\ Strict(t) /\ rd[t].best # None => rd[t].best.ver \in committed
        /\ \A i \in DOMAIN rd[t].todo : \A r \in rd[t].todo[i] : ctx[r.ver].pc # "none"
        /\ rd[t].todo # <<>> => Head(rd[t].todo) # {}

TInv ==
    /\ IInv /\ Shapes /\ CtxInv /\ LockInv /\ OpsInv /\ LogInv /\ PendingInv /\ EndInv
    /\ DataInv /\ RecordsKnown /\ MarkerPlaced /\ MarkerLast /\ MarkerInv /\ ReadInv

-----------------------------------------------------------------------------
(* What a lookup returns.                                                   *)

Eligible(table, k, cap, skip) == {r \in Versions(table, k, cap) : r.ver \notin skip}

\* Newest picks a record of the largest version.
LEMMA NewestFacts ==
    ASSUME NEW S, S \subseteq Recs, S # {}
    PROVE  Newest(S) \in S /\ \A x \in S : x.ver <= Newest(S).ver
<1> DEFINE V == {r.ver : r \in S}
<1>1. V \subseteq 0..MaxId /\ V # {} /\ MaxId \in Nat
  BY MaxIdAssumption DEF Recs, Tx
<1>2. Max(V) \in V /\ \A y \in V : y <= Max(V)
  <2> HIDE DEF V
  <2> QED
    BY <1>1, MaxBounded
<1>3. \E r \in S : \A x \in S : x.ver <= r.ver
  BY <1>2
<1> QED
  BY <1>3 DEF Newest

\* One table answers with its largest eligible version, if it has any.
LEMMA LookupFacts ==
    ASSUME NEW table, table \subseteq Recs, NEW k, NEW cap, NEW skip
    PROVE  \/ /\ Eligible(table, k, cap, skip) = {}
              /\ Lookup(table, k, cap, skip) = None
           \/ \E r \in Eligible(table, k, cap, skip) :
                /\ Lookup(table, k, cap, skip) = Result(r)
                /\ Lookup(table, k, cap, skip) # None
                /\ \A x \in Eligible(table, k, cap, skip) : x.ver <= r.ver
<1> DEFINE E == Eligible(table, k, cap, skip)
<1>1. E \subseteq Recs
  BY DEF Eligible, Versions
<1>2. Lookup(table, k, cap, skip) = IF E = {} THEN None ELSE Result(Newest(E))
  BY DEF Lookup, Eligible
<1>3. CASE E = {}
  BY <1>2, <1>3
<1>4. CASE E # {}
  <2>1. Newest(E) \in E /\ \A x \in E : x.ver <= Newest(E).ver
    <3> HIDE DEF E
    <3> QED
      BY <1>1, <1>4, NewestFacts
  <2>2. Newest(E).ver \in 1..MaxId
    BY <1>1, <2>1 DEF Recs, Tx
  <2>3. Result(Newest(E)) # None
    BY <2>2, MaxIdAssumption DEF Result, None
  <2> QED
    BY <1>2, <1>4, <2>1, <2>3
<1> QED
  BY <1>3, <1>4

\* Several tables answer with the largest eligible version of all, taken from
\* the first table that has it.
LEMMA LookupAllFacts ==
    ASSUME NEW tables \in Tables, NEW k, NEW cap, NEW skip
    PROVE  \/ /\ \A i \in DOMAIN tables : Eligible(tables[i], k, cap, skip) = {}
              /\ LookupAll(tables, k, cap, skip) = None
           \/ \E i \in DOMAIN tables : \E r \in Eligible(tables[i], k, cap, skip) :
                /\ LookupAll(tables, k, cap, skip) = Result(r)
                /\ LookupAll(tables, k, cap, skip) # None
                /\ \A j \in DOMAIN tables : \A x \in Eligible(tables[j], k, cap, skip) :
                      x.ver <= r.ver /\ (j < i => x.ver < r.ver)
<1> DEFINE E(i) == Eligible(tables[i], k, cap, skip)
           found == [i \in DOMAIN tables |-> Lookup(tables[i], k, cap, skip)]
           hits == {i \in DOMAIN tables : found[i] # None}
           first(i) == \A j \in hits : \/ found[j].ver < found[i].ver
                                       \/ found[j].ver = found[i].ver /\ i <= j
<1>0. DOMAIN tables \subseteq Nat /\ \A i \in DOMAIN tables : tables[i] \subseteq Recs
  BY DEF Tables
<1>1. ASSUME NEW i \in DOMAIN tables
      PROVE  \/ E(i) = {} /\ found[i] = None
             \/ \E r \in E(i) : /\ found[i] = Result(r) /\ found[i] # None
                                /\ \A x \in E(i) : x.ver <= r.ver
  <2>1. tables[i] \subseteq Recs
    BY <1>0
  <2>2. found[i] = Lookup(tables[i], k, cap, skip)
    OBVIOUS
  <2> QED
    BY <2>1, <2>2, LookupFacts
<1>2. LookupAll(tables, k, cap, skip) =
        IF hits = {} THEN None ELSE found[CHOOSE i \in hits : first(i)]
  BY DEF LookupAll
<1>3. \A i \in hits : found[i].ver \in 1..MaxId
  <2> SUFFICES ASSUME NEW i \in hits PROVE found[i].ver \in 1..MaxId
    OBVIOUS
  <2>1. i \in DOMAIN tables /\ found[i] # None
    OBVIOUS
  <2>2. PICK r \in E(i) : found[i] = Result(r)
    BY <1>1, <2>1
  <2>3. r.ver \in 1..MaxId
    BY <1>0, <2>1 DEF Eligible, Versions, Recs, Tx
  <2>4. found[i].ver = r.ver
    <3> HIDE DEF found
    <3> QED
      BY <2>2 DEF Result
  <2> QED
    BY <2>3, <2>4
<1>4. CASE hits = {}
  <2>1. \A i \in DOMAIN tables : E(i) = {}
    BY <1>1, <1>4
  <2> QED
    BY <1>2, <1>4, <2>1
<1>5. CASE hits # {}
  <2> DEFINE V == {found[i].ver : i \in hits}
             B == {i \in hits : found[i].ver = Max(V)}
  <2>1. V \subseteq 0..MaxId /\ V # {} /\ MaxId \in Nat
    <3> HIDE DEF hits, found
    <3> QED
      BY <1>3, <1>5, MaxIdAssumption
  <2>2. Max(V) \in V /\ \A y \in V : y <= Max(V)
    <3> HIDE DEF V
    <3> QED
      BY <2>1, MaxBounded
  <2>3. B \subseteq Nat /\ B # {}
    BY <1>0, <2>2
  <2>4. PICK i \in B : \A j \in B : i <= j
    <3> HIDE DEF B
    <3> QED
      BY <2>3, MinNat
  <2>5. i \in hits /\ first(i)
    <3>1. ASSUME NEW j \in hits
          PROVE  \/ found[j].ver < found[i].ver
                 \/ found[j].ver = found[i].ver /\ i <= j
      <4>1. found[j].ver <= Max(V) /\ found[i].ver = Max(V)
        BY <2>2, <2>4
      <4>2. found[j].ver \in Nat /\ found[i].ver \in Nat
        BY <1>3, MaxIdAssumption
      <4>3. found[j].ver = found[i].ver => j \in B
        BY <4>1
      <4> QED
        BY <4>1, <4>2, <4>3, <2>4
    <3> QED
      BY <3>1
  <2>6. PICK c \in hits : c = (CHOOSE x \in hits : first(x)) /\ first(c)
    BY <2>5
  <2>7. LookupAll(tables, k, cap, skip) = found[c] /\ c \in DOMAIN tables
    BY <1>2, <1>5, <2>6
  <2>8. PICK r \in E(c) : /\ found[c] = Result(r) /\ found[c] # None
                          /\ \A x \in E(c) : x.ver <= r.ver
    BY <1>1, <2>6, <2>7
  <2>9. ASSUME NEW j \in DOMAIN tables, NEW x \in E(j)
        PROVE  x.ver <= r.ver /\ (j < c => x.ver < r.ver)
    <3>1. PICK y \in E(j) : /\ found[j] = Result(y) /\ found[j] # None
                            /\ x.ver <= y.ver
      BY <1>1
    <3>2. j \in hits
      BY <3>1
    <3>3. \/ found[j].ver < found[c].ver
          \/ found[j].ver = found[c].ver /\ c <= j
      BY <2>6, <3>2
    <3>4. found[j].ver = y.ver /\ found[c].ver = r.ver
      <4> HIDE DEF found
      <4> QED
        BY <2>8, <3>1 DEF Result
    <3>5. x.ver \in Nat /\ y.ver \in Nat /\ r.ver \in Nat /\ j \in Nat /\ c \in Nat
      BY <1>0, <2>7, MaxIdAssumption DEF Eligible, Versions, Recs, Tx
    <3> HIDE DEF found, E, hits, first
    <3> QED
      BY <3>1, <3>3, <3>4, <3>5
  <2> QED
    BY <2>7, <2>8, <2>9
<1> QED
  BY <1>4, <1>5

-----------------------------------------------------------------------------
(* Every step of the contexts is one of the manager's, or leaves it alone,  *)
(* so that what is proved of the manager holds here as well.                *)

\* The engine's first state, a fresh manager that is up, satisfies the
\* manager's invariant.
LEMMA TInitIInv == TInit => IInv
<1> SUFFICES ASSUME TInit PROVE IInv
  OBVIOUS
<1>1. TypeOK
  BY MaxIdAssumption DEF TInit, TypeOK, Id, States, Empty
<1>2. Checkpoint = 0
  <2>1. flushedTrancIds = {0}
    BY DEF TInit
  <2> QED
    BY <1>1, <2>1, CheckpointFacts
<1>3. BelowCounter /\ StartEmpty
  BY DEF TInit, BelowCounter, StartEmpty, Empty
<1>4. ActiveUnended /\ MarkersReady /\ ReadyAborted
  BY DEF TInit, ActiveUnended, MarkersReady, ReadyAborted
<1>5. FlushedCovered /\ CheckpointTight /\ base < nextTransactionId
  BY <1>2 DEF TInit, FlushedCovered, CheckpointTight, Covered, Id
<1> QED
  BY <1>1, <1>3, <1>4, <1>5 DEF IInv

\* An engine step calls one operation of the manager or none: begin_tran calls
\* new_tranc, commit and abort add_ready_to_flush_tranc_id, the end of a flush
\* add_flushed_tranc_id.
LEMMA ManagerStep == [TNext]_tvars => [Next]_vars
<1> SUFFICES ASSUME [TNext]_tvars PROVE [Next]_vars
  OBVIOUS
<1>1. ASSUME NEW level \in Levels, Begin(level) PROVE Next
  BY <1>1 DEF Begin, Next
<1>2. ASSUME NEW t \in Tx, CommitConflict(t) PROVE Next
  BY <1>2 DEF CommitConflict, AddReadyToFlush, Next, States
<1>3. ASSUME NEW t \in Tx, CommitApply(t) PROVE Next
  BY <1>3 DEF CommitApply, AddReadyToFlush, Next, States
<1>4. ASSUME NEW t \in Tx, Abort(t) PROVE Next
  BY <1>4 DEF Abort, AddReadyToFlush, Next, States
<1>5. CASE FlushReport
  <2>1. AddFlushed(Max(flush.ids)) /\ Max(flush.ids) \in markers
    BY <1>5 DEF FlushReport, AddFlushed
  <2> QED
    BY <2>1 DEF Next
<1>6. CASE FlushLock \/ FlushNothing \/ FlushPick \/ FlushFails \/ FlushBuilt
           \/ FlushRegister
  BY <1>6 DEF FlushLock, FlushNothing, FlushPick, FlushFails, FlushBuilt, FlushRegister
<1>7. ASSUME NEW t \in Tx,
             \/ \E k \in Keys, v \in Vals : StageWrite(t, k, v) \/ LogWrite(t, k, v)
             \/ ApplyWrite(t) \/ CommitLog(t)
             \/ \E k \in Keys : ReadMem(t, k)
             \/ ReadSsts(t) \/ ReadVersion(t) \/ ReadReturn(t)
      PROVE  UNCHANGED vars
  BY <1>7 DEF StageWrite, LogWrite, ApplyWrite, CommitLog, ReadMem, ReadSsts,
              ReadVersion, ReadReturn
<1>8. CASE UNCHANGED tvars
  BY <1>8 DEF tvars
<1> QED
  BY <1>1, <1>2, <1>3, <1>4, <1>5, <1>6, <1>7, <1>8 DEF TNext, FlushStep

\* The invariant of the manager holds while contexts, flushes and failures of
\* the log drive it, so its checkpoint is sound for the engine as well.
THEOREM ManagerInvariance == TSpec => []IInv
<1> QED
  BY TInitIInv, ManagerStep, NextIInv, PTL DEF TSpec

-----------------------------------------------------------------------------
(* What each action leaves alone.                                           *)

\* A step that leaves the manager alone leaves each of its variables alone.
LEMMA ManagerFrame ==
    UNCHANGED vars =>
        /\ UNCHANGED <<nextTransactionId, activeTrans, readyToFlushTrancIds, flushedTrancIds>>
        /\ UNCHANGED <<abortedTrancIds, walCheckpoint, trancIdFile, proc, markers>>
        /\ UNCHANGED <<begun, committed, rolledBack, base, lost>>
BY DEF vars, memory, history

\* begin_tran touches neither the tables, nor the log, nor a read.
LEMMA BeginFrame ==
    ASSUME NEW level, Begin(level)
    PROVE  /\ UNCHANGED <<rd, cur, frozen, ssts, flush, wal, walFailed>>
           /\ UNCHANGED <<abortedTrancIds, proc, markers, base>>
<1>1. UNCHANGED <<rd, storage, log>> /\ NewTranc
  BY DEF Begin
<1> QED
  BY <1>1 DEF storage, mem, log, NewTranc

\* put and remove touch the context only, when staged; the log, when not; and
\* then the memtable.
LEMMA WriteFrame ==
    ASSUME NEW t, NEW k, NEW v
    PROVE  /\ StageWrite(t, k, v) =>
                UNCHANGED <<vars, rd, cur, frozen, ssts, flush, wal, walFailed>>
           /\ LogWrite(t, k, v) => UNCHANGED <<vars, rd, cur, frozen, ssts, flush>>
           /\ ApplyWrite(t) => UNCHANGED <<vars, rd, ssts, flush, wal, walFailed>>
<1>1. StageWrite(t, k, v) => UNCHANGED <<vars, rd, storage, log>>
  BY DEF StageWrite
<1>2. LogWrite(t, k, v) => UNCHANGED <<vars, rd, storage>>
  BY DEF LogWrite
<1>3. ApplyWrite(t) => UNCHANGED <<vars, rd, ssts, flush, log>>
  BY DEF ApplyWrite
<1> QED
  BY <1>1, <1>2, <1>3 DEF storage, mem, log

\* A read changes no table and no log; only its last step changes a context.
LEMMA ReadFrame ==
    ASSUME NEW t, NEW k
    PROVE  /\ ReadMem(t, k) \/ ReadSsts(t) \/ ReadVersion(t) =>
                UNCHANGED <<vars, ctx, cur, frozen, ssts, flush, wal, walFailed>>
           /\ ReadReturn(t) =>
                UNCHANGED <<vars, cur, frozen, ssts, flush, wal, walFailed>>
<1>1. ReadMem(t, k) => UNCHANGED <<vars, ctx, storage, log>>
  BY DEF ReadMem
<1>2. ReadSsts(t) => UNCHANGED <<vars, ctx, storage, log>>
  BY DEF ReadSsts
<1>3. ReadVersion(t) => UNCHANGED <<vars, ctx, storage, log>>
  BY DEF ReadVersion
<1>4. ReadReturn(t) => UNCHANGED <<vars, storage, log>>
  BY DEF ReadReturn
<1> QED
  BY <1>1, <1>2, <1>3, <1>4 DEF storage, mem, log

\* A conflict and an abort leave tables and log alone, the COMMIT record only
\* the tables, the apply only the log and the SSTs.
LEMMA EndFrame ==
    ASSUME NEW t
    PROVE  /\ CommitConflict(t) \/ Abort(t) =>
                UNCHANGED <<rd, cur, frozen, ssts, flush, wal, walFailed>>
           /\ CommitLog(t) => UNCHANGED <<vars, rd, cur, frozen, ssts, flush>>
           /\ CommitApply(t) => UNCHANGED <<ssts, flush, wal, walFailed>>
<1>1. CommitConflict(t) => UNCHANGED <<rd, storage, log>>
  BY DEF CommitConflict
<1>2. Abort(t) => UNCHANGED <<rd, storage, log>>
  BY DEF Abort
<1>3. CommitLog(t) => UNCHANGED <<vars, rd, storage>>
  BY DEF CommitLog
<1>4. CommitApply(t) => UNCHANGED <<ssts, flush, log>>
  BY DEF CommitApply
<1> QED
  BY <1>1, <1>2, <1>3, <1>4 DEF storage, mem, log

\* No step of LSMEngine::flush touches a context, a read or the log, and each
\* touches only its part of the tables.
LEMMA FlushFrame ==
    /\ FlushLock \/ FlushStep => UNCHANGED <<ctx, rd, wal, walFailed>>
    /\ FlushLock \/ FlushNothing \/ FlushRegister => UNCHANGED <<vars, cur, frozen>>
    /\ FlushPick \/ FlushFails \/ FlushBuilt => UNCHANGED <<vars, ssts>>
    /\ FlushLock \/ FlushNothing => UNCHANGED ssts
    /\ FlushFails => UNCHANGED <<cur, frozen>>
    /\ FlushBuilt => UNCHANGED cur
    /\ FlushReport => UNCHANGED <<cur, frozen, ssts>>
BY DEF FlushStep, FlushLock, FlushNothing, FlushPick, FlushFails, FlushBuilt, FlushRegister,
       FlushReport, KeptOnFailure, mem, log

\* Stuttering changes nothing.
LEMMA TvarsFrame ==
    UNCHANGED tvars =>
        UNCHANGED <<vars, ctx, rd, cur, frozen, ssts, flush, wal, walFailed>>
BY DEF tvars, mem, log

-----------------------------------------------------------------------------
(* The shapes are preserved.                                                *)

\* A context before its begin, with nothing staged, read or logged, has the
\* right shape.
LEMMA EmptyContext ==
    /\ NoContext \in Contexts /\ NoContext.temp \in Temps /\ NoContext.seen \in Seens
    /\ <<>> \in OpSeqs /\ <<>> \in Tables
BY DEF NoContext, Contexts, Unset, Pcs, OpSeqs, Temps, Seens, Tables

\* An engine that has just been opened has the right shapes.
LEMMA InitShapes == TInit => Shapes
<1> SUFFICES ASSUME TInit PROVE Shapes
  OBVIOUS
<1>1. CtxShape /\ WalShape
  BY EmptyContext DEF TInit, CtxShape, WalShape
<1>2. RdShape /\ FlushShape
  BY DEF TInit, RdShape, FlushShape, Reads, Flushes
<1>3. TableShapes
  BY EmptyContext DEF TInit, TableShapes
<1> QED
  BY <1>1, <1>2, <1>3 DEF Shapes

\* What a context logs is a sequence of operations, and so is what appending,
\* joining and cutting make of it.
LEMMA OpBasics ==
    ASSUME NEW ops \in OpSeqs
    PROVE  /\ Len(ops) \in Nat /\ DOMAIN ops = 1..Len(ops)
           /\ \A i \in DOMAIN ops : ops[i] \in OpRecs
BY SeqBasics DEF OpSeqs

\* A context appends an operation.
LEMMA AppendOp ==
    ASSUME NEW ops \in OpSeqs, NEW o \in OpRecs
    PROVE  /\ Len(ops) \in Nat /\ DOMAIN ops = 1..Len(ops)
           /\ Append(ops, o) \in OpSeqs /\ Len(Append(ops, o)) = Len(ops) + 1
           /\ DOMAIN Append(ops, o) = 1..(Len(ops) + 1)
           /\ Append(ops, o)[Len(ops) + 1] = o
           /\ \A i \in DOMAIN ops : Append(ops, o)[i] = ops[i]
<1>1. /\ Append(ops, o) \in OpSeqs /\ Len(Append(ops, o)) = Len(ops) + 1
      /\ Append(ops, o)[Len(ops) + 1] = o
      /\ \A i \in DOMAIN ops : Append(ops, o)[i] = ops[i]
  BY AppendFacts DEF OpSeqs
<1> QED
  BY <1>1, OpBasics

\* The log appends a batch of operations.
LEMMA JoinOps ==
    ASSUME NEW ops \in OpSeqs, NEW o \in OpSeqs
    PROVE  /\ ops \o o \in OpSeqs /\ Len(ops \o o) = Len(ops) + Len(o)
           /\ \A i \in DOMAIN ops : (ops \o o)[i] = ops[i]
           /\ \A i \in DOMAIN o : (ops \o o)[Len(ops) + i] = o[i]
BY ConcatFacts DEF OpSeqs

\* A batch is part of the operations.
LEMMA CutOps ==
    ASSUME NEW ops \in OpSeqs, NEW m \in Nat, NEW n \in 0..Len(ops)
    PROVE  /\ SubSeq(ops, m + 1, n) \in OpSeqs
           /\ Len(SubSeq(ops, m + 1, n)) = IF m < n THEN n - m ELSE 0
           /\ \A i \in 1..(n - m) : SubSeq(ops, m + 1, n)[i] = ops[m + i]
BY CutFacts DEF OpSeqs

\* The memtable's queue and the list of SSTs are sequences of tables.
LEMMA TableBasics ==
    ASSUME NEW s \in Tables
    PROVE  /\ Len(s) \in Nat /\ DOMAIN s = 1..Len(s) /\ (s # <<>> <=> Len(s) > 0)
           /\ \A i \in DOMAIN s : s[i] \subseteq Recs
BY SeqBasics DEF Tables

\* Freezing a table and registering an SST put it in front.
LEMMA PushTable ==
    ASSUME NEW s \in Tables, NEW T \in SUBSET Recs
    PROVE  /\ <<T>> \o s \in Tables /\ Len(<<T>> \o s) = Len(s) + 1
           /\ (<<T>> \o s)[1] = T
           /\ \A i \in DOMAIN s : (<<T>> \o s)[i + 1] = s[i]
<1>1. PICK S : S = SUBSET Recs
  OBVIOUS
<1>2. s \in Seq(S) /\ T \in S
  BY <1>1 DEF Tables
<1>3. /\ <<T>> \o s \in Seq(S) /\ Len(<<T>> \o s) = Len(s) + 1
      /\ (<<T>> \o s)[1] = T /\ \A i \in DOMAIN s : (<<T>> \o s)[i + 1] = s[i]
  BY <1>2, PushFacts
<1> QED
  BY <1>1, <1>3 DEF Tables

\* A search joins the queue and the SSTs.
LEMMA JoinTables ==
    ASSUME NEW s \in Tables, NEW u \in Tables
    PROVE  /\ s \o u \in Tables /\ Len(s \o u) = Len(s) + Len(u)
           /\ \A i \in DOMAIN s : (s \o u)[i] = s[i]
           /\ \A i \in DOMAIN u : (s \o u)[Len(s) + i] = u[i]
BY ConcatFacts DEF Tables

\* A flush takes the last table of the queue.
LEMMA TableEnds ==
    ASSUME NEW s \in Tables, s # <<>>
    PROVE  /\ Last(s) = s[Len(s)] /\ Last(s) \subseteq Recs /\ Head(s) = s[1]
           /\ Front(s) \in Tables /\ Len(Front(s)) = Len(s) - 1
           /\ \A i \in DOMAIN Front(s) : Front(s)[i] = s[i]
           /\ Tail(s) \in Tables /\ Len(Tail(s)) = Len(s) - 1
           /\ \A i \in DOMAIN Tail(s) : Tail(s)[i] = s[i + 1]
<1>1. Len(s) \in Nat /\ Len(s) > 0 /\ DOMAIN s = 1..Len(s)
      /\ \A i \in DOMAIN s : s[i] \subseteq Recs
  BY TableBasics
<1>2. Len(s) \in DOMAIN s
  BY <1>1
<1>3. /\ Last(s) = s[Len(s)] /\ Head(s) = s[1]
      /\ Front(s) \in Tables /\ Len(Front(s)) = Len(s) - 1
      /\ \A i \in DOMAIN Front(s) : Front(s)[i] = s[i]
      /\ Tail(s) \in Tables /\ Len(Tail(s)) = Len(s) - 1
      /\ \A i \in DOMAIN Tail(s) : Tail(s)[i] = s[i + 1]
  BY EndFacts DEF Tables
<1> QED
  BY <1>1, <1>2, <1>3

\* The operation appended by a write, and by a commit.
LEMMA OpFacts ==
    /\ \A k \in Keys, v \in Vals : WriteOp(k, v) \in OpRecs
    /\ Op("COMMIT", "marker", "val") \in OpRecs /\ Op("CREATE", "marker", "val") \in OpRecs
BY DEF WriteOp, Op, OpRecs, Vals

\* What write_to_wal leaves in the log, also when it fails half-way, is a
\* sequence of records.
LEMMA WalStep == Shapes /\ [TNext]_tvars => WalShape'
<1> SUFFICES ASSUME Shapes, [TNext]_tvars PROVE WalShape'
  OBVIOUS
<1>s. CtxShape /\ WalShape
  BY DEF Shapes
<1>1. ASSUME NEW t \in Tx, NEW ops \in OpSeqs, Persist(t, ops) \/ PersistFails(t, ops)
      PROVE  WalShape'
  <2>1. ctx[t].written \in Nat /\ wal[t] \in OpSeqs
    BY <1>s DEF CtxShape, Contexts, WalShape
  <2>2. Pending(t, ops) \in OpSeqs
    <3>1. Len(ops) \in 0..Len(ops)
      BY OpBasics
    <3> QED
      BY <2>1, <3>1, CutOps DEF Pending
  <2>3. \A n \in 0..Len(Pending(t, ops)) : SubSeq(Pending(t, ops), 1, n) \in OpSeqs
    <3>1. 0 \in Nat /\ 0 + 1 = 1
      OBVIOUS
    <3> QED
      BY <2>2, <3>1, CutOps
  <2>4. CASE Persist(t, ops)
    <3>1. wal[t] \o Pending(t, ops) \in OpSeqs
      BY <2>1, <2>2, JoinOps
    <3> QED
      BY <1>s, <2>4, <3>1 DEF Persist, WalShape
  <2>5. CASE PersistFails(t, ops)
    <3>1. PICK n \in 0..Len(Pending(t, ops)) :
            wal' = [wal EXCEPT ![t] = @ \o SubSeq(Pending(t, ops), 1, n)]
      BY <2>5 DEF PersistFails
    <3>2. wal[t] \o SubSeq(Pending(t, ops), 1, n) \in OpSeqs
      BY <2>1, <2>3, JoinOps
    <3> QED
      BY <1>s, <2>5, <3>1, <3>2 DEF PersistFails, WalShape
  <2> QED
    BY <1>1, <2>4, <2>5
<1>2. ASSUME NEW t \in Tx, NEW k \in Keys, NEW v \in Vals, LogWrite(t, k, v)
      PROVE  WalShape'
  <2> DEFINE ops == Append(ctx[t].ops, WriteOp(k, v))
  <2>1. ops \in OpSeqs
    BY <1>s, OpFacts, AppendOp DEF CtxShape, Contexts
  <2>2. Persist(t, ops) \/ PersistFails(t, ops)
    BY <1>2 DEF LogWrite
  <2> HIDE DEF ops
  <2> QED
    BY <1>1, <2>1, <2>2
<1>3. ASSUME NEW t \in Tx, CommitLog(t) PROVE WalShape'
  <2> DEFINE ops == Append(ctx[t].ops, Op("COMMIT", "marker", "val"))
  <2>1. ops \in OpSeqs
    BY <1>s, OpFacts, AppendOp DEF CtxShape, Contexts
  <2>2. Persist(t, ops) \/ PersistFails(t, ops)
    BY <1>3 DEF CommitLog
  <2> HIDE DEF ops
  <2> QED
    BY <1>1, <2>1, <2>2
<1>4. ASSUME NEW t \in Tx,
             \/ \E k \in Keys, v \in Vals : StageWrite(t, k, v)
             \/ ApplyWrite(t) \/ (\E k \in Keys : ReadMem(t, k))
             \/ ReadSsts(t) \/ ReadVersion(t) \/ ReadReturn(t)
             \/ CommitConflict(t) \/ CommitApply(t) \/ Abort(t)
      PROVE  UNCHANGED <<wal, walFailed>>
  BY <1>4 DEF StageWrite, ApplyWrite, ReadMem, ReadSsts, ReadVersion, ReadReturn,
              CommitConflict, CommitApply, Abort, log
<1>5. CASE (\E level \in Levels : Begin(level)) \/ FlushLock \/ FlushStep \/ UNCHANGED tvars
  <2>1. UNCHANGED <<wal, walFailed>>
    BY <1>5 DEF Begin, FlushLock, FlushStep, FlushNothing, FlushPick, FlushFails,
                FlushBuilt, FlushRegister, FlushReport, log, tvars
  <2> QED
    BY <1>s, <2>1 DEF WalShape
<1> QED
  BY <1>s, <1>2, <1>3, <1>4, <1>5 DEF TNext, WalShape

\* Replacing one context by another keeps the shape.
LEMMA CtxUpdate ==
    ASSUME CtxShape, NEW t \in Tx, NEW c \in Contexts, ctx' = [ctx EXCEPT ![t] = c]
    PROVE  CtxShape'
BY DEF CtxShape

\* begin, put, remove, get, commit and abort keep the contexts well-formed.
LEMMA CtxStep == TypeOK /\ Shapes /\ [TNext]_tvars => CtxShape'
<1> SUFFICES ASSUME TypeOK, Shapes, [TNext]_tvars PROVE CtxShape'
  OBVIOUS
<1>s. CtxShape /\ RdShape
  BY DEF Shapes
<1> USE DEF CtxShape
<1>1. ASSUME NEW level \in Levels, Begin(level) PROVE CtxShape'
  <2>1. nextTransactionId \in Tx
    BY <1>1, MaxIdAssumption DEF Begin, NewTranc, TypeOK, Tx
  <2>2. <<Op("CREATE", "marker", "val")>> \in OpSeqs
    BY OpFacts DEF OpSeqs
  <2>3. [NoContext EXCEPT !.level = level, !.pc = "open",
                          !.ops = <<Op("CREATE", "marker", "val")>>] \in Contexts
    BY <2>2, EmptyContext DEF Contexts, Pcs
  <2> QED
    BY <1>s, <1>1, <2>1, <2>3 DEF Begin
<1>2. ASSUME NEW t \in Tx, NEW k \in Keys, NEW v \in Vals,
             StageWrite(t, k, v) \/ LogWrite(t, k, v)
      PROVE  CtxShape'
  <2> DEFINE ops == Append(ctx[t].ops, WriteOp(k, v))
  <2>1. ops \in OpSeqs /\ Len(ops) \in Nat
    BY <1>s, OpFacts, AppendOp DEF Contexts
  <2>2. CASE StageWrite(t, k, v)
    <3>1. ctx' = [ctx EXCEPT ![t].ops = ops, ![t].temp[k] = v]
      BY <2>2 DEF StageWrite
    <3> HIDE DEF ops
    <3> QED
      BY ZenonT(40), <1>s, <2>1, <3>1 DEF Contexts, Temps
  <2>3. CASE LogWrite(t, k, v)
    <3>1. \/ ctx' = [ctx EXCEPT ![t].ops = ops, ![t].written = Len(ops), ![t].pc = "writing"]
          \/ ctx' = [ctx EXCEPT ![t].ops = ops]
      BY <2>3 DEF LogWrite
    <3> HIDE DEF ops
    <3> QED
      BY SMTT(20), <1>s, <2>1, <3>1 DEF Contexts, Pcs
  <2> QED
    BY <1>2, <2>2, <2>3
<1>3. ASSUME NEW t \in Tx, ApplyWrite(t) \/ CommitConflict(t) \/ CommitApply(t)
      PROVE  CtxShape'
  BY <1>s, <1>3 DEF ApplyWrite, CommitConflict, CommitApply, Contexts, Pcs
<1>4. ASSUME NEW t \in Tx, CommitLog(t) PROVE CtxShape'
  <2> DEFINE ops == Append(ctx[t].ops, Op("COMMIT", "marker", "val"))
  <2>1. ops \in OpSeqs /\ Len(ops) \in Nat
    BY <1>s, OpFacts, AppendOp DEF Contexts
  <2>2. \/ ctx' = [ctx EXCEPT ![t].ops = ops, ![t].written = Len(ops), ![t].pc = "logged"]
        \/ ctx' = [ctx EXCEPT ![t].ops = ops]
    BY <1>4 DEF CommitLog
  <2> HIDE DEF ops
  <2> DEFINE c == [ctx[t] EXCEPT !.ops = ops]
             d == [c EXCEPT !.written = Len(ops), !.pc = "logged"]
  <2>3. c \in Contexts /\ d \in Contexts
    BY <1>s, <2>1 DEF Contexts, Pcs
  <2>4. ctx' = [ctx EXCEPT ![t] = c] \/ ctx' = [ctx EXCEPT ![t] = d]
    BY <2>2
  <2> HIDE DEF c, d
  <2> QED
    BY <1>s, <2>3, <2>4, CtxUpdate
<1>5. ASSUME NEW t \in Tx, Abort(t) PROVE CtxShape'
  <2>1. ctx' = [ctx EXCEPT ![t].pc = "aborted", ![t].ops = <<>>,
                           ![t].temp = NoContext.temp, ![t].seen = NoContext.seen]
    BY <1>5 DEF Abort
  <2> DEFINE c == [ctx[t] EXCEPT !.pc = "aborted", !.ops = <<>>,
                                 !.temp = NoContext.temp, !.seen = NoContext.seen]
  <2>2. c \in Contexts
    BY <1>s, EmptyContext DEF Contexts, Pcs
  <2>3. ctx' = [ctx EXCEPT ![t] = c]
    BY <2>1
  <2> HIDE DEF c
  <2> QED
    BY <1>s, <2>2, <2>3, CtxUpdate
<1>6. ASSUME NEW t \in Tx, ReadReturn(t) PROVE CtxShape'
  <2>1. rd[t].key \in Keys /\ rd[t].best \in Answers
    <3>1. rd[t] \in Reads /\ rd[t] # NoRead
      BY <1>s, <1>6 DEF ReadReturn, RdShape, NoRead
    <3> QED
      BY <3>1 DEF Reads
  <2>2. Shown(rd[t].best) \in Answers
    BY <2>1 DEF Shown, Answers
  <2>3. ctx' = ctx \/ ctx' = [ctx EXCEPT ![t].seen[rd[t].key] = Shown(rd[t].best)]
    BY <1>6 DEF ReadReturn
  <2> DEFINE key == rd[t].key
             answer == Shown(rd[t].best)
  <2> HIDE DEF key, answer
  <2>4. key \in Keys /\ answer \in Answers /\ answer \in Answers \cup {Unset}
    BY <2>1, <2>2 DEF key, answer
  <2>5. ctx' = ctx \/ ctx' = [ctx EXCEPT ![t].seen[key] = answer]
    BY <2>3 DEF key, answer
  <2> DEFINE c == [ctx[t] EXCEPT !.seen = [@ EXCEPT ![key] = answer]]
  <2>6. c \in Contexts
    <3>1. ctx[t] \in Contexts /\ ctx[t].seen \in Seens
      BY <1>s DEF Contexts
    <3>2. [ctx[t].seen EXCEPT ![key] = answer] \in Seens
      BY <2>4, <3>1 DEF Seens
    <3> QED
      BY <3>1, <3>2 DEF Contexts
  <2>7. ctx' = ctx \/ ctx' = [ctx EXCEPT ![t] = c]
    BY <2>5
  <2> HIDE DEF c
  <2> QED
    BY <1>s, <2>6, <2>7, CtxUpdate
<1>7. ASSUME NEW t \in Tx, (\E k \in Keys : ReadMem(t, k)) \/ ReadSsts(t) \/ ReadVersion(t)
      PROVE  CtxShape'
  BY <1>s, <1>7 DEF ReadMem, ReadSsts, ReadVersion
<1>8. CASE FlushLock \/ FlushStep \/ UNCHANGED tvars
  BY <1>s, <1>8 DEF FlushLock, FlushStep, FlushNothing, FlushPick, FlushFails, FlushBuilt,
                    FlushRegister, FlushReport, tvars
<1> QED
  BY <1>1, <1>2, <1>3, <1>4, <1>5, <1>6, <1>7, <1>8 DEF TNext

\* The answer of a lookup is an answer.
LEMMA LookupType ==
    ASSUME NEW tables \in Tables, NEW k, NEW cap, NEW skip
    PROVE  /\ LookupAll(tables, k, cap, skip) \in Answers
           /\ Shown(LookupAll(tables, k, cap, skip)) \in Answers
<1> DEFINE a == LookupAll(tables, k, cap, skip)
<1>1. a \in Answers
  <2>1. CASE a = None
    BY <2>1 DEF Answers
  <2>2. CASE a # None
    <3>1. PICK i \in DOMAIN tables : \E r \in Eligible(tables[i], k, cap, skip) : a = Result(r)
      BY <2>2, LookupAllFacts
    <3>r. PICK r \in Eligible(tables[i], k, cap, skip) : a = Result(r)
      BY <3>1
    <3>2. r \in Recs
      BY <3>1, TableBasics DEF Eligible, Versions
    <3> HIDE DEF a
    <3> QED
      BY <3>r, <3>2 DEF Result, Answers, Recs
  <2> QED
    BY <2>1, <2>2
<1> HIDE DEF a
<1>2. Shown(a) \in Answers
  BY <1>1 DEF Shown, Answers
<1> QED
  BY <1>1, <1>2 DEF a

\* The tables a reader could meet form a sequence of tables: the active one is
\* first, the frozen ones follow, then the one being built and the SSTs.
LEMMA AllTablesShape ==
    ASSUME TableShapes, FlushShape
    PROVE  /\ MemTables \in Tables /\ AllTables \in Tables
           /\ AllTables = <<cur>> \o Tail(AllTables)
           /\ Tail(AllTables) \in Tables /\ MemTables \o ssts \in Tables
<1>1. /\ MemTables \in Tables /\ Len(MemTables) = Len(frozen) + 1
      /\ MemTables[1] = cur
  BY PushTable DEF TableShapes, MemTables
<1> DEFINE B == IF flush.ph = "built" THEN <<flush.table>> ELSE <<>>
<1>2. B \in Tables
  <2>1. flush.ph = "built" => flush.table \in SUBSET Recs
    BY DEF FlushShape, Flushes, NoFlush
  <2>2. CASE flush.ph = "built"
    <3>1. flush.table \in SUBSET Recs
      BY <2>1, <2>2
    <3>2. <<flush.table>> \in Seq(SUBSET Recs)
      BY <3>1
    <3> QED
      BY <2>2, <3>2 DEF Tables
  <2>3. CASE flush.ph # "built"
    BY <2>3, EmptyContext
  <2> QED
    BY <2>2, <2>3
<1>3. MemTables \o B \in Tables /\ Len(MemTables \o B) = Len(MemTables) + Len(B)
      /\ (MemTables \o B)[1] = cur
  <2>1. 1 \in DOMAIN MemTables
    BY <1>1, TableBasics DEF TableShapes
  <2> HIDE DEF B
  <2> QED
    BY <1>1, <1>2, <2>1, TableBasics, JoinTables
<1>4. AllTables \in Tables /\ Len(AllTables) > 0 /\ AllTables[1] = cur
  <2>1. AllTables = (MemTables \o B) \o ssts
    BY DEF AllTables
  <2>2. Len(MemTables \o B) > 0 /\ Len(ssts) \in Nat /\ 1 \in DOMAIN (MemTables \o B)
    <3> HIDE DEF B
    <3> QED
      BY <1>1, <1>2, <1>3, TableBasics DEF TableShapes
  <2> DEFINE A == MemTables \o B
  <2>3. A \in Tables /\ Len(A) > 0 /\ 1 \in DOMAIN A /\ A[1] = cur /\ ssts \in Tables
        /\ AllTables = A \o ssts /\ Len(A) \in Nat /\ Len(ssts) \in Nat
    BY <1>3, <2>1, <2>2, TableBasics DEF TableShapes
  <2> HIDE DEF A
  <2>4. A \o ssts \in Tables /\ Len(A \o ssts) = Len(A) + Len(ssts) /\ (A \o ssts)[1] = A[1]
    BY <2>3, JoinTables
  <2> QED
    BY <2>3, <2>4
<1>5. AllTables = <<cur>> \o Tail(AllTables) /\ Tail(AllTables) \in Tables
  <2>1. AllTables \in Seq(SUBSET Recs) /\ AllTables # <<>>
    BY <1>4, TableBasics DEF Tables
  <2>2. AllTables = <<Head(AllTables)>> \o Tail(AllTables)
    BY <2>1
  <2>3. Head(AllTables) = cur /\ Tail(AllTables) \in Tables
    BY <1>4, <2>1, TableEnds
  <2> QED
    BY <2>2, <2>3
<1>6. MemTables \o ssts \in Tables
  BY <1>1, JoinTables DEF TableShapes
<1> QED
  BY <1>1, <1>4, <1>5, <1>6

\* FromNextHit drops only tables without versions of the key.
LEMMA FromNextHitFacts ==
    ASSUME NEW todo \in Tables
    PROVE  /\ FromNextHit(todo) \in Tables
           /\ FromNextHit(todo) # <<>> => Head(FromNextHit(todo)) # {}
           /\ \A i \in DOMAIN FromNextHit(todo) : \E j \in DOMAIN todo :
                FromNextHit(todo)[i] = todo[j]
           /\ \A j \in DOMAIN todo : todo[j] # {} =>
                \E i \in DOMAIN FromNextHit(todo) : FromNextHit(todo)[i] = todo[j]
<1> DEFINE hits == {i \in DOMAIN todo : todo[i] # {}}
<1>0. DOMAIN todo = 1..Len(todo) /\ Len(todo) \in Nat
  BY TableBasics
<1>1. CASE hits = {}
  <2>1. FromNextHit(todo) = <<>>
    BY <1>1 DEF FromNextHit
  <2>2. \A j \in DOMAIN todo : todo[j] = {}
    BY <1>1
  <2>3. DOMAIN FromNextHit(todo) = {} /\ FromNextHit(todo) \in Tables
    BY <2>1, EmptyContext
  <2> HIDE DEF hits
  <2> QED
    BY <2>1, <2>2, <2>3
<1>2. CASE hits # {}
  <2> DEFINE m == Min(hits)
  <2>1. m \in hits /\ \A j \in hits : m <= j
    <3>1. hits \subseteq Nat
      BY <1>0
    <3> HIDE DEF hits
    <3> QED
      BY <1>2, <3>1, MinNat
  <2>2. FromNextHit(todo) = SubSeq(todo, m, Len(todo))
    BY <1>2 DEF FromNextHit
  <2>3. m \in 1..Len(todo) /\ todo[m] # {}
    BY <1>0, <2>1
  <2> HIDE DEF m
  <2> DEFINE n == m - 1
  <2>4. n \in Nat /\ m = n + 1 /\ n < Len(todo) /\ Len(todo) \in 0..Len(todo)
    BY <1>0, <2>3
  <2> HIDE DEF n
  <2>5. /\ SubSeq(todo, n + 1, Len(todo)) \in Tables
        /\ Len(SubSeq(todo, n + 1, Len(todo))) = Len(todo) - n
        /\ \A i \in 1..(Len(todo) - n) : SubSeq(todo, n + 1, Len(todo))[i] = todo[n + i]
    BY <2>4, CutFacts DEF Tables
  <2>6. FromNextHit(todo) = SubSeq(todo, n + 1, Len(todo))
    BY <2>2, <2>4
  <2>7. \A i \in 1..(Len(todo) - n) : n + i \in DOMAIN todo
    BY <1>0, <2>4
  <2>8. DOMAIN FromNextHit(todo) = 1..(Len(todo) - n) /\ 1 \in 1..(Len(todo) - n)
    <3>1. Len(FromNextHit(todo)) = Len(todo) - n /\ FromNextHit(todo) \in Tables
      BY <2>5, <2>6
    <3>2. DOMAIN FromNextHit(todo) = 1..Len(FromNextHit(todo))
      BY <3>1, TableBasics
    <3> QED
      BY <1>0, <2>4, <3>1, <3>2
  <2>9. Head(FromNextHit(todo)) = FromNextHit(todo)[1]
    OBVIOUS
  <2>10. ASSUME NEW j \in DOMAIN todo, todo[j] # {}
         PROVE  \E i \in DOMAIN FromNextHit(todo) : FromNextHit(todo)[i] = todo[j]
    <3>1. m <= j /\ j \in 1..Len(todo)
      BY <1>0, <2>1, <2>10 DEF m
    <3> DEFINE i == j - n
    <3>2. i \in 1..(Len(todo) - n) /\ n + i = j
      BY <1>0, <2>4, <3>1
    <3> HIDE DEF i
    <3> QED
      BY <2>5, <2>6, <2>8, <3>2
  <2>11. FromNextHit(todo) \in Tables /\ Head(FromNextHit(todo)) # {}
    BY <2>3, <2>4, <2>5, <2>6, <2>8, <2>9
  <2>12. \A i \in DOMAIN FromNextHit(todo) : \E j \in DOMAIN todo :
            FromNextHit(todo)[i] = todo[j]
    BY <2>5, <2>6, <2>7, <2>8
  <2> HIDE DEF hits
  <2> QED
    BY <2>10, <2>11, <2>12
<1> QED
  BY <1>1, <1>2

\* What a commit leaves in the active table, and what a write does.
LEMMA StoredShape ==
    ASSUME TypeOK, Shapes, NEW t \in Tx
    PROVE  /\ Applied(t) \subseteq Recs
           /\ ctx[t].ops # <<>> => PutRec(cur, Rec(Last(ctx[t].ops).key, t,
                                                  Last(ctx[t].ops).val)) \subseteq Recs
<1>1. ctx[t] \in Contexts /\ cur \subseteq Recs
  BY DEF Shapes, CtxShape, TableShapes
<1>2. ASSUME NEW k \in Writes(t) PROVE Rec(k, t, ctx[t].temp[k]) \in Recs
  <2>1. k \in Keys /\ ctx[t].temp \in Temps /\ ctx[t].temp[k] # "unset"
    BY <1>1 DEF Writes, Contexts
  <2> QED
    BY <2>1 DEF Rec, Recs, Temps
<1>3. Rec("marker", t, "del") \in Recs
  BY DEF Rec, Recs, Vals
<1>4. Applied(t) \subseteq Recs
  BY <1>1, <1>2, <1>3 DEF Applied
<1>5. ASSUME ctx[t].ops # <<>>
      PROVE  PutRec(cur, Rec(Last(ctx[t].ops).key, t, Last(ctx[t].ops).val)) \subseteq Recs
  <2>1. ctx[t].ops \in Seq(OpRecs)
    BY <1>1 DEF Contexts, OpSeqs
  <2>2. Last(ctx[t].ops) \in OpRecs
    <3> DEFINE ops == ctx[t].ops
    <3>1. ops \in Seq(OpRecs) /\ ops # <<>>
      BY <1>5, <2>1
    <3> HIDE DEF ops
    <3>2. Last(ops) = ops[Len(ops)]
      BY <3>1, EndFacts
    <3>3. Len(ops) \in DOMAIN ops /\ \A i \in DOMAIN ops : ops[i] \in OpRecs
      BY <3>1, SeqBasics
    <3>4. Last(ops) \in OpRecs
      BY <3>2, <3>3
    <3> QED
      BY <3>4 DEF ops
  <2>3. Rec(Last(ctx[t].ops).key, t, Last(ctx[t].ops).val) \in Recs
    BY <2>2 DEF Rec, Recs, OpRecs
  <2> QED
    BY <1>1, <2>3 DEF PutRec
<1> QED
  BY <1>4, <1>5

\* A record reaches the current table by put_ or by the batch of a commit, and
\* moves on to the frozen tables and the SSTs only whole, table by table.
LEMMA TablesStep ==
    TypeOK /\ Shapes /\ LockInv /\ OpsInv /\ [TNext]_tvars => TableShapes'
<1> SUFFICES ASSUME TypeOK, Shapes, LockInv, OpsInv, [TNext]_tvars PROVE TableShapes'
  OBVIOUS
<1>s. cur \subseteq Recs /\ frozen \in Tables /\ ssts \in Tables /\ FlushShape
  BY DEF Shapes, TableShapes
<1>f. ASSUME NEW T \in SUBSET Recs PROVE <<T>> \o frozen \in Tables
  BY <1>s, PushTable
<1>1. ASSUME NEW t \in Tx, ApplyWrite(t) PROVE TableShapes'
  <2> DEFINE T == PutRec(cur, Rec(Last(ctx[t].ops).key, t, Last(ctx[t].ops).val))
  <2>1. T \subseteq Recs
    BY <1>1, StoredShape DEF ApplyWrite, OpsInv, OpsOk
  <2>2. (cur' = T /\ frozen' = frozen) \/ (cur' = {} /\ frozen' = <<T>> \o frozen)
    BY <1>1 DEF ApplyWrite, StoreCur, Freeze
  <2>3. ssts' = ssts
    BY <1>1 DEF ApplyWrite
  <2> HIDE DEF T
  <2> QED
    BY <1>s, <1>f, <2>1, <2>2, <2>3 DEF TableShapes
<1>2. ASSUME NEW t \in Tx, CommitApply(t) PROVE TableShapes'
  <2>1. Applied(t) \subseteq Recs
    BY StoredShape
  <2>2. \/ cur' = Applied(t) /\ frozen' = frozen
        \/ cur' = {} /\ frozen' = <<Applied(t)>> \o frozen
    BY <1>2 DEF CommitApply, Freeze
  <2>3. ssts' = ssts
    BY <1>2 DEF CommitApply
  <2> QED
    BY <1>s, <1>f, <2>1, <2>2, <2>3 DEF TableShapes
<1>3. CASE FlushPick
  <2>1. \/ cur' = cur /\ frozen' = frozen
        \/ cur' = {} /\ frozen' = <<cur>> \o frozen
    BY <1>3 DEF FlushPick, Freeze, mem
  <2>2. ssts' = ssts
    BY <1>3 DEF FlushPick
  <2> QED
    BY <1>s, <1>f, <2>1, <2>2 DEF TableShapes
<1>4. CASE FlushBuilt
  <2>1. frozen # <<>>
    BY <1>4 DEF FlushBuilt, LockInv
  <2>2. Front(frozen) \in Tables
    BY <1>s, <2>1, TableEnds
  <2> QED
    BY <1>s, <1>4, <2>2 DEF FlushBuilt, Oldest, TableShapes
<1>5. CASE FlushRegister
  <2>1. flush.table \in SUBSET Recs
    BY <1>s, <1>5 DEF FlushRegister, FlushShape, Flushes, NoFlush
  <2>2. <<flush.table>> \o ssts \in Tables
    BY <1>s, <2>1, PushTable
  <2> QED
    BY <1>s, <1>5, <2>2 DEF FlushRegister, TableShapes, mem
<1>6. CASE FlushFails
  BY <1>s, <1>6 DEF FlushFails, KeptOnFailure, TableShapes
<1>7. CASE FlushLock \/ FlushNothing \/ FlushReport \/ UNCHANGED tvars
  BY <1>s, <1>7 DEF FlushLock, FlushNothing, FlushReport, tvars, mem, TableShapes
<1>8. CASE \E level \in Levels : Begin(level)
  BY <1>s, <1>8 DEF Begin, storage, mem, TableShapes
<1>9. ASSUME NEW t \in Tx,
             \/ \E k \in Keys, v \in Vals : StageWrite(t, k, v) \/ LogWrite(t, k, v)
             \/ (\E k \in Keys : ReadMem(t, k))
             \/ ReadSsts(t) \/ ReadVersion(t) \/ ReadReturn(t)
             \/ CommitConflict(t) \/ CommitLog(t) \/ Abort(t)
      PROVE  TableShapes'
  <2>1. UNCHANGED <<cur, frozen, ssts>>
    BY <1>9, WriteFrame, ReadFrame, EndFrame
  <2> QED
    BY <1>s, <2>1 DEF TableShapes
<1> QED
  BY <1>1, <1>2, <1>3, <1>4, <1>5, <1>6, <1>7, <1>8, <1>9 DEF TNext, FlushStep

\* The flusher carries a whole table from its pick to its registration.
LEMMA FlushShapeStep ==
    TypeOK /\ Shapes /\ LockInv /\ [TNext]_tvars => FlushShape'
<1> SUFFICES ASSUME TypeOK, Shapes, LockInv, [TNext]_tvars PROVE FlushShape'
  OBVIOUS
<1>s. cur \subseteq Recs /\ frozen \in Tables /\ ssts \in Tables /\ FlushShape
  BY DEF Shapes, TableShapes
<1>1. CASE FlushLock \/ FlushNothing \/ FlushPick \/ FlushFails
  BY <1>1 DEF FlushLock, FlushNothing, FlushPick, FlushFails, FlushShape, Flushes
<1>2. CASE FlushBuilt
  <2>1. frozen # <<>>
    BY <1>2 DEF FlushBuilt, LockInv
  <2>2. Last(frozen) \in SUBSET Recs
    BY <1>s, <2>1, TableEnds
  <2>3. flush' = [ph |-> "built", table |-> Last(frozen)]
    BY <1>2 DEF FlushBuilt, Oldest
  <2> QED
    BY <2>2, <2>3 DEF FlushShape, Flushes
<1>3. ASSUME NEW ids \in SUBSET Tx, flush' = Reporting(ids) PROVE FlushShape'
  BY <1>3 DEF Reporting, FlushShape, Flushes
<1>4. CASE FlushRegister
  <2>1. flush.table \in SUBSET Recs
    BY <1>s, <1>4 DEF FlushRegister, FlushShape, Flushes, NoFlush
  <2>2. MarkersOf(flush.table) \in SUBSET Tx
    BY <2>1 DEF MarkersOf, Recs
  <2> QED
    BY <1>3, <1>4, <2>2 DEF FlushRegister
<1>5. CASE FlushReport
  <2>1. flush.ids \in SUBSET Tx
    BY <1>s, <1>5 DEF FlushReport, FlushShape, Flushes, NoFlush
  <2>2. flush.ids \ {Max(flush.ids)} \in SUBSET Tx
    BY <2>1
  <2> QED
    BY <1>3, <1>5, <2>2 DEF FlushReport
<1>6. CASE (\E level \in Levels : Begin(level)) \/ UNCHANGED tvars
  <2>1. flush' = flush
    BY <1>6, BeginFrame, TvarsFrame
  <2> QED
    BY <1>s, <2>1 DEF FlushShape
<1>7. ASSUME NEW t \in Tx,
             \/ \E k \in Keys, v \in Vals : StageWrite(t, k, v) \/ LogWrite(t, k, v)
             \/ (\E k \in Keys : ReadMem(t, k)) \/ ApplyWrite(t) \/ CommitApply(t)
             \/ ReadSsts(t) \/ ReadVersion(t) \/ ReadReturn(t)
             \/ CommitConflict(t) \/ CommitLog(t) \/ Abort(t)
      PROVE  FlushShape'
  <2>1. flush' = flush
    BY <1>7, WriteFrame, ReadFrame, EndFrame
  <2> QED
    BY <1>s, <2>1 DEF FlushShape
<1> QED
  BY <1>1, <1>2, <1>4, <1>5, <1>6, <1>7 DEF TNext, FlushStep

-----------------------------------------------------------------------------
(* What each action does to the contexts, field by field.                   *)

Others(t) == \A u \in Tx : u # t => ctx'[u] = ctx[u]

\* begin_tran: a new context of the given level, whose only record is CREATE.
LEMMA BeginFields ==
    ASSUME TypeOK, CtxShape, NEW level \in Levels, Begin(level)
    PROVE  LET t == nextTransactionId IN
           /\ t \in Tx /\ Others(t)
           /\ ctx'[t].level = level /\ ctx'[t].pc = "open"
           /\ ctx'[t].ops = <<Op("CREATE", "marker", "val")>> /\ ctx'[t].written = 0
           /\ ctx'[t].temp = NoContext.temp /\ ctx'[t].seen = NoContext.seen
<1>1. nextTransactionId \in Tx
  BY MaxIdAssumption DEF Begin, NewTranc, TypeOK, Tx
<1>2. ctx' = [ctx EXCEPT ![nextTransactionId] =
                [NoContext EXCEPT !.level = level, !.pc = "open",
                                  !.ops = <<Op("CREATE", "marker", "val")>>]]
  BY DEF Begin
<1>3. NoContext \in Contexts /\ NoContext.written = 0
  BY EmptyContext DEF NoContext
<1> QED
  BY <1>1, <1>2, <1>3 DEF CtxShape, Others, Contexts

\* put of a staging transaction: one more operation, the value kept in temp_map_.
LEMMA StageFields ==
    ASSUME CtxShape, NEW t \in Tx, NEW k \in Keys, NEW v \in Vals, StageWrite(t, k, v)
    PROVE  /\ Others(t) /\ ctx[t].pc = "open" /\ Strict(t) /\ rd[t].ph = "none"
           /\ ctx'[t].level = ctx[t].level /\ ctx'[t].pc = ctx[t].pc
           /\ ctx'[t].ops = Append(ctx[t].ops, WriteOp(k, v))
           /\ ctx'[t].written = ctx[t].written
           /\ ctx'[t].temp = [ctx[t].temp EXCEPT ![k] = v] /\ ctx'[t].seen = ctx[t].seen
<1>1. /\ ctx' = [ctx EXCEPT ![t].ops = Append(@, WriteOp(k, v)), ![t].temp[k] = v]
      /\ ctx[t].pc = "open" /\ Strict(t) /\ rd[t].ph = "none"
  BY DEF StageWrite, CanWrite, Usable
<1> QED
  BY <1>1 DEF CtxShape, Others, Contexts

\* put of a read-uncommitted transaction: the operation is logged first, and a
\* failed append leaves the transaction open with it in its list.
LEMMA LogWriteFields ==
    ASSUME CtxShape, NEW t \in Tx, NEW k \in Keys, NEW v \in Vals, LogWrite(t, k, v)
    PROVE  LET ops == Append(ctx[t].ops, WriteOp(k, v)) IN
           /\ Others(t) /\ ctx[t].pc = "open" /\ ~Strict(t) /\ rd[t].ph = "none"
           /\ ctx'[t].level = ctx[t].level /\ ctx'[t].ops = ops
           /\ ctx'[t].temp = ctx[t].temp /\ ctx'[t].seen = ctx[t].seen
           /\ \/ Persist(t, ops) /\ ctx'[t].pc = "writing" /\ ctx'[t].written = Len(ops)
              \/ PersistFails(t, ops) /\ ctx'[t].pc = "open"
                 /\ ctx'[t].written = ctx[t].written
<1> DEFINE ops == Append(ctx[t].ops, WriteOp(k, v))
<1>1. /\ ctx[t].pc = "open" /\ ~Strict(t) /\ rd[t].ph = "none"
      /\ \/ Persist(t, ops)
            /\ ctx' = [ctx EXCEPT ![t].ops = ops, ![t].written = Len(ops), ![t].pc = "writing"]
         \/ PersistFails(t, ops) /\ ctx' = [ctx EXCEPT ![t].ops = ops]
  BY DEF LogWrite, CanWrite, Usable
<1> HIDE DEF ops
<1>2. /\ Others(t) /\ ctx'[t].level = ctx[t].level /\ ctx'[t].ops = ops
      /\ ctx'[t].temp = ctx[t].temp /\ ctx'[t].seen = ctx[t].seen
      /\ \/ Persist(t, ops) /\ ctx'[t].pc = "writing" /\ ctx'[t].written = Len(ops)
         \/ PersistFails(t, ops) /\ ctx'[t].pc = "open" /\ ctx'[t].written = ctx[t].written
  BY <1>1 DEF CtxShape, Others, Contexts
<1> QED
  BY <1>1, <1>2 DEF ops

\* A step that only changes the program counter of a context.
LEMMA PcFields ==
    ASSUME CtxShape, NEW t \in Tx, NEW pc, ctx' = [ctx EXCEPT ![t].pc = pc]
    PROVE  /\ Others(t)
           /\ ctx'[t].level = ctx[t].level /\ ctx'[t].pc = pc /\ ctx'[t].ops = ctx[t].ops
           /\ ctx'[t].written = ctx[t].written /\ ctx'[t].temp = ctx[t].temp
           /\ ctx'[t].seen = ctx[t].seen
BY DEF CtxShape, Others, Contexts

\* The validation failure of commit: the context is aborted, the rest is kept.
LEMMA ConflictFields ==
    ASSUME CtxShape, NEW t \in Tx, CommitConflict(t)
    PROVE  /\ Others(t) /\ Endable(t) /\ ctx'[t].level = ctx[t].level
           /\ ctx'[t].pc = "aborted" /\ ctx'[t].ops = ctx[t].ops
           /\ ctx'[t].written = ctx[t].written /\ ctx'[t].temp = ctx[t].temp
           /\ ctx'[t].seen = ctx[t].seen
<1>1. ctx' = [ctx EXCEPT ![t].pc = "aborted"] /\ Endable(t)
  BY DEF CommitConflict, CommitReady
<1> QED
  BY <1>1, PcFields

\* The memtable write of put and the batch of commit change only where the
\* context stands.
LEMMA ApplyFields ==
    ASSUME CtxShape, NEW t \in Tx
    PROVE  /\ ApplyWrite(t) =>
                /\ Others(t) /\ ctx[t].pc = "writing" /\ ctx'[t].pc = "open"
                /\ ctx'[t].level = ctx[t].level /\ ctx'[t].ops = ctx[t].ops
                /\ ctx'[t].written = ctx[t].written /\ ctx'[t].temp = ctx[t].temp
                /\ ctx'[t].seen = ctx[t].seen
           /\ CommitApply(t) =>
                /\ Others(t) /\ ctx[t].pc = "logged" /\ ctx'[t].pc = "committed"
                /\ ctx'[t].level = ctx[t].level /\ ctx'[t].ops = ctx[t].ops
                /\ ctx'[t].written = ctx[t].written /\ ctx'[t].temp = ctx[t].temp
                /\ ctx'[t].seen = ctx[t].seen
<1>1. ApplyWrite(t) => ctx' = [ctx EXCEPT ![t].pc = "open"] /\ ctx[t].pc = "writing"
  BY DEF ApplyWrite
<1>2. CommitApply(t) => ctx' = [ctx EXCEPT ![t].pc = "committed"] /\ ctx[t].pc = "logged"
  BY DEF CommitApply
<1> QED
  BY <1>1, <1>2, PcFields

\* The COMMIT record of commit: appended and logged, or appended and the log
\* failed.
LEMMA CommitLogFields ==
    ASSUME CtxShape, NEW t \in Tx, CommitLog(t)
    PROVE  LET ops == Append(ctx[t].ops, Op("COMMIT", "marker", "val")) IN
           /\ Others(t) /\ CommitReady(t)
           /\ ctx'[t].level = ctx[t].level /\ ctx'[t].ops = ops
           /\ ctx'[t].temp = ctx[t].temp /\ ctx'[t].seen = ctx[t].seen
           /\ \/ Persist(t, ops) /\ ctx'[t].pc = "logged" /\ ctx'[t].written = Len(ops)
              \/ PersistFails(t, ops) /\ ctx'[t].pc = ctx[t].pc
                 /\ ctx'[t].written = ctx[t].written
<1> DEFINE ops == Append(ctx[t].ops, Op("COMMIT", "marker", "val"))
<1>1. /\ CommitReady(t)
      /\ \/ Persist(t, ops)
            /\ ctx' = [ctx EXCEPT ![t].ops = ops, ![t].written = Len(ops), ![t].pc = "logged"]
         \/ PersistFails(t, ops) /\ ctx' = [ctx EXCEPT ![t].ops = ops]
  BY DEF CommitLog
<1> HIDE DEF ops
<1>2. /\ Others(t) /\ ctx'[t].level = ctx[t].level /\ ctx'[t].ops = ops
      /\ ctx'[t].temp = ctx[t].temp /\ ctx'[t].seen = ctx[t].seen
      /\ \/ Persist(t, ops) /\ ctx'[t].pc = "logged" /\ ctx'[t].written = Len(ops)
         \/ PersistFails(t, ops) /\ ctx'[t].pc = ctx[t].pc
            /\ ctx'[t].written = ctx[t].written
  BY <1>1 DEF CtxShape, Others, Contexts
<1> QED
  BY <1>1, <1>2 DEF ops

\* abort: what was staged, seen and recorded is forgotten.
LEMMA AbortFields ==
    ASSUME CtxShape, NEW t \in Tx, Abort(t)
    PROVE  /\ Others(t) /\ Endable(t)
           /\ ctx'[t].level = ctx[t].level /\ ctx'[t].pc = "aborted" /\ ctx'[t].ops = <<>>
           /\ ctx'[t].written = ctx[t].written /\ ctx'[t].temp = NoContext.temp
           /\ ctx'[t].seen = NoContext.seen
<1>1. /\ ctx' = [ctx EXCEPT ![t].pc = "aborted", ![t].ops = <<>>,
                            ![t].temp = NoContext.temp, ![t].seen = NoContext.seen]
      /\ Endable(t)
  BY DEF Abort
<1> QED
  BY <1>1 DEF CtxShape, Others, Contexts

\* The end of get: the answer is kept in read_map_ unless the level is read
\* uncommitted.
LEMMA ReturnFields ==
    ASSUME CtxShape, NEW t \in Tx, ReadReturn(t)
    PROVE  /\ Others(t)
           /\ ctx'[t].level = ctx[t].level /\ ctx'[t].pc = ctx[t].pc
           /\ ctx'[t].ops = ctx[t].ops /\ ctx'[t].written = ctx[t].written
           /\ ctx'[t].temp = ctx[t].temp
           /\ ctx'[t].seen = IF Cap(t) = 0 THEN ctx[t].seen
                             ELSE [ctx[t].seen EXCEPT ![rd[t].key] = Shown(rd[t].best)]
<1> DEFINE key == rd[t].key
           answer == Shown(rd[t].best)
<1>1. ctx' = IF Cap(t) = 0 THEN ctx ELSE [ctx EXCEPT ![t].seen[key] = answer]
  BY DEF ReadReturn
<1> HIDE DEF key, answer
<1>2. ctx[t] \in Contexts
  BY DEF CtxShape
<1>3. CASE Cap(t) = 0
  BY <1>1, <1>3 DEF Others
<1>4. CASE Cap(t) # 0
  <2>1. ctx' = [ctx EXCEPT ![t].seen[key] = answer]
    BY <1>1, <1>4
  <2>2. Others(t) /\ ctx'[t] = [ctx[t] EXCEPT !.seen = [@ EXCEPT ![key] = answer]]
    BY <2>1 DEF CtxShape, Others
  <2>3. /\ ctx'[t].level = ctx[t].level /\ ctx'[t].pc = ctx[t].pc
        /\ ctx'[t].ops = ctx[t].ops /\ ctx'[t].written = ctx[t].written
        /\ ctx'[t].temp = ctx[t].temp /\ ctx'[t].seen = [ctx[t].seen EXCEPT ![key] = answer]
    BY <1>2, <2>2 DEF Contexts
  <2> QED
    BY <1>4, <2>2, <2>3 DEF key, answer
<1> QED
  BY <1>3, <1>4

-----------------------------------------------------------------------------
(* Contexts and manager agree, and the locks exclude what they should.      *)

\* Every step keeps each context's state in agreement with the manager's sets.
LEMMA CtxInvStep ==
    TypeOK /\ Shapes /\ CtxInv /\ [TNext]_tvars => CtxInv'
<1> SUFFICES ASSUME TypeOK, Shapes, CtxInv, [TNext]_tvars PROVE CtxInv'
  OBVIOUS
<1>s. CtxShape
  BY DEF Shapes
<1>n. nextTransactionId \in Int /\ \A t \in Tx : t \in Int
  BY MaxIdAssumption DEF TypeOK, Tx
<1>1. ASSUME NEW level \in Levels, Begin(level) PROVE CtxInv'
  <2>1. /\ nextTransactionId \in Tx /\ Others(nextTransactionId)
        /\ ctx'[nextTransactionId].pc = "open"
    BY <1>s, <1>1, BeginFields
  <2>2. NewTranc
    BY <1>1 DEF Begin
  <2> QED
    BY <1>n, <2>1, <2>2 DEF CtxInv, NewTranc, Others
<1>2. ASSUME NEW t \in Tx, UNCHANGED vars, Others(t), ctx[t].pc # "none",
             \/ ctx'[t].pc = ctx[t].pc
             \/ ctx[t].pc = "open" /\ ctx'[t].pc \in {"writing", "logged"}
             \/ ctx[t].pc = "writing" /\ ctx'[t].pc = "open"
      PROVE  CtxInv'
  <2>1. /\ UNCHANGED <<nextTransactionId, activeTrans, abortedTrancIds, proc>>
        /\ UNCHANGED <<committed, rolledBack, base>>
    BY <1>2, ManagerFrame
  <2> QED
    BY <1>2, <2>1 DEF CtxInv, Others
<1>3. ASSUME NEW t \in Tx, NEW k \in Keys, NEW v \in Vals,
             StageWrite(t, k, v) \/ LogWrite(t, k, v)
      PROVE  CtxInv'
  <2>1. /\ Others(t) /\ ctx[t].pc = "open"
        /\ ctx'[t].pc = ctx[t].pc \/ ctx'[t].pc \in {"writing", "logged"}
    BY <1>s, <1>3, StageFields, LogWriteFields
  <2> QED
    BY <1>2, <1>3, <2>1, WriteFrame
<1>4. ASSUME NEW t \in Tx, ApplyWrite(t) PROVE CtxInv'
  <2>1. Others(t) /\ ctx[t].pc = "writing" /\ ctx'[t].pc = "open"
    BY <1>s, <1>4, PcFields DEF ApplyWrite
  <2> QED
    BY <1>2, <1>4, <2>1, WriteFrame
<1>5. ASSUME NEW t \in Tx, CommitLog(t) PROVE CtxInv'
  <2>1. /\ Others(t) /\ ctx[t].pc = "open"
        /\ ctx'[t].pc = ctx[t].pc \/ ctx'[t].pc \in {"writing", "logged"}
    BY <1>s, <1>5, CommitLogFields DEF CommitReady, Endable, Usable
  <2> QED
    BY <1>2, <1>5, <2>1, EndFrame
<1>6. ASSUME NEW t \in Tx, NEW state \in States, AddReadyToFlush(t, state), Others(t),
             ctx'[t].pc = IF state = "ABORTED" THEN "aborted" ELSE "committed"
      PROVE  CtxInv'
  <2>1. ctx[t].pc # "none"
    BY <1>6 DEF AddReadyToFlush, CtxInv
  <2>2. CASE state = "ABORTED"
    BY <1>6, <2>1, <2>2 DEF AddReadyToFlush, ActiveWithout, CtxInv, Others
  <2>3. CASE state = "OP_COMMITTED"
    BY <1>6, <2>1, <2>3 DEF AddReadyToFlush, ActiveWithout, CtxInv, Others
  <2> QED
    BY <2>2, <2>3 DEF States
<1>7. ASSUME NEW t \in Tx, CommitConflict(t) \/ Abort(t) PROVE CtxInv'
  <2>1. Others(t) /\ ctx'[t].pc = "aborted"
    BY <1>s, <1>7, PcFields, AbortFields DEF CommitConflict
  <2>2. AddReadyToFlush(t, "ABORTED")
    BY <1>7 DEF CommitConflict, Abort
  <2> QED
    BY <1>6, <2>1, <2>2 DEF States
<1>8. ASSUME NEW t \in Tx, CommitApply(t) PROVE CtxInv'
  <2>1. ctx' = [ctx EXCEPT ![t].pc = "committed"] /\ AddReadyToFlush(t, "OP_COMMITTED")
    BY <1>8 DEF CommitApply
  <2>2. Others(t) /\ ctx'[t].pc = "committed"
    BY <1>s, <2>1, PcFields
  <2> QED
    BY <1>6, <2>1, <2>2 DEF States
<1>9. ASSUME UNCHANGED <<vars, ctx>> PROVE CtxInv'
  <2>1. /\ UNCHANGED <<nextTransactionId, activeTrans, abortedTrancIds, proc>>
        /\ UNCHANGED <<committed, rolledBack, base>>
    BY <1>9, ManagerFrame
  <2> QED
    BY <1>9, <2>1 DEF CtxInv
<1>10. ASSUME NEW t \in Tx, ReadReturn(t) PROVE CtxInv'
  <2>1. Others(t) /\ ctx'[t].pc = ctx[t].pc
    BY <1>s, <1>10, ReturnFields
  <2>2. \A u \in Tx : ctx'[u].pc = ctx[u].pc
    BY <2>1 DEF Others
  <2>3. /\ UNCHANGED <<nextTransactionId, activeTrans, abortedTrancIds, proc>>
        /\ UNCHANGED <<committed, rolledBack, base>>
    BY <1>10, ReadFrame, ManagerFrame
  <2> QED
    BY <2>2, <2>3 DEF CtxInv
<1>11. CASE FlushReport
  <2>1. AddFlushed(Max(flush.ids)) /\ ctx' = ctx
    BY <1>11 DEF FlushReport
  <2> QED
    BY <2>1 DEF AddFlushed, CtxInv, history
<1>12. ASSUME NEW t \in Tx,
             (\E k \in Keys : ReadMem(t, k)) \/ ReadSsts(t) \/ ReadVersion(t)
      PROVE CtxInv'
  BY <1>9, <1>12, ReadFrame
<1>13. CASE FlushLock \/ FlushNothing \/ FlushPick \/ FlushFails \/ FlushBuilt
            \/ FlushRegister \/ UNCHANGED tvars
  BY <1>9, <1>13, FlushFrame, TvarsFrame DEF FlushStep
<1> QED
  BY <1>1, <1>3, <1>4, <1>5, <1>7, <1>8, <1>10, <1>11, <1>12, <1>13 DEF TNext, FlushStep

\* A transaction that has begun keeps its level, and a commit is final.
Grows ==
    \A t \in Tx :
        /\ ctx[t].pc # "none" => ctx'[t].pc # "none" /\ ctx'[t].level = ctx[t].level
        /\ t \in committed => t \in committed'
        /\ t \in rolledBack => t \in rolledBack'

\* Begun contexts keep their level, and no committed or rolled back id is
\* forgotten, whatever the step.
LEMMA GrowsStep == TypeOK /\ Shapes /\ CtxInv /\ [TNext]_tvars => Grows
<1> SUFFICES ASSUME TypeOK, Shapes, CtxInv, [TNext]_tvars PROVE Grows
  OBVIOUS
<1>s. CtxShape
  BY DEF Shapes
<1>n. nextTransactionId \in Int /\ \A t \in Tx : t \in Int
  BY MaxIdAssumption DEF TypeOK, Tx
<1>1. ASSUME NEW level \in Levels, Begin(level) PROVE Grows
  <2>1. nextTransactionId \in Tx /\ Others(nextTransactionId)
    BY <1>s, <1>1, BeginFields
  <2>2. NewTranc
    BY <1>1 DEF Begin
  <2>3. ctx[nextTransactionId].pc = "none" /\ nextTransactionId \notin committed
        /\ nextTransactionId \notin rolledBack
    BY <1>n, <2>1 DEF CtxInv
  <2> QED
    BY <2>1, <2>2, <2>3 DEF Grows, NewTranc, Others
<1>2. ASSUME NEW t \in Tx, Others(t), ctx'[t].level = ctx[t].level, ctx'[t].pc # "none",
             committed \subseteq committed', rolledBack \subseteq rolledBack'
      PROVE  Grows
  BY <1>2 DEF Grows, Others
<1>v. UNCHANGED vars => committed' = committed /\ rolledBack' = rolledBack
  BY ManagerFrame
<1>3. ASSUME NEW t \in Tx, NEW k \in Keys, NEW v \in Vals,
             StageWrite(t, k, v) \/ LogWrite(t, k, v)
      PROVE  Grows
  <2>1. Others(t) /\ ctx'[t].pc # "none" /\ ctx'[t].level = ctx[t].level
    BY <1>s, <1>3, StageFields, LogWriteFields
  <2>2. UNCHANGED vars
    BY <1>3, WriteFrame
  <2> QED
    BY <1>2, <1>v, <2>1, <2>2
<1>4. ASSUME NEW t \in Tx, ApplyWrite(t) PROVE Grows
  <2>1. Others(t) /\ ctx'[t].pc = "open" /\ ctx'[t].level = ctx[t].level
    BY <1>s, <1>4, PcFields DEF ApplyWrite
  <2>2. UNCHANGED vars
    BY <1>4, WriteFrame
  <2> QED
    BY <1>2, <1>v, <2>1, <2>2
<1>5. ASSUME NEW t \in Tx, CommitLog(t) PROVE Grows
  <2>1. Others(t) /\ ctx'[t].pc # "none" /\ ctx'[t].level = ctx[t].level
    BY <1>s, <1>5, CommitLogFields DEF CommitReady, Endable, Usable
  <2>2. UNCHANGED vars
    BY <1>5, EndFrame
  <2> QED
    BY <1>2, <1>v, <2>1, <2>2
<1>6. ASSUME NEW t \in Tx, CommitConflict(t) \/ Abort(t) \/ CommitApply(t) PROVE Grows
  <2>1. /\ Others(t) /\ ctx'[t].pc \in {"aborted", "committed"}
        /\ ctx'[t].level = ctx[t].level
    BY <1>s, <1>6, PcFields, AbortFields DEF CommitConflict, CommitApply
  <2>2. AddReadyToFlush(t, "ABORTED") \/ AddReadyToFlush(t, "OP_COMMITTED")
    BY <1>6 DEF CommitConflict, Abort, CommitApply
  <2>3. committed \subseteq committed' /\ rolledBack \subseteq rolledBack'
    BY <2>2 DEF AddReadyToFlush
  <2> QED
    BY <1>2, <2>1, <2>3
<1>7. ASSUME NEW t \in Tx, ReadReturn(t) PROVE Grows
  <2>1. Others(t) /\ ctx'[t].pc = ctx[t].pc /\ ctx'[t].level = ctx[t].level
    BY <1>s, <1>7, ReturnFields
  <2>2. UNCHANGED vars
    BY <1>7, ReadFrame
  <2> QED
    BY <1>v, <2>1, <2>2 DEF Grows, Others
<1>8. ASSUME NEW t \in Tx,
             (\E k \in Keys : ReadMem(t, k)) \/ ReadSsts(t) \/ ReadVersion(t)
      PROVE Grows
  <2>1. UNCHANGED <<vars, ctx>>
    BY <1>8, ReadFrame
  <2> QED
    BY <1>v, <2>1 DEF Grows
<1>9. CASE FlushReport
  <2>1. AddFlushed(Max(flush.ids)) /\ ctx' = ctx
    BY <1>9 DEF FlushReport
  <2> QED
    BY <2>1 DEF AddFlushed, Grows, history
<1>10. CASE FlushLock \/ FlushNothing \/ FlushPick \/ FlushFails \/ FlushBuilt
            \/ FlushRegister \/ UNCHANGED tvars
  <2>1. UNCHANGED <<vars, ctx>>
    BY <1>10, FlushFrame, TvarsFrame DEF FlushStep
  <2> QED
    BY <1>v, <2>1 DEF Grows
<1> QED
  BY <1>1, <1>3, <1>4, <1>5, <1>6, <1>7, <1>8, <1>9, <1>10 DEF TNext, FlushStep

\* A commit extends what running reads may return, and nothing else of them.
LEMMA CommitReads ==
    ASSUME RdShape, NEW t \in Tx, CommitApply(t), NEW u \in Tx
    PROVE  /\ rd'[u].ph = rd[u].ph /\ (rd[u].ph = "none" => rd'[u] = rd[u])
           /\ rd[u].ph # "none" => /\ rd'[u].key = rd[u].key /\ rd'[u].todo = rd[u].todo
                                   /\ rd'[u].best = rd[u].best
<1> DEFINE view == CommittedView(<<Applied(t)>> \o Tail(AllTables), committed \cup {t},
                                 rd[u].key, Cap(u))
<1>1. rd'[u] = IF rd[u].ph = "none" THEN rd[u]
               ELSE [rd[u] EXCEPT !.ideal = @ \cup {view}]
  BY DEF CommitApply
<1>2. rd[u] \in Reads
  BY DEF RdShape
<1> HIDE DEF view
<1> QED
  BY <1>1, <1>2 DEF Reads, NoRead

\* Every step keeps readers, writers and the flusher out of each other's way as
\* ssts_mtx and the memtable locks do.
LEMMA LockInvStep ==
    TypeOK /\ Shapes /\ CtxInv /\ LockInv /\ [TNext]_tvars => LockInv'
<1> SUFFICES ASSUME TypeOK, Shapes, CtxInv, LockInv, [TNext]_tvars PROVE LockInv'
  OBVIOUS
<1>s. CtxShape /\ RdShape /\ TableShapes
  BY DEF Shapes
<1>n. nextTransactionId \in Int /\ \A t \in Tx : t \in Int
  BY MaxIdAssumption DEF TypeOK, Tx
<1>1. ASSUME NEW level \in Levels, Begin(level) PROVE LockInv'
  <2>1. /\ nextTransactionId \in Tx /\ Others(nextTransactionId)
        /\ ctx'[nextTransactionId].pc = "open"
    BY <1>s, <1>1, BeginFields
  <2>2. UNCHANGED <<rd, frozen, flush>>
    BY <1>1, BeginFrame
  <2> QED
    BY <2>1, <2>2 DEF LockInv, Others
<1>2. ASSUME NEW t \in Tx, NEW k \in Keys, NEW v \in Vals,
             StageWrite(t, k, v) \/ LogWrite(t, k, v)
      PROVE  LockInv'
  <2>1. /\ Others(t) /\ rd[t].ph = "none" /\ ctx'[t].pc # "logged"
    BY <1>s, <1>2, StageFields, LogWriteFields
  <2>2. UNCHANGED <<rd, frozen, flush>>
    BY <1>2, WriteFrame
  <2> QED
    BY <2>1, <2>2 DEF LockInv, Others
<1>3. ASSUME NEW t \in Tx, ApplyWrite(t) PROVE LockInv'
  <2>1. Others(t) /\ ctx[t].pc = "writing" /\ ctx'[t].pc = "open"
    BY <1>s, <1>3, PcFields DEF ApplyWrite
  <2>2. UNCHANGED <<rd, flush>>
    BY <1>3, WriteFrame
  <2>3. flush.ph = "building" => frozen' = frozen
    BY <1>3 DEF ApplyWrite, StoreCur, FrozenFree
  <2> QED
    BY <2>1, <2>2, <2>3 DEF LockInv, Others
<1>4. ASSUME NEW t \in Tx, CommitLog(t) PROVE LockInv'
  <2>1. /\ Others(t) /\ rd[t].ph = "none" /\ flush.ph = "idle"
        /\ \A u \in Tx : ctx[u].pc # "logged"
    BY <1>s, <1>4, CommitLogFields DEF CommitReady, Endable, Usable, SstsShareable,
                                        FrozenFree, CurFree
  <2>2. UNCHANGED <<rd, frozen, flush>>
    BY <1>4, EndFrame
  <2> QED
    BY <2>1, <2>2 DEF LockInv, Others
<1>5. ASSUME NEW t \in Tx, CommitConflict(t) \/ Abort(t) PROVE LockInv'
  <2>1. Others(t) /\ ctx'[t].pc = "aborted" /\ rd[t].ph = "none"
    BY <1>s, <1>5, ConflictFields, AbortFields DEF Endable, Usable
  <2>2. UNCHANGED <<rd, frozen, flush>>
    BY <1>5, EndFrame
  <2> QED
    BY <2>1, <2>2 DEF LockInv, Others
<1>6. ASSUME NEW t \in Tx, CommitApply(t) PROVE LockInv'
  <2>1. Others(t) /\ ctx[t].pc = "logged" /\ ctx'[t].pc = "committed"
    BY <1>s, <1>6, PcFields DEF CommitApply
  <2>2. flush' = flush /\ flush.ph = "idle"
    BY <1>6, <2>1, EndFrame DEF LockInv
  <2>3. \A u \in Tx : rd'[u].ph = rd[u].ph
    BY <1>s, <1>6, CommitReads
  <2> QED
    BY <2>1, <2>2, <2>3 DEF LockInv, Others
<1>7. ASSUME NEW t \in Tx, ReadReturn(t) PROVE LockInv'
  <2>1. Others(t) /\ ctx'[t].pc = ctx[t].pc
    BY <1>s, <1>7, ReturnFields
  <2>2. UNCHANGED <<frozen, flush>>
    BY <1>7, ReadFrame
  <2>3. rd' = [rd EXCEPT ![t] = NoRead]
    BY <1>7 DEF ReadReturn
  <2> QED
    BY <1>s, <2>1, <2>2, <2>3 DEF LockInv, Others, RdShape, NoRead
<1>8. ASSUME NEW t \in Tx,
             (\E k \in Keys : ReadMem(t, k)) \/ ReadSsts(t) \/ ReadVersion(t)
      PROVE LockInv'
  <2>1. UNCHANGED <<ctx, frozen, flush>>
    BY <1>8, ReadFrame
  <2>2. ctx[t].pc = "open"
    <3>1. ASSUME NEW k \in Keys, ReadMem(t, k) PROVE ctx[t].pc = "open"
      BY <3>1 DEF ReadMem, Usable
    <3>2. ASSUME ReadSsts(t) \/ ReadVersion(t) PROVE ctx[t].pc = "open"
      BY <3>2 DEF ReadSsts, ReadVersion, LockInv
    <3> QED
      BY <1>8, <3>1, <3>2
  <2>3. \A u \in Tx : u # t => rd'[u] = rd[u]
    <3>1. ASSUME NEW k \in Keys, ReadMem(t, k) PROVE \A u \in Tx : u # t => rd'[u] = rd[u]
      BY <1>s, <3>1 DEF ReadMem, RdShape
    <3>2. ReadSsts(t) => \A u \in Tx : u # t => rd'[u] = rd[u]
      BY <1>s DEF ReadSsts, RdShape
    <3>3. ReadVersion(t) => \A u \in Tx : u # t => rd'[u] = rd[u]
      BY <1>s DEF ReadVersion, RdShape
    <3> QED
      BY <1>8, <3>1, <3>2, <3>3
  <2> QED
    BY <2>1, <2>2, <2>3 DEF LockInv
<1>9. CASE FlushLock
  <2>1. UNCHANGED <<ctx, rd, frozen>> /\ \A u \in Tx : ctx[u].pc # "logged"
    BY <1>9, FlushFrame DEF FlushLock, SstsFree, CurFree
  <2>2. flush'.ph = "locked"
    BY <1>9 DEF FlushLock
  <2> QED
    BY <2>1, <2>2 DEF LockInv
<1>10. CASE FlushStep
  <2>0. flush.ph # "idle"
    BY <1>10 DEF FlushStep, FlushNothing, FlushPick, FlushFails, FlushBuilt,
                 FlushRegister, FlushReport
  <2>1. UNCHANGED <<ctx, rd>> /\ flush.ph # "idle"
    BY <1>10, <2>0, FlushFrame
  <2>2. flush'.ph = "building" => frozen' # <<>>
    <3>1. CASE FlushPick
      <4>1. <<cur>> \o frozen # <<>>
        <5>1. Len(<<cur>> \o frozen) = Len(frozen) + 1 /\ Len(frozen) \in Nat
          BY <1>s, PushTable, TableBasics DEF TableShapes
        <5> QED
          BY <5>1
      <4> QED
        BY <3>1, <4>1 DEF FlushPick, Freeze, mem
    <3>2. CASE FlushNothing \/ FlushFails \/ FlushBuilt \/ FlushRegister \/ FlushReport
      BY <3>2 DEF FlushNothing, FlushFails, FlushBuilt, FlushRegister, FlushReport,
                  NoFlush, Reporting
    <3> QED
      BY <1>10, <3>1, <3>2 DEF FlushStep
  <2> QED
    BY <2>1, <2>2 DEF LockInv
<1>11. CASE UNCHANGED tvars
  <2>1. UNCHANGED <<ctx, rd, frozen, flush>>
    BY <1>11, TvarsFrame
  <2> QED
    BY <2>1 DEF LockInv
<1> QED
  BY <1>1, <1>2, <1>3, <1>4, <1>5, <1>6, <1>7, <1>8, <1>9, <1>10, <1>11 DEF TNext

-----------------------------------------------------------------------------
(* Operations, staged values and the log.                                   *)

\* What appending an operation does to "last on its key".
LEMMA AppendLast ==
    ASSUME NEW ops \in OpSeqs, NEW o \in OpRecs, NEW i \in DOMAIN ops,
           LastOn(Append(ops, o), i, Len(ops) + 1)
    PROVE  LastOn(ops, i, Len(ops)) /\ o.key # ops[i].key
<1> DEFINE a == Append(ops, o)
<1>1. /\ Len(ops) \in Nat /\ DOMAIN ops = 1..Len(ops) /\ a[Len(ops) + 1] = o
      /\ \A j \in DOMAIN ops : a[j] = ops[j]
  BY AppendOp
<1>2. \A j \in (i + 1)..(Len(ops) + 1) : a[j].key # a[i].key
  BY DEF LastOn
<1> HIDE DEF a
<1>3. Len(ops) + 1 \in (i + 1)..(Len(ops) + 1)
  BY <1>1
<1>4. \A j \in (i + 1)..Len(ops) : j \in DOMAIN ops /\ j \in (i + 1)..(Len(ops) + 1)
  BY <1>1
<1> QED
  BY <1>1, <1>2, <1>3, <1>4 DEF LastOn

\* Every step keeps the list of operations what the write path made of it:
\* CREATE, writes, at most one COMMIT at the end.
LEMMA OpsInvStep == TypeOK /\ Shapes /\ CtxInv /\ OpsInv /\ [TNext]_tvars => OpsInv'
<1> SUFFICES ASSUME TypeOK, Shapes, CtxInv, OpsInv, [TNext]_tvars PROVE OpsInv'
  OBVIOUS
<1>s. CtxShape /\ RdShape /\ \A t \in Tx : ctx[t] \in Contexts /\ ctx[t].ops \in OpSeqs
                                         /\ ctx[t].written \in Nat /\ ctx[t].temp \in Temps
  BY DEF Shapes, CtxShape, Contexts
<1>n. \A k \in Keys : NoContext.temp[k] = "unset"
  BY DEF NoContext
<1>u. "unset" \notin Vals /\ "marker" \notin Keys
  BY KeysAssumption DEF Vals
<1>o. ASSUME NEW t \in Tx, Others(t), OpsOk(ctx'[t]) PROVE OpsInv'
  BY <1>o DEF OpsInv, Others
<1>1. ASSUME NEW level \in Levels, Begin(level) PROVE OpsInv'
  <2> DEFINE t == nextTransactionId
             c == ctx'[t]
  <2>1. /\ t \in Tx /\ Others(t) /\ c.pc = "open" /\ c.written = 0
        /\ c.ops = <<Op("CREATE", "marker", "val")>> /\ c.temp = NoContext.temp
    BY <1>s, <1>1, BeginFields
  <2>2. Staging(c) = {}
    BY <1>n, <2>1 DEF Staging
  <2>3. DOMAIN c.ops = {1} /\ c.ops[1].key = "marker" /\ Len(c.ops) = 1
    BY <2>1 DEF Op
  <2> HIDE DEF t, c
  <2>4. OpsOk(c)
    BY <1>u, <2>1, <2>2, <2>3 DEF OpsOk
  <2> QED
    BY <1>o, <2>1, <2>4 DEF c
<1>2. ASSUME NEW t \in Tx, NEW k \in Keys, NEW v \in Vals, StageWrite(t, k, v)
      PROVE  OpsInv'
  <2> DEFINE c == ctx[t]
             d == ctx'[t]
             o == WriteOp(k, v)
             n == Len(c.ops)
  <2>1. /\ Others(t) /\ c.pc = "open" /\ c.level # "RU"
        /\ d.level = c.level /\ d.pc = c.pc /\ d.ops = Append(c.ops, o)
        /\ d.written = c.written /\ d.temp = [c.temp EXCEPT ![k] = v]
    BY <1>s, <1>2, StageFields DEF Strict
  <2>2. /\ OpsOk(c) /\ c.ops \in OpSeqs /\ c.written \in Nat /\ c.temp \in Temps
        /\ o \in OpRecs /\ o.key = k /\ o.val = v
    BY <1>s, OpFacts DEF OpsInv, WriteOp, Op
  <2> HIDE DEF c, d, o
  <2>3. /\ n \in Nat /\ DOMAIN c.ops = 1..n /\ Len(d.ops) = n + 1 /\ d.ops[n + 1] = o
        /\ \A i \in DOMAIN c.ops : d.ops[i] = c.ops[i]
    BY <2>1, <2>2, AppendOp
  <2>4. d.ops \in OpSeqs /\ DOMAIN d.ops = 1..(n + 1)
    BY <2>1, <2>2, AppendOp
  <2> HIDE DEF n
  <2>5. d.temp[k] = v /\ \A j \in Keys : j # k => d.temp[j] = c.temp[j]
    BY <2>1, <2>2 DEF Temps
  <2>6. Staging(d) = Staging(c) \cup {k}
    BY <1>u, <2>5 DEF Staging
  <2>7. ASSUME NEW i \in DOMAIN d.ops, d.ops[i].key \in Keys
        PROVE  /\ d.ops[i].key \in Staging(d)
               /\ LastOn(d.ops, i, Len(d.ops)) => d.ops[i].val = d.temp[d.ops[i].key]
    <3>1. CASE i = n + 1
      BY <2>2, <2>3, <2>5, <2>6, <3>1
    <3>2. CASE i \in DOMAIN c.ops
      <4>1. c.ops[i].key \in Staging(c) /\ d.ops[i] = c.ops[i]
        BY <2>1, <2>2, <2>3, <2>7, <3>2 DEF OpsOk
      <4>2. ASSUME LastOn(d.ops, i, Len(d.ops)) PROVE d.ops[i].val = d.temp[d.ops[i].key]
        <5>1. LastOn(c.ops, i, Len(c.ops)) /\ o.key # c.ops[i].key
          <6>1. LastOn(Append(c.ops, o), i, Len(c.ops) + 1)
            BY <2>1, <2>3, <4>2 DEF n
          <6> QED
            BY <2>2, <3>2, <6>1, AppendLast
        <5>2. c.ops[i].val = c.temp[c.ops[i].key]
          BY <2>1, <2>2, <2>7, <3>2, <4>1, <5>1 DEF OpsOk
        <5> QED
          BY <2>2, <2>5, <2>7, <4>1, <5>1, <5>2
      <4> QED
        BY <2>6, <4>1, <4>2
    <3> QED
      BY <2>3, <2>4, <3>1, <3>2
  <2>8. ASSUME NEW j \in Staging(d)
        PROVE  \E i \in DOMAIN d.ops : d.ops[i].key = j /\ d.ops[i].val = d.temp[j]
    <3>1. CASE j = k
      <4>1. n + 1 \in DOMAIN d.ops
        BY <2>3, <2>4
      <4> QED
        BY <2>2, <2>3, <2>5, <3>1, <4>1
    <3>2. CASE j # k
      <4>1. PICK i \in DOMAIN c.ops : c.ops[i].key = j /\ c.ops[i].val = c.temp[j]
        BY <2>2, <2>6, <3>2 DEF OpsOk
      <4>2. i \in DOMAIN d.ops /\ d.ops[i] = c.ops[i] /\ d.temp[j] = c.temp[j]
        BY <2>3, <2>4, <2>5, <2>8, <3>2 DEF Staging
      <4> QED
        BY <4>1, <4>2
    <3> QED
      BY <3>1, <3>2
  <2>9. d.written <= Len(d.ops)
    BY <2>1, <2>2, <2>3 DEF OpsOk, n
  <2>10. OpsOk(d)
    BY <2>1, <2>7, <2>8, <2>9 DEF OpsOk
  <2> QED
    BY <1>o, <2>1, <2>10 DEF d
<1>3. ASSUME NEW t \in Tx, NEW o \in OpRecs, Others(t),
             ctx'[t].ops = Append(ctx[t].ops, o), ctx'[t].level = ctx[t].level,
             ctx'[t].temp = ctx[t].temp, ctx[t].pc = "open",
             \/ /\ ctx'[t].pc \in {"writing", "logged"}
                /\ ctx'[t].written = Len(Append(ctx[t].ops, o))
             \/ ctx'[t].pc = "open" /\ ctx'[t].written = ctx[t].written,
             ctx'[t].pc = "writing" => o.key \in Keys /\ ctx[t].level = "RU",
             ctx[t].level # "RU" => o.key = "marker"
      PROVE  OpsInv'
  <2> DEFINE c == ctx[t]
             d == ctx'[t]
             n == Len(c.ops)
  <2>1. OpsOk(c) /\ c.ops \in OpSeqs /\ c.written \in Nat
    BY <1>s DEF OpsInv
  <2>2. Staging(d) = Staging(c)
    BY <1>3 DEF Staging
  <2>h. /\ d.ops = Append(c.ops, o) /\ d.level = c.level /\ d.temp = c.temp /\ c.pc = "open"
        /\ \/ d.pc \in {"writing", "logged"} /\ d.written = Len(Append(c.ops, o))
           \/ d.pc = "open" /\ d.written = c.written
        /\ d.pc = "writing" => o.key \in Keys /\ c.level = "RU"
        /\ c.level # "RU" => o.key = "marker"
    BY <1>3
  <2> HIDE DEF c, d
  <2>3. /\ n \in Nat /\ DOMAIN c.ops = 1..n /\ Len(d.ops) = n + 1 /\ d.ops[n + 1] = o
        /\ \A i \in DOMAIN c.ops : d.ops[i] = c.ops[i]
    BY <2>h, <2>1, AppendOp
  <2>4. d.ops \in OpSeqs /\ DOMAIN d.ops = 1..(n + 1)
    BY <2>h, <2>1, AppendOp
  <2>5. d.ops # <<>> /\ Last(d.ops) = o
    <3>1. d.ops # <<>>
      BY <2>3
    <3>2. Last(d.ops) = d.ops[Len(d.ops)]
      BY DEF Last
    <3> QED
      BY <2>3, <3>1, <3>2
  <2> HIDE DEF n
  <2>6. ASSUME d.level # "RU", NEW i \in DOMAIN d.ops, d.ops[i].key \in Keys
        PROVE  /\ d.ops[i].key \in Staging(d)
               /\ LastOn(d.ops, i, Len(d.ops)) => d.ops[i].val = d.temp[d.ops[i].key]
    <3>1. i \in DOMAIN c.ops
      <4>1. i # n + 1
        BY <1>u, <2>h, <2>3, <2>6
      <4> QED
        BY <2>3, <2>4, <4>1
    <3>2. c.ops[i].key \in Staging(c) /\ d.ops[i] = c.ops[i]
      BY <2>h, <2>1, <2>3, <2>6, <3>1 DEF OpsOk
    <3>3. ASSUME LastOn(d.ops, i, Len(d.ops)) PROVE d.ops[i].val = d.temp[d.ops[i].key]
      <4>1. LastOn(c.ops, i, Len(c.ops))
        BY <2>h, <2>1, <2>3, <3>1, <3>3, AppendLast DEF n
      <4> QED
        BY <2>h, <2>1, <2>6, <3>1, <3>2, <4>1 DEF OpsOk
    <3> QED
      BY <2>2, <3>2, <3>3
  <2>7. ASSUME NEW j \in Staging(d)
        PROVE  \E i \in DOMAIN d.ops : d.ops[i].key = j /\ d.ops[i].val = d.temp[j]
    <3>1. PICK i \in DOMAIN c.ops : c.ops[i].key = j /\ c.ops[i].val = c.temp[j]
      BY <2>1, <2>2 DEF OpsOk
    <3>2. i \in DOMAIN d.ops /\ d.ops[i] = c.ops[i] /\ d.temp[j] = c.temp[j]
      BY <2>h, <2>3, <2>4
    <3> QED
      BY <3>1, <3>2
  <2>8. d.written <= Len(d.ops) /\ (d.pc \in {"writing", "logged", "committed"} => d.written = Len(d.ops))
    BY <2>h, <2>1, <2>3 DEF OpsOk, n
  <2>9. d.level = "RU" => Staging(d) = {}
    BY <2>h, <2>1, <2>2 DEF OpsOk
  <2>10. OpsOk(d)
    BY <2>h, <2>5, <2>6, <2>7, <2>8, <2>9 DEF OpsOk
  <2> QED
    BY <1>o, <1>3, <2>10 DEF d
<1>4. ASSUME NEW t \in Tx, NEW k \in Keys, NEW v \in Vals, LogWrite(t, k, v)
      PROVE  OpsInv'
  <2>1. WriteOp(k, v) \in OpRecs /\ WriteOp(k, v).key = k
    BY OpFacts DEF WriteOp, Op
  <2>2. /\ Others(t) /\ ctx[t].pc = "open" /\ ctx[t].level = "RU"
        /\ ctx'[t].level = ctx[t].level /\ ctx'[t].ops = Append(ctx[t].ops, WriteOp(k, v))
        /\ ctx'[t].temp = ctx[t].temp
        /\ \/ /\ ctx'[t].pc \in {"writing", "logged"}
              /\ ctx'[t].written = Len(Append(ctx[t].ops, WriteOp(k, v)))
           \/ ctx'[t].pc = "open" /\ ctx'[t].written = ctx[t].written
    BY <1>s, <1>4, LogWriteFields DEF Strict
  <2> QED
    BY <1>3, <2>1, <2>2
<1>5. ASSUME NEW t \in Tx, CommitLog(t) PROVE OpsInv'
  <2> DEFINE o == Op("COMMIT", "marker", "val")
  <2>1. o \in OpRecs /\ o.key = "marker"
    BY OpFacts DEF Op
  <2>2. /\ Others(t) /\ ctx[t].pc = "open"
        /\ ctx'[t].level = ctx[t].level /\ ctx'[t].ops = Append(ctx[t].ops, o)
        /\ ctx'[t].temp = ctx[t].temp
        /\ \/ ctx'[t].pc = "logged" /\ ctx'[t].written = Len(Append(ctx[t].ops, o))
           \/ ctx'[t].pc = "open" /\ ctx'[t].written = ctx[t].written
    BY <1>s, <1>5, CommitLogFields DEF CommitReady, Endable, Usable
  <2> HIDE DEF o
  <2> QED
    BY <1>3, <2>1, <2>2
<1>6. ASSUME NEW t \in Tx, Others(t), ctx'[t].level = ctx[t].level, ctx'[t].ops = ctx[t].ops,
             ctx'[t].written = ctx[t].written, ctx'[t].temp = ctx[t].temp,
             \/ ctx'[t].pc = ctx[t].pc \/ ctx'[t].pc = "aborted"
             \/ ctx[t].pc = "writing" /\ ctx'[t].pc = "open"
             \/ ctx[t].pc = "logged" /\ ctx'[t].pc = "committed"
      PROVE  OpsInv'
  <2> DEFINE c == ctx[t]
             d == ctx'[t]
  <2>1. OpsOk(c) /\ Staging(d) = Staging(c)
    BY <1>6 DEF OpsInv, Staging
  <2>2. /\ d.level = c.level /\ d.ops = c.ops /\ d.written = c.written /\ d.temp = c.temp
        /\ \/ d.pc = c.pc \/ d.pc = "aborted" \/ (c.pc = "writing" /\ d.pc = "open")
           \/ (c.pc = "logged" /\ d.pc = "committed")
    BY <1>6
  <2> HIDE DEF c, d
  <2>3. OpsOk(d)
    BY <2>1, <2>2 DEF OpsOk
  <2> QED
    BY <1>o, <1>6, <2>3 DEF d
<1>7. ASSUME NEW t \in Tx, ApplyWrite(t) \/ CommitApply(t) \/ CommitConflict(t) \/ ReadReturn(t)
      PROVE  OpsInv'
  BY <1>s, <1>6, <1>7, ApplyFields, ConflictFields, ReturnFields
<1>8. ASSUME NEW t \in Tx, Abort(t) PROVE OpsInv'
  <2> DEFINE c == ctx'[t]
  <2>1. Others(t) /\ c.pc = "aborted" /\ c.temp = NoContext.temp
    BY <1>s, <1>8, AbortFields
  <2>2. Staging(c) = {}
    BY <1>n, <2>1 DEF Staging
  <2> HIDE DEF c
  <2>3. OpsOk(c)
    BY <2>1, <2>2 DEF OpsOk
  <2> QED
    BY <1>o, <2>1, <2>3 DEF c
<1>9. ASSUME ctx' = ctx PROVE OpsInv'
  BY <1>9 DEF OpsInv
<1>10. ASSUME NEW t \in Tx,
             (\E k \in Keys : ReadMem(t, k)) \/ ReadSsts(t) \/ ReadVersion(t)
      PROVE OpsInv'
  BY <1>9, <1>10, ReadFrame
<1>11. CASE FlushLock \/ FlushStep \/ UNCHANGED tvars
  BY <1>9, <1>11, FlushFrame, TvarsFrame
<1> QED
  BY <1>1, <1>2, <1>4, <1>5, <1>7, <1>8, <1>10, <1>11 DEF TNext

\* What a write to the log adds for its transaction, whether it fails or not:
\* nothing is changed, and what is new comes from the operations sent.
LEMMA PersistGrows ==
    ASSUME CtxShape, WalShape, NEW t \in Tx, NEW ops \in OpSeqs,
           Persist(t, ops) \/ PersistFails(t, ops)
    PROVE  /\ \A u \in Tx : u # t => wal'[u] = wal[u]
           /\ \A i \in DOMAIN wal[t] : i \in DOMAIN wal'[t] /\ wal'[t][i] = wal[t][i]
           /\ \A i \in DOMAIN wal'[t] :
                \/ i \in DOMAIN wal[t]
                \/ \E j \in DOMAIN ops : wal'[t][i] = ops[j]
           /\ walFailed' = TRUE \/ (walFailed' = walFailed /\ walFailed = FALSE)
<1> DEFINE w == ctx[t].written
           p == Pending(t, ops)
<1>1. w \in Nat /\ wal[t] \in OpSeqs /\ wal \in [Tx -> OpSeqs] /\ walFailed \in BOOLEAN
  BY DEF CtxShape, Contexts, WalShape
<1>0. Len(ops) \in Nat /\ DOMAIN ops = 1..Len(ops) /\ Len(ops) \in 0..Len(ops)
  BY OpBasics
<1> HIDE DEF w
<1>2. /\ p = SubSeq(ops, w + 1, Len(ops)) /\ p \in OpSeqs
      /\ Len(p) = IF w < Len(ops) THEN Len(ops) - w ELSE 0
      /\ \A i \in 1..(Len(ops) - w) : p[i] = ops[w + i]
  <2>1. p = SubSeq(ops, w + 1, Len(ops))
    BY DEF Pending, w
  <2> HIDE DEF p
  <2> QED
    BY <1>0, <1>1, <2>1, CutOps
<1> HIDE DEF p
<1>3. PICK n \in 0..Len(p) : wal' = [wal EXCEPT ![t] = @ \o SubSeq(p, 1, n)]
  <2>1. CASE Persist(t, ops)
    <3>1. SubSeq(p, 1, Len(p)) = p /\ Len(p) \in 0..Len(p)
      <4>1. p \in Seq(OpRecs)
        BY <1>2 DEF OpSeqs
      <4>2. Len(p) \in Nat
        BY <4>1
      <4>3. SubSeq(p, 1, Len(p)) = p
        BY <4>1
      <4> QED
        BY <4>2, <4>3
    <3>2. wal' = [wal EXCEPT ![t] = @ \o p]
      BY <2>1 DEF Persist, p
    <3>3. wal' = [wal EXCEPT ![t] = @ \o SubSeq(p, 1, Len(p))]
      BY <3>1, <3>2
    <3> QED
      BY <3>1, <3>3
  <2>2. CASE PersistFails(t, ops)
    BY <2>2 DEF PersistFails, p
  <2> QED
    BY <2>1, <2>2
<1> DEFINE q == SubSeq(p, 1, n)
<1>4. q \in OpSeqs /\ Len(q) = n /\ n \in Nat /\ \A i \in 1..n : q[i] = p[i]
  <2>p. p \in OpSeqs
    BY <1>2
  <2>1. 0 \in Nat /\ 0 + 1 = 1 /\ Len(p) \in Nat
    BY <2>p, OpBasics
  <2>2. /\ SubSeq(p, 0 + 1, n) \in OpSeqs
        /\ Len(SubSeq(p, 0 + 1, n)) = IF 0 < n THEN n - 0 ELSE 0
        /\ \A i \in 1..(n - 0) : SubSeq(p, 0 + 1, n)[i] = p[0 + i]
    BY <1>2, <1>3, <2>1, CutOps
  <2>3. n \in Nat /\ n - 0 = n /\ \A i \in 1..n : 0 + i = i
    BY <1>3, <2>1
  <2> QED
    BY <2>1, <2>2, <2>3
<1> HIDE DEF q
<1>5. wal'[t] = wal[t] \o q /\ \A u \in Tx : u # t => wal'[u] = wal[u]
  BY <1>1, <1>3 DEF q
<1>6. /\ wal'[t] \in OpSeqs /\ Len(wal'[t]) = Len(wal[t]) + n
      /\ \A i \in DOMAIN wal[t] : wal'[t][i] = wal[t][i]
      /\ \A i \in DOMAIN q : wal'[t][Len(wal[t]) + i] = q[i]
  <2>1. wal[t] \in OpSeqs /\ q \in OpSeqs
    BY <1>1, <1>4
  <2>2. /\ wal[t] \o q \in OpSeqs /\ Len(wal[t] \o q) = Len(wal[t]) + Len(q)
        /\ \A i \in DOMAIN wal[t] : (wal[t] \o q)[i] = wal[t][i]
        /\ \A i \in DOMAIN q : (wal[t] \o q)[Len(wal[t]) + i] = q[i]
    BY <2>1, JoinOps
  <2> QED
    BY <1>4, <1>5, <2>2
<1>7. /\ DOMAIN wal[t] = 1..Len(wal[t]) /\ Len(wal[t]) \in Nat /\ DOMAIN q = 1..n
      /\ DOMAIN wal'[t] = 1..(Len(wal[t]) + n)
  <2>1. DOMAIN wal[t] = 1..Len(wal[t]) /\ Len(wal[t]) \in Nat
    BY <1>1, OpBasics
  <2>2. DOMAIN q = 1..n
    BY <1>4, OpBasics
  <2>3. DOMAIN wal'[t] = 1..Len(wal'[t])
    BY <1>6, OpBasics
  <2> QED
    BY <1>6, <2>1, <2>2, <2>3
<1>8. ASSUME NEW i \in DOMAIN wal'[t], i \notin DOMAIN wal[t]
      PROVE  \E j \in DOMAIN ops : wal'[t][i] = ops[j]
  <2> DEFINE m == i - Len(wal[t])
  <2>1. m \in 1..n /\ i = Len(wal[t]) + m
    BY <1>7, <1>8, <1>4
  <2>2. m \in DOMAIN q /\ m \in 1..(Len(ops) - w) /\ w + m \in DOMAIN ops
    <3> HIDE DEF m
    <3>1. m \in Int /\ 1 <= m /\ m <= n /\ n <= Len(p) /\ n \in Nat
      <4>1. n \in Nat /\ n <= Len(p)
        BY <1>3, <1>4
      <4> QED
        BY <2>1, <4>1
    <3>2. w < Len(ops) /\ Len(p) = Len(ops) - w
      <4>1. Len(p) = IF w < Len(ops) THEN Len(ops) - w ELSE 0
        BY <1>2
      <4>2. Len(ops) \in Nat /\ w \in Nat
        BY <1>0, <1>1
      <4> QED
        BY <3>1, <4>1, <4>2
    <3>3. m \in 1..(Len(ops) - w) /\ w + m \in 1..Len(ops)
      <4>1. Len(ops) \in Nat /\ w \in Nat
        BY <1>0, <1>1
      <4> QED
        BY <3>1, <3>2, <4>1
    <3> QED
      BY <1>0, <1>7, <2>1, <3>3
  <2> HIDE DEF m
  <2>3. wal'[t][i] = ops[w + m]
    BY <1>2, <1>4, <1>6, <2>1, <2>2
  <2> QED
    BY <2>2, <2>3
<1>9. \A i \in DOMAIN wal[t] : i \in DOMAIN wal'[t]
  BY <1>4, <1>7
<1>10. walFailed' = TRUE \/ (walFailed' = walFailed /\ walFailed = FALSE)
  BY <1>1 DEF Persist, PersistFails
<1> QED
  BY <1>5, <1>6, <1>8, <1>9, <1>10

\* A successful write sends all that was not sent before.
LEMMA PersistAll ==
    ASSUME CtxShape, WalShape, NEW t \in Tx, NEW ops \in OpSeqs, Persist(t, ops),
           ctx[t].written <= Len(ops)
    PROVE  /\ Len(wal'[t]) = Len(wal[t]) + (Len(ops) - ctx[t].written)
           /\ \A j \in 1..(Len(ops) - ctx[t].written) :
                wal'[t][Len(wal[t]) + j] = ops[ctx[t].written + j]
           /\ ~walFailed /\ walFailed' = walFailed
<1> DEFINE w == ctx[t].written
           p == Pending(t, ops)
<1>1. w \in Nat /\ wal[t] \in OpSeqs /\ wal \in [Tx -> OpSeqs] /\ w <= Len(ops)
  BY DEF CtxShape, Contexts, WalShape
<1>0. Len(ops) \in Nat /\ DOMAIN ops = 1..Len(ops) /\ Len(ops) \in 0..Len(ops)
  BY OpBasics
<1> HIDE DEF w
<1>2. /\ p \in OpSeqs /\ Len(p) = Len(ops) - w
      /\ \A i \in 1..(Len(ops) - w) : p[i] = ops[w + i]
  <2>1. p = SubSeq(ops, w + 1, Len(ops))
    BY DEF Pending, w
  <2> HIDE DEF p
  <2>2. /\ p \in OpSeqs /\ Len(p) = (IF w < Len(ops) THEN Len(ops) - w ELSE 0)
        /\ \A i \in 1..(Len(ops) - w) : p[i] = ops[w + i]
    <3>1. w \in Nat /\ Len(ops) \in 0..Len(ops)
      BY <1>0, <1>1
    <3> QED
      BY <2>1, <3>1, CutOps
  <2>3. w \in Nat /\ Len(ops) \in Nat /\ w <= Len(ops)
    BY <1>0, <1>1
  <2>4. (IF w < Len(ops) THEN Len(ops) - w ELSE 0) = Len(ops) - w
    BY <2>3
  <2> QED
    BY <2>2, <2>4
<1>3. wal' = [wal EXCEPT ![t] = @ \o p] /\ ~walFailed /\ walFailed' = walFailed
  BY DEF Persist
<1> HIDE DEF p
<1>4. wal'[t] = wal[t] \o p
  BY <1>1, <1>3
<1>5. Len(wal'[t]) = Len(wal[t]) + Len(p) /\ \A i \in DOMAIN p : wal'[t][Len(wal[t]) + i] = p[i]
  <2>1. wal[t] \in OpSeqs /\ p \in OpSeqs
    BY <1>1, <1>2
  <2>2. /\ Len(wal[t] \o p) = Len(wal[t]) + Len(p)
        /\ \A i \in DOMAIN p : (wal[t] \o p)[Len(wal[t]) + i] = p[i]
    BY <2>1, JoinOps
  <2> QED
    BY <1>4, <2>2
<1>6. DOMAIN p = 1..(Len(ops) - w)
  BY <1>2, OpBasics
<1> QED
  BY <1>2, <1>3, <1>5, <1>6 DEF w

\* Which steps write the log, and with which operations.
LEMMA WalCases ==
    ASSUME TypeOK, Shapes, [TNext]_tvars
    PROVE  \/ UNCHANGED <<wal, walFailed>>
           \/ \E t \in Tx, o \in OpRecs :
                /\ ctx[t].pc = "open" /\ Others(t) /\ UNCHANGED <<vars, cur, frozen, ssts, flush>>
                /\ ctx'[t].ops = Append(ctx[t].ops, o) /\ Append(ctx[t].ops, o) \in OpSeqs
                /\ ctx'[t].level = ctx[t].level
                /\ \/ /\ Persist(t, ctx'[t].ops) /\ ctx'[t].written = Len(ctx'[t].ops)
                      /\ \/ ctx'[t].pc = "writing" /\ ~Strict(t) /\ o.key \in Keys
                            /\ o.op # "COMMIT"
                         \/ ctx'[t].pc = "logged" /\ o = Op("COMMIT", "marker", "val")
                   \/ /\ PersistFails(t, ctx'[t].ops) /\ ctx'[t].pc = "open"
                      /\ ctx'[t].written = ctx[t].written
<1>s. CtxShape
  BY DEF Shapes
<1>1. ASSUME NEW t \in Tx, NEW k \in Keys, NEW v \in Vals, LogWrite(t, k, v)
      PROVE  \E o \in OpRecs :
                /\ ctx[t].pc = "open" /\ Others(t) /\ UNCHANGED <<vars, cur, frozen, ssts, flush>>
                /\ ctx'[t].ops = Append(ctx[t].ops, o) /\ Append(ctx[t].ops, o) \in OpSeqs
                /\ ctx'[t].level = ctx[t].level
                /\ \/ /\ Persist(t, ctx'[t].ops) /\ ctx'[t].written = Len(ctx'[t].ops)
                      /\ ctx'[t].pc = "writing" /\ ~Strict(t) /\ o.key \in Keys
                      /\ o.op # "COMMIT"
                   \/ /\ PersistFails(t, ctx'[t].ops) /\ ctx'[t].pc = "open"
                      /\ ctx'[t].written = ctx[t].written
  <2> DEFINE o == WriteOp(k, v)
  <2>1. o \in OpRecs /\ o.key = k /\ o.op # "COMMIT"
    BY OpFacts DEF WriteOp, Op
  <2>2. Append(ctx[t].ops, o) \in OpSeqs
    BY <1>s, <2>1, AppendOp DEF CtxShape, Contexts
  <2>3. /\ Others(t) /\ ctx[t].pc = "open" /\ ~Strict(t) /\ ctx'[t].ops = Append(ctx[t].ops, o)
        /\ ctx'[t].level = ctx[t].level
        /\ \/ Persist(t, Append(ctx[t].ops, o)) /\ ctx'[t].pc = "writing"
              /\ ctx'[t].written = Len(Append(ctx[t].ops, o))
           \/ PersistFails(t, Append(ctx[t].ops, o)) /\ ctx'[t].pc = "open"
              /\ ctx'[t].written = ctx[t].written
    BY <1>s, <1>1, LogWriteFields
  <2>4. UNCHANGED <<vars, cur, frozen, ssts, flush>>
    BY <1>1, WriteFrame
  <2> HIDE DEF o
  <2> QED
    BY <2>1, <2>2, <2>3, <2>4
<1>2. ASSUME NEW t \in Tx, CommitLog(t)
      PROVE  \E o \in OpRecs :
                /\ ctx[t].pc = "open" /\ Others(t) /\ UNCHANGED <<vars, cur, frozen, ssts, flush>>
                /\ ctx'[t].ops = Append(ctx[t].ops, o) /\ Append(ctx[t].ops, o) \in OpSeqs
                /\ ctx'[t].level = ctx[t].level
                /\ \/ /\ Persist(t, ctx'[t].ops) /\ ctx'[t].written = Len(ctx'[t].ops)
                      /\ ctx'[t].pc = "logged" /\ o = Op("COMMIT", "marker", "val")
                   \/ /\ PersistFails(t, ctx'[t].ops) /\ ctx'[t].pc = "open"
                      /\ ctx'[t].written = ctx[t].written
  <2> DEFINE o == Op("COMMIT", "marker", "val")
  <2>1. o \in OpRecs /\ o = Op("COMMIT", "marker", "val")
    BY OpFacts
  <2>2. Append(ctx[t].ops, o) \in OpSeqs
    BY <1>s, <2>1, AppendOp DEF CtxShape, Contexts
  <2>3. /\ Others(t) /\ ctx[t].pc = "open" /\ ctx'[t].ops = Append(ctx[t].ops, o)
        /\ ctx'[t].level = ctx[t].level
        /\ \/ Persist(t, Append(ctx[t].ops, o)) /\ ctx'[t].pc = "logged"
              /\ ctx'[t].written = Len(Append(ctx[t].ops, o))
           \/ PersistFails(t, Append(ctx[t].ops, o)) /\ ctx'[t].pc = "open"
              /\ ctx'[t].written = ctx[t].written
    BY <1>s, <1>2, CommitLogFields DEF CommitReady, Endable, Usable
  <2>4. UNCHANGED <<vars, cur, frozen, ssts, flush>>
    BY <1>2, EndFrame
  <2> HIDE DEF o
  <2> QED
    BY <2>1, <2>2, <2>3, <2>4
<1>3. ASSUME NEW t \in Tx,
             \/ \E k \in Keys, v \in Vals : StageWrite(t, k, v)
             \/ ApplyWrite(t) \/ (\E k \in Keys : ReadMem(t, k))
             \/ ReadSsts(t) \/ ReadVersion(t) \/ ReadReturn(t)
             \/ CommitConflict(t) \/ CommitApply(t) \/ Abort(t)
      PROVE  UNCHANGED <<wal, walFailed>>
  BY <1>3, WriteFrame, ReadFrame, EndFrame
<1>4. CASE (\E level \in Levels : Begin(level)) \/ FlushLock \/ FlushStep \/ UNCHANGED tvars
  BY <1>4, BeginFrame, FlushFrame, TvarsFrame
<1> QED
  BY <1>1, <1>2, <1>3, <1>4 DEF TNext

\* Every step keeps the log of a transaction a prefix of its operations: what
\* write_to_wal appends is what was not written yet.
LEMMA LogInvStep ==
    TypeOK /\ Shapes /\ CtxInv /\ OpsInv /\ LogInv /\ [TNext]_tvars => LogInv'
<1> SUFFICES ASSUME TypeOK, Shapes, CtxInv, OpsInv, LogInv, [TNext]_tvars PROVE LogInv'
  OBVIOUS
<1>s. /\ CtxShape /\ WalShape
      /\ \A t \in Tx : /\ ctx[t].ops \in OpSeqs /\ ctx[t].written \in Nat
                       /\ wal[t] \in OpSeqs /\ OpsOk(ctx[t])
  BY DEF Shapes, CtxShape, Contexts, WalShape, OpsInv
<1> DEFINE Log(t) == /\ Len(wal[t]) = ctx[t].written
                     /\ \A i \in 1..ctx[t].written : wal[t][i] = ctx[t].ops[i]
<1>u. ASSUME NEW t \in Tx, UNCHANGED <<wal, walFailed>>, Others(t),
             Good(t)' /\ ctx'[t].pc # "aborted" => Log(t)'
      PROVE  LogInv'
  BY <1>u DEF LogInv, Good, Others
<1>1. ASSUME NEW level \in Levels, Begin(level) PROVE LogInv'
  <2>0. PICK t \in Tx : t = nextTransactionId
    BY <1>s, <1>1, BeginFields
  <2>1. t \in Tx /\ Others(t) /\ ctx'[t].pc = "open" /\ ctx'[t].written = 0
    BY <1>s, <1>1, <2>0, BeginFields
  <2>2. UNCHANGED <<wal, walFailed>>
    BY <1>1, BeginFrame
  <2>3. ctx[t].pc = "none" /\ ctx[t].written = 0
    <3>1. ctx[t].pc = "none"
      BY <2>0, MaxIdAssumption DEF CtxInv, TypeOK
    <3> QED
      BY <1>s, <2>1, <3>1 DEF OpsOk
  <2>4. Good(t)' => Len(wal'[t]) = 0
    BY <2>1, <2>2, <2>3 DEF LogInv, Good
  <2>5. Good(t)' => Log(t)'
    BY <2>1, <2>4
  <2> HIDE DEF Log
  <2> QED
    BY <1>u, <2>1, <2>2, <2>5
<1>2. ASSUME NEW t \in Tx, NEW k \in Keys, NEW v \in Vals, StageWrite(t, k, v)
      PROVE  LogInv'
  <2>1. /\ Others(t) /\ ctx[t].pc = "open" /\ ctx'[t].pc = ctx[t].pc
        /\ ctx'[t].ops = Append(ctx[t].ops, WriteOp(k, v)) /\ ctx'[t].written = ctx[t].written
    BY <1>s, <1>2, StageFields
  <2>2. UNCHANGED <<wal, walFailed>>
    BY <1>2, WriteFrame
  <2>3. Good(t)' => Log(t)
    BY <2>1, <2>2 DEF LogInv, Good
  <2>4. \A i \in 1..ctx[t].written : ctx'[t].ops[i] = ctx[t].ops[i]
    <3>1. ctx[t].ops \in OpSeqs /\ ctx[t].written <= Len(ctx[t].ops) /\ ctx[t].written \in Nat
      BY <1>s, <2>1 DEF OpsOk
    <3>2. /\ Len(ctx[t].ops) \in Nat /\ DOMAIN ctx[t].ops = 1..Len(ctx[t].ops)
          /\ \A i \in DOMAIN ctx[t].ops : ctx'[t].ops[i] = ctx[t].ops[i]
      <4>1. WriteOp(k, v) \in OpRecs
        BY OpFacts
      <4> QED
        BY <2>1, <3>1, <4>1, AppendOp
    <3>3. \A i \in 1..ctx[t].written : i \in DOMAIN ctx[t].ops
      BY <3>1, <3>2
    <3> QED
      BY <3>2, <3>3
  <2>5. Good(t)' => Log(t)'
    BY <2>1, <2>2, <2>3, <2>4
  <2> HIDE DEF Log
  <2> QED
    BY <1>u, <2>1, <2>2, <2>5
<1>3. ASSUME NEW t \in Tx, ApplyWrite(t) \/ CommitApply(t) \/ ReadReturn(t)
      PROVE  LogInv'
  <2>1. /\ Others(t) /\ ctx'[t].ops = ctx[t].ops /\ ctx'[t].written = ctx[t].written
        /\ \/ ctx'[t].pc = ctx[t].pc
           \/ ctx[t].pc = "writing" /\ ctx'[t].pc = "open"
           \/ ctx[t].pc = "logged" /\ ctx'[t].pc = "committed"
    BY <1>s, <1>3, ApplyFields, ReturnFields
  <2>2. UNCHANGED <<wal, walFailed>>
    BY <1>3, WriteFrame, EndFrame, ReadFrame
  <2>3. Good(t)' /\ ctx'[t].pc # "aborted" => Log(t)
    BY <2>1, <2>2 DEF LogInv, Good
  <2>4. Good(t)' /\ ctx'[t].pc # "aborted" => Log(t)'
    BY <2>1, <2>2, <2>3
  <2> HIDE DEF Log
  <2> QED
    BY <1>u, <2>1, <2>2, <2>4
<1>4. ASSUME NEW t \in Tx, CommitConflict(t) \/ Abort(t) PROVE LogInv'
  <2>1. Others(t) /\ ctx'[t].pc = "aborted"
    BY <1>s, <1>4, ConflictFields, AbortFields
  <2>2. UNCHANGED <<wal, walFailed>>
    BY <1>4, EndFrame
  <2> HIDE DEF Log
  <2> QED
    BY <1>u, <2>1, <2>2
<1>5. ASSUME UNCHANGED <<ctx, wal, walFailed>> PROVE LogInv'
  BY <1>5 DEF LogInv, Good
<1>6. ASSUME NEW t \in Tx,
             (\E k \in Keys : ReadMem(t, k)) \/ ReadSsts(t) \/ ReadVersion(t)
      PROVE LogInv'
  BY <1>5, <1>6, ReadFrame
<1>7. CASE FlushLock \/ FlushStep \/ UNCHANGED tvars
  BY <1>5, <1>7, FlushFrame, TvarsFrame
<1>8. ASSUME NEW t \in Tx, NEW o \in OpRecs, Others(t), ctx[t].pc = "open",
             ctx'[t].ops = Append(ctx[t].ops, o), Append(ctx[t].ops, o) \in OpSeqs,
             \/ /\ Persist(t, ctx'[t].ops) /\ ctx'[t].written = Len(ctx'[t].ops)
             \/ /\ PersistFails(t, ctx'[t].ops) /\ ctx'[t].pc = "open"
      PROVE  LogInv'
  <2> DEFINE ops == ctx'[t].ops
             w == ctx[t].written
  <2>1. ops \in OpSeqs /\ Len(ops) = Len(ctx[t].ops) + 1 /\ Len(ctx[t].ops) \in Nat
        /\ DOMAIN ctx[t].ops = 1..Len(ctx[t].ops)
        /\ \A i \in DOMAIN ctx[t].ops : ops[i] = ctx[t].ops[i]
    BY <1>s, <1>8, AppendOp
  <2>2. w <= Len(ctx[t].ops) /\ w \in Nat
    BY <1>s, <1>8 DEF OpsOk
  <2>w. wal \in [Tx -> OpSeqs] /\ walFailed \in BOOLEAN
    BY <1>s DEF WalShape
  <2>3. ASSUME NEW u \in Tx, u # t, Good(u)', ctx'[u].pc # "aborted" PROVE Log(u)'
    <3>1. ctx'[u] = ctx[u] /\ wal'[u] = wal[u] /\ (walFailed => walFailed')
      <4>1. \/ Persist(t, ops) \/ PersistFails(t, ops)
        BY <1>8
      <4> HIDE DEF ops
      <4>2. wal'[u] = wal[u] /\ (walFailed' = TRUE \/ walFailed = FALSE)
        BY <1>s, <2>1, <2>3, <4>1, PersistGrows
      <4> QED
        BY <1>8, <2>3, <4>2 DEF Others
    <3>2. Good(u) /\ ctx[u].pc # "aborted"
      BY <2>3, <3>1 DEF Good
    <3>3. Log(u)
      BY <3>2 DEF LogInv
    <3> QED
      BY <3>1, <3>3
  <2>4. CASE Persist(t, ops) /\ ctx'[t].written = Len(ops)
    <3>0. w <= Len(ops)
      BY <2>1, <2>2
    <3> HIDE DEF ops
    <3>1. /\ Len(wal'[t]) = Len(wal[t]) + (Len(ops) - w) /\ ~walFailed
          /\ \A j \in 1..(Len(ops) - w) : wal'[t][Len(wal[t]) + j] = ops[w + j]
      BY <1>s, <2>1, <2>4, <3>0, PersistAll
    <3>2. \A i \in DOMAIN wal[t] : wal'[t][i] = wal[t][i]
      BY <1>s, <2>1, <2>4, PersistGrows
    <3>3. Len(wal[t]) = w /\ \A i \in 1..w : wal[t][i] = ctx[t].ops[i]
      BY <1>8, <3>1 DEF LogInv, Good
    <3>4. DOMAIN wal[t] = 1..w
      BY <1>s, <3>3, OpBasics
    <3>5. Len(wal'[t]) = Len(ops)
      BY <2>1, <2>2, <3>1, <3>3
    <3>6. ASSUME NEW i \in 1..Len(ops) PROVE wal'[t][i] = ops[i]
      <4>1. CASE i <= w
        <5>1. i \in 1..w /\ i \in DOMAIN ctx[t].ops
          BY <2>1, <2>2, <4>1
        <5> QED
          BY <2>1, <3>2, <3>3, <3>4, <5>1
      <4>2. CASE i > w
        <5> DEFINE j == i - w
        <5>1. j \in 1..(Len(ops) - w) /\ w + j = i
          BY <2>1, <2>2, <4>2
        <5> HIDE DEF j
        <5> QED
          BY <3>1, <3>3, <5>1
      <4> QED
        BY <2>1, <2>2, <4>1, <4>2
    <3>7. Log(t)'
      BY <2>4, <3>5, <3>6 DEF ops
    <3> HIDE DEF Log
    <3>8. \A u \in Tx : Good(u)' /\ ctx'[u].pc # "aborted" => Log(u)'
      BY <2>3, <3>7
    <3> QED
      BY <3>8 DEF LogInv, Log
  <2>5. CASE PersistFails(t, ops) /\ ctx'[t].pc = "open"
    <3>1. ~Good(t)'
      BY <2>5 DEF PersistFails, Good
    <3> HIDE DEF Log
    <3>2. \A u \in Tx : Good(u)' /\ ctx'[u].pc # "aborted" => Log(u)'
      BY <2>3, <3>1
    <3> QED
      BY <3>2 DEF LogInv, Log
  <2> QED
    BY <1>8, <2>4, <2>5
<1>9. ASSUME NEW t \in Tx, NEW k \in Keys, NEW v \in Vals, LogWrite(t, k, v) PROVE LogInv'
  <2>1. WriteOp(k, v) \in OpRecs
    BY OpFacts
  <2>2. Append(ctx[t].ops, WriteOp(k, v)) \in OpSeqs
    BY <1>s, <2>1, AppendOp
  <2> DEFINE o == WriteOp(k, v)
  <2> HIDE DEF Log
  <2>3. /\ Others(t) /\ ctx[t].pc = "open" /\ ctx'[t].ops = Append(ctx[t].ops, o)
        /\ \/ Persist(t, Append(ctx[t].ops, o)) /\ ctx'[t].written = Len(Append(ctx[t].ops, o))
           \/ PersistFails(t, Append(ctx[t].ops, o)) /\ ctx'[t].pc = "open"
    BY <1>s, <1>9, LogWriteFields
  <2> HIDE DEF o
  <2> QED
    BY <1>8, <2>1, <2>2, <2>3 DEF o
<1>10. ASSUME NEW t \in Tx, CommitLog(t) PROVE LogInv'
  <2> DEFINE o == Op("COMMIT", "marker", "val")
  <2>1. o \in OpRecs
    BY OpFacts
  <2>2. Append(ctx[t].ops, o) \in OpSeqs
    BY <1>s, <2>1, AppendOp
  <2> HIDE DEF Log
  <2>3. /\ Others(t) /\ ctx[t].pc = "open" /\ ctx'[t].ops = Append(ctx[t].ops, o)
        /\ \/ Persist(t, Append(ctx[t].ops, o)) /\ ctx'[t].written = Len(Append(ctx[t].ops, o))
           \/ PersistFails(t, Append(ctx[t].ops, o)) /\ ctx'[t].pc = "open"
    BY <1>s, <1>10, CommitLogFields DEF CommitReady, Endable, Usable
  <2> HIDE DEF o
  <2> QED
    BY <1>8, <2>1, <2>2, <2>3
<1> QED
  BY <1>1, <1>2, <1>3, <1>4, <1>6, <1>7, <1>9, <1>10 DEF TNext

\* Appending an operation keeps a COMMIT record, and may be one.
LEMMA EndsAppend ==
    ASSUME NEW ops \in OpSeqs, NEW o \in OpRecs
    PROVE  /\ Ends(ops) => Ends(Append(ops, o))
           /\ o.op = "COMMIT" => Ends(Append(ops, o))
<1>1. /\ DOMAIN Append(ops, o) = 1..(Len(ops) + 1) /\ Append(ops, o)[Len(ops) + 1] = o
      /\ Len(ops) \in Nat /\ DOMAIN ops = 1..Len(ops)
      /\ \A i \in DOMAIN ops : Append(ops, o)[i] = ops[i]
  BY AppendOp
<1>2. Len(ops) + 1 \in 1..(Len(ops) + 1) /\ \A i \in 1..Len(ops) : i \in 1..(Len(ops) + 1)
  BY <1>1
<1> QED
  BY <1>1, <1>2 DEF Ends

\* Every step keeps the COMMIT record where commit put it: in the log only of a
\* transaction that has it in its list.
LEMMA EndInvStep ==
    TypeOK /\ Shapes /\ CtxInv /\ OpsInv /\ LogInv /\ EndInv /\ [TNext]_tvars => EndInv'
<1> SUFFICES ASSUME TypeOK, Shapes, CtxInv, OpsInv, LogInv, EndInv, [TNext]_tvars
             PROVE  EndInv'
  OBVIOUS
<1>s. /\ CtxShape /\ WalShape
      /\ \A t \in Tx : /\ ctx[t].ops \in OpSeqs /\ ctx[t].written \in Nat
                       /\ wal[t] \in OpSeqs /\ OpsOk(ctx[t])
  BY DEF Shapes, CtxShape, Contexts, WalShape, OpsInv
<1> DEFINE End(t) == /\ ctx[t].pc # "aborted" /\ Ends(wal[t]) => Ends(ctx[t].ops)
                     /\ ctx[t].pc = "aborted" => ~Ends(wal[t])
                     /\ ctx[t].pc \in {"logged", "committed"} => Ends(wal[t])
<1>e. \A t \in Tx : End(t)
  BY DEF EndInv
<1>u. ASSUME NEW t \in Tx, wal' = wal, Others(t), End(t)' PROVE EndInv'
  BY <1>u DEF EndInv, Others
<1>1. ASSUME NEW level \in Levels, Begin(level) PROVE EndInv'
  <2>0. PICK t \in Tx : t = nextTransactionId
    BY <1>s, <1>1, BeginFields
  <2>1. t \in Tx /\ Others(t) /\ ctx'[t].pc = "open"
    BY <1>s, <1>1, <2>0, BeginFields
  <2>2. wal' = wal
    BY <1>1, BeginFrame
  <2>3. ctx[t].pc = "none" /\ ctx[t].ops = <<>>
    <3>1. ctx[t].pc = "none"
      BY <2>0, MaxIdAssumption DEF CtxInv, TypeOK
    <3> QED
      BY <1>s, <2>1, <3>1 DEF OpsOk
  <2>4. ~Ends(wal[t])
    BY <1>e, <2>3 DEF Ends
  <2>5. End(t)'
    BY <2>1, <2>2, <2>4
  <2> HIDE DEF End
  <2> QED
    BY <1>u, <2>1, <2>2, <2>5
<1>2. ASSUME NEW t \in Tx, NEW k \in Keys, NEW v \in Vals, StageWrite(t, k, v)
      PROVE  EndInv'
  <2>1. /\ Others(t) /\ ctx[t].pc = "open" /\ ctx'[t].pc = ctx[t].pc
        /\ ctx'[t].ops = Append(ctx[t].ops, WriteOp(k, v))
    BY <1>s, <1>2, StageFields
  <2>2. wal' = wal
    BY <1>2, WriteFrame
  <2>3. Ends(ctx[t].ops) => Ends(ctx'[t].ops)
    <3>1. WriteOp(k, v) \in OpRecs
      BY OpFacts
    <3> QED
      BY <1>s, <2>1, <3>1, EndsAppend
  <2>4. End(t)'
    BY <1>e, <2>1, <2>2, <2>3
  <2> HIDE DEF End
  <2> QED
    BY <1>u, <2>1, <2>2, <2>4
<1>3. ASSUME NEW t \in Tx, ApplyWrite(t) \/ CommitApply(t) \/ ReadReturn(t)
      PROVE  EndInv'
  <2>1. /\ Others(t) /\ ctx'[t].ops = ctx[t].ops
        /\ \/ ctx'[t].pc = ctx[t].pc
           \/ ctx[t].pc = "writing" /\ ctx'[t].pc = "open"
           \/ ctx[t].pc = "logged" /\ ctx'[t].pc = "committed"
    BY <1>s, <1>3, ApplyFields, ReturnFields
  <2>2. wal' = wal
    BY <1>3, WriteFrame, EndFrame, ReadFrame
  <2>3. End(t)'
    BY <1>e, <2>1, <2>2
  <2> HIDE DEF End
  <2> QED
    BY <1>u, <2>1, <2>2, <2>3
<1>4. ASSUME NEW t \in Tx, CommitConflict(t) \/ Abort(t) PROVE EndInv'
  <2>1. Others(t) /\ ctx'[t].pc = "aborted" /\ ctx[t].pc = "open" /\ ~Ends(ctx[t].ops)
    BY <1>s, <1>4, ConflictFields, AbortFields DEF Endable, Usable
  <2>2. wal' = wal
    BY <1>4, EndFrame
  <2>3. End(t)'
    BY <1>e, <2>1, <2>2
  <2> HIDE DEF End
  <2> QED
    BY <1>u, <2>1, <2>2, <2>3
<1>5. ASSUME UNCHANGED <<ctx, wal>> PROVE EndInv'
  BY <1>5 DEF EndInv
<1>6. ASSUME NEW t \in Tx,
             (\E k \in Keys : ReadMem(t, k)) \/ ReadSsts(t) \/ ReadVersion(t)
      PROVE EndInv'
  BY <1>5, <1>6, ReadFrame
<1>7. CASE FlushLock \/ FlushStep \/ UNCHANGED tvars
  BY <1>5, <1>7, FlushFrame, TvarsFrame
<1>8. ASSUME NEW t \in Tx, NEW o \in OpRecs, Others(t), ctx[t].pc = "open",
             ctx'[t].ops = Append(ctx[t].ops, o), Append(ctx[t].ops, o) \in OpSeqs,
             \/ /\ Persist(t, ctx'[t].ops) /\ ctx'[t].written = Len(ctx'[t].ops)
                /\ ctx'[t].pc = "writing" \/ (ctx'[t].pc = "logged" /\ o.op = "COMMIT")
             \/ /\ PersistFails(t, ctx'[t].ops) /\ ctx'[t].pc = "open"
      PROVE  EndInv'
  <2> DEFINE ops == ctx'[t].ops
  <2>1. ops \in OpSeqs /\ (Persist(t, ops) \/ PersistFails(t, ops))
    BY <1>8
  <2>2. /\ \A u \in Tx : u # t => wal'[u] = wal[u]
        /\ \A i \in DOMAIN wal[t] : i \in DOMAIN wal'[t] /\ wal'[t][i] = wal[t][i]
        /\ \A i \in DOMAIN wal'[t] :
             i \in DOMAIN wal[t] \/ \E j \in DOMAIN ops : wal'[t][i] = ops[j]
    <3> HIDE DEF ops
    <3> QED
      BY <1>s, <2>1, PersistGrows
  <2>3. (Ends(ctx[t].ops) => Ends(ops)) /\ (o.op = "COMMIT" => Ends(ops))
    BY <1>s, <1>8, EndsAppend
  <2>4. Ends(wal'[t]) => Ends(ops)
    <3> HIDE DEF ops
    <3>1. Ends(wal'[t]) => Ends(wal[t]) \/ Ends(ops)
      BY <2>2 DEF Ends
    <3> QED
      BY <1>e, <1>8, <2>3, <3>1
  <2>5. ctx'[t].pc = "logged" => Ends(wal'[t])
    <3>1. SUFFICES ASSUME ctx'[t].pc = "logged" PROVE Ends(wal'[t])
      OBVIOUS
    <3>2. /\ Persist(t, ops) /\ o.op = "COMMIT"
      BY <1>8, <3>1
    <3>3. /\ Len(ops) = Len(ctx[t].ops) + 1 /\ ops[Len(ops)] = o /\ Len(ctx[t].ops) \in Nat
          /\ ctx[t].written <= Len(ctx[t].ops) /\ ctx[t].written \in Nat
      BY <1>s, <1>8, AppendOp DEF OpsOk
    <3> DEFINE w == ctx[t].written
               j == Len(ops) - w
    <3> HIDE DEF ops
    <3>4. w <= Len(ops) /\ j \in 1..(Len(ops) - w) /\ w + j = Len(ops)
      BY <3>3
    <3>5. wal'[t][Len(wal[t]) + j] = o /\ Len(wal'[t]) = Len(wal[t]) + j
      BY ZenonT(40), <1>s, <2>1, <3>2, <3>3, <3>4, PersistAll
    <3>6. wal'[t] \in OpSeqs /\ Len(wal[t]) \in Nat
      <4>1. WalShape'
        BY WalStep
      <4> QED
        BY <1>s, <4>1, OpBasics DEF WalShape
    <3>7. Len(wal'[t]) \in DOMAIN wal'[t]
      <4>1. DOMAIN wal'[t] = 1..Len(wal'[t])
        BY <3>6, OpBasics
      <4> HIDE DEF j
      <4>2. j >= 1 /\ j \in Nat
        BY <3>3, <3>4 DEF j
      <4> QED
        BY <3>5, <3>6, <4>1, <4>2
    <3> HIDE DEF j
    <3> QED
      BY <3>2, <3>5, <3>7 DEF Ends
  <2>6. End(t)'
    BY <1>8, <2>4, <2>5
  <2>7. \A u \in Tx : u # t => End(u)'
    BY <1>e, <1>8, <2>2 DEF Others
  <2> HIDE DEF End
  <2>8. \A u \in Tx : End(u)'
    BY <2>6, <2>7
  <2> QED
    BY <2>8 DEF EndInv, End
<1>9. ASSUME NEW t \in Tx, NEW k \in Keys, NEW v \in Vals, LogWrite(t, k, v) PROVE EndInv'
  <2> DEFINE o == WriteOp(k, v)
  <2>1. o \in OpRecs
    BY OpFacts
  <2>2. Append(ctx[t].ops, o) \in OpSeqs
    BY <1>s, <2>1, AppendOp
  <2> HIDE DEF End
  <2>3. /\ Others(t) /\ ctx[t].pc = "open" /\ ctx'[t].ops = Append(ctx[t].ops, o)
        /\ \/ Persist(t, Append(ctx[t].ops, o)) /\ ctx'[t].written = Len(Append(ctx[t].ops, o))
              /\ ctx'[t].pc = "writing"
           \/ PersistFails(t, Append(ctx[t].ops, o)) /\ ctx'[t].pc = "open"
    BY <1>s, <1>9, LogWriteFields
  <2> HIDE DEF o
  <2> QED
    BY <1>8, <2>1, <2>2, <2>3
<1>10. ASSUME NEW t \in Tx, CommitLog(t) PROVE EndInv'
  <2> DEFINE o == Op("COMMIT", "marker", "val")
  <2>1. o \in OpRecs /\ o.op = "COMMIT"
    BY OpFacts DEF Op
  <2>2. Append(ctx[t].ops, o) \in OpSeqs
    BY <1>s, <2>1, AppendOp
  <2> HIDE DEF End
  <2>3. /\ Others(t) /\ ctx[t].pc = "open" /\ ctx'[t].ops = Append(ctx[t].ops, o)
        /\ \/ Persist(t, Append(ctx[t].ops, o)) /\ ctx'[t].written = Len(Append(ctx[t].ops, o))
              /\ ctx'[t].pc = "logged"
           \/ PersistFails(t, Append(ctx[t].ops, o)) /\ ctx'[t].pc = "open"
    BY <1>s, <1>10, CommitLogFields DEF CommitReady, Endable, Usable
  <2> HIDE DEF o
  <2> QED
    BY <1>8, <2>1, <2>2, <2>3
<1> QED
  BY <1>1, <1>2, <1>3, <1>4, <1>6, <1>7, <1>9, <1>10 DEF TNext

\* The log of a transaction only grows.
LEMMA WalGrows ==
    ASSUME TypeOK, Shapes, [TNext]_tvars, NEW t \in Tx, NEW i \in DOMAIN wal[t]
    PROVE  i \in DOMAIN wal'[t] /\ wal'[t][i] = wal[t][i]
<1>1. CASE wal' = wal
  BY <1>1
<1>2. ASSUME NEW u \in Tx, NEW ops \in OpSeqs, Persist(u, ops) \/ PersistFails(u, ops)
      PROVE  i \in DOMAIN wal'[t] /\ wal'[t][i] = wal[t][i]
  <2>1. /\ \A x \in Tx : x # u => wal'[x] = wal[x]
        /\ \A x \in DOMAIN wal[u] : x \in DOMAIN wal'[u] /\ wal'[u][x] = wal[u][x]
    BY <1>2, PersistGrows DEF Shapes
  <2> QED
    BY <2>1
<1>3. wal' = wal \/ \E u \in Tx, ops \in OpSeqs : Persist(u, ops) \/ PersistFails(u, ops)
  BY WalCases
<1> QED
  BY <1>1, <1>2, <1>3

-----------------------------------------------------------------------------
(* How the tables move.                                                     *)

Built == IF flush.ph = "built" THEN 1 ELSE 0

\* Where each table is in AllTables.
Layout ==
    /\ AllTables \in Tables /\ Len(frozen) \in Nat /\ Len(ssts) \in Nat /\ Built \in {0, 1}
    /\ Len(AllTables) = 1 + Len(frozen) + Built + Len(ssts)
    /\ DOMAIN AllTables = 1..Len(AllTables)
    /\ Unflushed = 1 + Len(frozen) + Built
    /\ AllTables[1] = cur
    /\ \A i \in 1..Len(frozen) : AllTables[1 + i] = frozen[i]
    /\ flush.ph = "built" => AllTables[2 + Len(frozen)] = flush.table
    /\ \A i \in 1..Len(ssts) : AllTables[Unflushed + i] = ssts[i]

\* Where a table stands in the order in which a read visits them: current,
\* frozen, the one being built, SSTs.
LEMMA AllTablesAt == TableShapes /\ FlushShape => Layout
<1> SUFFICES ASSUME TableShapes, FlushShape PROVE Layout
  OBVIOUS
<1> DEFINE n == Len(frozen)
           B == IF flush.ph = "built" THEN <<flush.table>> ELSE <<>>
           M == MemTables
           A == M \o B
<1>0. frozen \in Tables /\ ssts \in Tables /\ cur \in SUBSET Recs
  BY DEF TableShapes
<1>1. Len(ssts) \in Nat /\ n \in Nat /\ DOMAIN frozen = 1..n /\ DOMAIN ssts = 1..Len(ssts)
  BY <1>0, TableBasics
<1>2. /\ M \in Tables /\ Len(M) = n + 1 /\ M[1] = cur
      /\ \A i \in 1..n : M[i + 1] = frozen[i]
  BY <1>0, <1>1, PushTable DEF MemTables
<1>3. B \in Tables /\ Len(B) = Built /\ (flush.ph = "built" => B[1] = flush.table)
  <2>1. CASE flush.ph = "built"
    <3>1. flush.table \in SUBSET Recs
      BY <2>1 DEF FlushShape, Flushes, NoFlush
    <3>2. <<flush.table>> \in Seq(SUBSET Recs)
      BY <3>1
    <3> QED
      BY <2>1, <3>2 DEF Tables, Built
  <2>2. CASE flush.ph # "built"
    BY <2>2, EmptyContext DEF Built
  <2> QED
    BY <2>1, <2>2
<1>4. Built \in {0, 1}
  BY DEF Built
<1>a. AllTables = A \o ssts
  BY DEF AllTables
<1> HIDE DEF n, B, M
<1>5. DOMAIN M = 1..(n + 1) /\ DOMAIN B = 1..Built
  <2>1. DOMAIN M = 1..Len(M)
    BY <1>2, TableBasics
  <2>2. DOMAIN B = 1..Len(B)
    BY <1>3, TableBasics
  <2> QED
    BY <1>2, <1>3, <2>1, <2>2
<1>6. /\ A \in Tables /\ Len(A) = n + 1 + Built
      /\ \A i \in 1..(n + 1) : A[i] = M[i]
      /\ \A i \in 1..Built : A[(n + 1) + i] = B[i]
  <2>1. M \in Tables /\ B \in Tables
    BY <1>2, <1>3
  <2>2. /\ M \o B \in Tables /\ Len(M \o B) = Len(M) + Len(B)
        /\ \A i \in DOMAIN M : (M \o B)[i] = M[i]
        /\ \A i \in DOMAIN B : (M \o B)[Len(M) + i] = B[i]
    BY <2>1, JoinTables
  <2> QED
    BY <1>2, <1>3, <1>5, <2>2
<1> HIDE DEF A
<1>7. /\ A \o ssts \in Tables /\ Len(A \o ssts) = Len(A) + Len(ssts)
      /\ \A i \in DOMAIN A : (A \o ssts)[i] = A[i]
      /\ \A i \in DOMAIN ssts : (A \o ssts)[Len(A) + i] = ssts[i]
  BY <1>0, <1>6, JoinTables
<1>8. DOMAIN A = 1..(n + 1 + Built) /\ DOMAIN AllTables = 1..Len(AllTables)
  <2>1. DOMAIN A = 1..Len(A)
    BY <1>6, TableBasics
  <2>2. AllTables \in Tables
    BY <1>a, <1>7
  <2>3. DOMAIN AllTables = 1..Len(AllTables)
    BY <2>2, TableBasics
  <2> QED
    BY <1>6, <2>1, <2>3
<1>9. Len(AllTables) = 1 + n + Built + Len(ssts) /\ Unflushed = 1 + n + Built
  BY <1>a, <1>1, <1>4, <1>6, <1>7 DEF Unflushed
<1>10. AllTables[1] = cur
  <2>1. 1 \in DOMAIN A /\ 1 \in 1..(n + 1)
    BY <1>1, <1>4, <1>8
  <2> QED
    BY <1>a, <1>2, <1>6, <1>7, <2>1
<1>11. ASSUME NEW i \in 1..n PROVE AllTables[1 + i] = frozen[i]
  <2>1. 1 + i \in DOMAIN A /\ 1 + i \in 1..(n + 1) /\ 1 + i = i + 1
    BY <1>1, <1>4, <1>8
  <2>2. AllTables[1 + i] = A[1 + i] /\ A[1 + i] = M[1 + i]
    BY <1>a, <1>6, <1>7, <2>1
  <2> QED
    BY <1>2, <2>1, <2>2
<1>12. ASSUME flush.ph = "built" PROVE AllTables[2 + n] = flush.table
  <2>1. 2 + n \in DOMAIN A /\ 1 \in 1..Built /\ (n + 1) + 1 = 2 + n
    BY <1>1, <1>8, <1>12 DEF Built
  <2> QED
    BY <1>a, <1>3, <1>6, <1>7, <1>12, <2>1
<1>13. ASSUME NEW i \in 1..Len(ssts) PROVE AllTables[Unflushed + i] = ssts[i]
  <2>1. i \in DOMAIN ssts /\ Unflushed = Len(A)
    BY <1>1, <1>4, <1>6, <1>9
  <2> QED
    BY <1>a, <1>7, <2>1
<1>14. AllTables \in Tables
  BY <1>a, <1>7
<1> QED
  BY <1>1, <1>4, <1>8, <1>9, <1>10, <1>11, <1>12, <1>13, <1>14 DEF n, Layout

\* The active table becomes T, and moves behind a new empty one if it is
\* frozen (d = 1); the older tables keep their order.
TableMove(T, d) ==
    /\ Len(AllTables') = Len(AllTables) + d
    /\ AllTables'[1 + d] = T
    /\ d = 1 => AllTables'[1] = {}
    /\ \A i \in 2..Len(AllTables) : AllTables'[i + d] = AllTables[i]

\* A write or commit stores in the active table and may freeze it.
LEMMA StoreMove ==
    ASSUME TableShapes, FlushShape, TableShapes', FlushShape', NEW T \in SUBSET Recs,
           ssts' = ssts, flush' = flush \/ (flush.ph # "built" /\ flush'.ph # "built"),
           \/ cur' = T /\ frozen' = frozen
           \/ cur' = {} /\ frozen' = <<T>> \o frozen
    PROVE  \E d \in {0, 1} : TableMove(T, d) /\ Unflushed' = Unflushed + d
<1> DEFINE n == Len(frozen)
           m == Len(ssts)
           b == Built
           A == AllTables
           C == AllTables'
           F == frozen'
           u == Unflushed
<1>1. /\ n \in Nat /\ m \in Nat /\ b \in {0, 1} /\ Len(A) = 1 + n + b + m /\ u = 1 + n + b
      /\ A[1] = cur /\ (\A i \in 1..n : A[1 + i] = frozen[i])
      /\ (flush.ph = "built" => A[2 + n] = flush.table)
      /\ (\A i \in 1..m : A[u + i] = ssts[i])
  BY AllTablesAt DEF Layout
<1>2. /\ Len(F) \in Nat /\ Len(C) = 1 + Len(F) + b + m /\ Unflushed' = 1 + Len(F) + b
      /\ C[1] = cur' /\ (\A i \in 1..Len(F) : C[1 + i] = F[i])
      /\ (flush.ph = "built" => C[2 + Len(F)] = flush.table)
      /\ (\A i \in 1..m : C[Unflushed' + i] = ssts[i])
  <2>1. /\ Len(F) \in Nat /\ Len(C) = 1 + Len(F) + Built' + Len(ssts')
        /\ Unflushed' = 1 + Len(F) + Built'
        /\ C[1] = cur' /\ (\A i \in 1..Len(F) : C[1 + i] = F[i])
        /\ (flush'.ph = "built" => C[2 + Len(F)] = flush'.table)
        /\ (\A i \in 1..Len(ssts') : C[Unflushed' + i] = ssts'[i])
    <3>1. Layout'
      BY AllTablesAt, PTL
    <3> QED
      BY <3>1 DEF Layout
  <2>2. Built' = Built
    BY DEF Built
  <2> QED
    BY <2>1, <2>2
<1>b. (b = 1 <=> flush.ph = "built") /\ (b = 0 <=> flush.ph # "built")
  BY DEF Built
<1>n. /\ n \in Nat /\ m \in Nat /\ b \in {0, 1} /\ Len(A) = 1 + n + b + m /\ u = 1 + n + b
      /\ Unflushed' = 1 + Len(F) + b
  BY <1>1, <1>2
<1>3. CASE cur' = T /\ frozen' = frozen
  <2> HIDE DEF A, C, b, u
  <2>1. ASSUME NEW i \in 2..Len(A) PROVE C[i + 0] = A[i]
    <3>0. i + 0 = i /\ i \in Nat
      BY <1>1
    <3>1. CASE i <= 1 + n
      <4>1. (i - 1) \in 1..n /\ 1 + (i - 1) = i
        BY <1>1, <3>1
      <4> QED
        <5>1. A[1 + (i - 1)] = frozen[i - 1]
          BY <1>1, <4>1
        <5>2. C[1 + (i - 1)] = frozen[i - 1]
          BY <1>2, <1>3, <4>1
        <5> QED
          BY <3>0, <4>1, <5>1, <5>2
    <3>2. CASE i = 2 + n /\ b = 1
      BY <1>1, <1>2, <1>3, <1>b, <3>0, <3>2
    <3>3. CASE i > 1 + n + b
      <4>1. (i - u) \in 1..m /\ u + (i - u) = i /\ Unflushed' = u
        BY <1>1, <1>2, <1>3, <3>3
      <4> QED
        BY ZenonT(40), <1>1, <1>2, <3>0, <4>1
    <3> QED
      BY <1>1, <3>1, <3>2, <3>3
  <2>2. TableMove(T, 0)
    BY <1>1, <1>2, <1>3, <2>1 DEF TableMove, A, C
  <2> QED
    BY <1>1, <1>2, <1>3, <2>2 DEF u
<1>4. CASE cur' = {} /\ frozen' = <<T>> \o frozen
  <2>0. /\ Len(F) = n + 1 /\ F[1] = T /\ \A i \in 1..n : F[i + 1] = frozen[i]
    <3>1. frozen \in Tables
      BY DEF TableShapes
    <3>2. DOMAIN frozen = 1..n
      BY <3>1, TableBasics
    <3> QED
      BY <1>4, <3>1, <3>2, PushTable
  <2> HIDE DEF A, C, b, u, F, n, m
  <2>1. ASSUME NEW i \in 2..Len(A) PROVE C[i + 1] = A[i]
    <3>1. CASE i <= 1 + n
      <4>1. (i - 1) \in 1..n /\ 1 + (i - 1) = i /\ i \in 1..Len(F) /\ i + 1 = 1 + i
            /\ (i - 1) + 1 = i
        BY <1>1, <2>0, <3>1
      <4>2. C[i + 1] = F[i] /\ A[i] = frozen[i - 1]
        BY <1>1, <1>2, <4>1
      <4>3. F[i] = frozen[i - 1]
        BY <2>0, <4>1
      <4> QED
        BY <4>2, <4>3
    <3>2. CASE i = 2 + n /\ b = 1
      <4>1. 2 + Len(F) = i + 1
        BY <1>1, <2>0, <3>2
      <4> QED
        BY <1>1, <1>2, <1>b, <3>2, <4>1
    <3>3. CASE i > 1 + n + b
      <4>1. (i - u) \in 1..m /\ u + (i - u) = i /\ Unflushed' + (i - u) = i + 1
        BY <1>n, <2>0, <3>3
      <4>2. C[Unflushed' + (i - u)] = ssts[i - u] /\ A[u + (i - u)] = ssts[i - u]
        BY <1>1, <1>2, <4>1
      <4> QED
        BY <4>1, <4>2
    <3> QED
      BY <1>1, <3>1, <3>2, <3>3
  <2>2. C[1 + 1] = T
    <3>1. 1 \in 1..Len(F)
      BY <1>1, <2>0
    <3> QED
      BY <1>2, <2>0, <3>1
  <2>3. TableMove(T, 1)
    <3>1. Len(C) = Len(A) + 1 /\ C[1] = {}
      BY <1>1, <1>2, <1>4, <2>0
    <3> QED
      BY <2>1, <2>2, <3>1 DEF TableMove, A, C
  <2>4. Unflushed' = Unflushed + 1
    BY <1>1, <1>2, <2>0 DEF u
  <2> QED
    BY <2>3, <2>4
<1> QED
  BY <1>3, <1>4

\* Building and registering an SST leave every table where it is.
LEMMA FlushMove ==
    ASSUME TableShapes, FlushShape, TableShapes', FlushShape', LockInv, FlushBuilt \/ FlushRegister
    PROVE  /\ TableMove(cur, 0)
           /\ FlushBuilt => Unflushed' = Unflushed
           /\ FlushRegister => Unflushed' = Unflushed - 1
<1> DEFINE n == Len(frozen)
           m == Len(ssts)
           b == Built
           A == AllTables
           C == AllTables'
           F == frozen'
           S == ssts'
           u == Unflushed
<1>t. frozen \in Tables /\ ssts \in Tables
  BY DEF TableShapes
<1>1. /\ n \in Nat /\ m \in Nat /\ b \in {0, 1} /\ Len(A) = 1 + n + b + m /\ u = 1 + n + b
      /\ A[1] = cur /\ (\A i \in 1..n : A[1 + i] = frozen[i])
      /\ (flush.ph = "built" => A[2 + n] = flush.table)
      /\ (\A i \in 1..m : A[u + i] = ssts[i])
  BY AllTablesAt DEF Layout
<1>2. /\ Len(F) \in Nat /\ Len(S) \in Nat /\ Len(C) = 1 + Len(F) + Built' + Len(S)
      /\ Unflushed' = 1 + Len(F) + Built'
      /\ C[1] = cur' /\ (\A i \in 1..Len(F) : C[1 + i] = F[i])
      /\ (flush'.ph = "built" => C[2 + Len(F)] = flush'.table)
      /\ (\A i \in 1..Len(S) : C[Unflushed' + i] = S[i])
  <2>1. Layout'
    BY AllTablesAt, PTL
  <2> QED
    BY <2>1 DEF Layout
<1>3. CASE FlushBuilt
  <2>1. /\ flush.ph = "building" /\ flush' = [ph |-> "built", table |-> Last(frozen)]
        /\ F = Front(frozen) /\ cur' = cur /\ S = ssts /\ frozen # <<>>
    BY <1>3, FlushFrame DEF FlushBuilt, Oldest, LockInv
  <2>2. b = 0 /\ Built' = 1 /\ flush'.ph = "built" /\ flush'.table = Last(frozen)
    BY <2>1 DEF Built
  <2>3. /\ Len(F) = n - 1 /\ Last(frozen) = frozen[n] /\ n > 0
        /\ \A i \in DOMAIN F : F[i] = frozen[i]
    BY <1>t, <2>1, TableEnds, TableBasics
  <2>4. DOMAIN F = 1..(n - 1)
    <3>1. F \in Tables
      BY <1>t, <2>1, TableEnds
    <3> QED
      BY <2>3, <3>1, TableBasics
  <2> HIDE DEF n, m, b, A, C, F, S, u
  <2>5. Len(C) = Len(A) /\ Unflushed' = u /\ u = 1 + n /\ n \in Nat /\ m \in Nat
        /\ Len(A) = 1 + n + m /\ Len(S) = m
    BY <1>1, <1>2, <2>1, <2>2, <2>3 DEF S, m
  <2>6. ASSUME NEW i \in 2..Len(A) PROVE C[i + 0] = A[i]
    <3>0. i + 0 = i /\ i \in Nat
      BY <2>5
    <3>1. CASE i <= n
      <4>1. (i - 1) \in 1..n /\ 1 + (i - 1) = i /\ (i - 1) \in 1..(n - 1)
        BY <2>5, <3>1
      <4>2. A[1 + (i - 1)] = frozen[i - 1]
        BY <1>1, <4>1
      <4>3. C[1 + (i - 1)] = F[i - 1]
        BY <1>2, <2>3, <4>1
      <4> QED
        BY <2>3, <2>4, <3>0, <4>1, <4>2, <4>3
    <3>2. CASE i = n + 1
      <4>1. 2 + Len(F) = i /\ n \in 1..n /\ 1 + n = i
        BY <2>3, <2>5, <3>2
      <4>2. A[1 + n] = frozen[n]
        BY <1>1, <4>1
      <4>3. C[2 + Len(F)] = frozen[n]
        BY <1>2, <2>2, <2>3
      <4> QED
        BY <3>0, <4>1, <4>2, <4>3
    <3>3. CASE i > n + 1
      <4>1. (i - u) \in 1..m /\ u + (i - u) = i
        BY <2>5, <3>3
      <4>2. A[u + (i - u)] = ssts[i - u]
        BY <1>1, <4>1
      <4>3. C[u + (i - u)] = ssts[i - u]
        BY <1>2, <2>1, <2>5, <4>1
      <4> QED
        BY <3>0, <4>1, <4>2, <4>3
    <3> QED
      BY <2>5, <3>1, <3>2, <3>3
  <2>7. TableMove(cur, 0)
    <3>1. Len(C) = Len(A) + 0 /\ C[1 + 0] = cur /\ 0 # 1
      <4>1. C[1] = cur
        BY <1>2, <2>1
      <4> QED
        BY <2>5, <4>1
    <3> QED
      BY <2>6, <3>1 DEF TableMove, A, C
  <2> QED
    BY <1>3, <2>1, <2>5, <2>7 DEF u, FlushRegister
<1>4. CASE FlushRegister
  <2>1. /\ flush.ph = "built" /\ flush'.ph # "built" /\ S = <<flush.table>> \o ssts
        /\ F = frozen /\ cur' = cur
    BY <1>4, FlushFrame DEF FlushRegister, Reporting, NoFlush
  <2>2. b = 1 /\ Built' = 0
    BY <2>1 DEF Built
  <2>3. Len(S) = m + 1 /\ S[1] = flush.table /\ \A i \in 1..m : S[i + 1] = ssts[i]
    <3>1. flush.table \in SUBSET Recs
      BY <2>1 DEF FlushShape, Flushes, NoFlush
    <3>2. DOMAIN ssts = 1..m
      BY <1>t, TableBasics
    <3> QED
      BY <1>t, <2>1, <3>1, <3>2, PushTable
  <2> HIDE DEF n, m, b, A, C, F, S, u
  <2>5. Len(C) = Len(A) /\ Unflushed' = u - 1 /\ u = 2 + n /\ n \in Nat /\ m \in Nat
        /\ Len(A) = 2 + n + m /\ Len(F) = n
    <3>1. n \in Nat /\ m \in Nat /\ Len(A) = 1 + n + b + m /\ u = 1 + n + b
      BY <1>1
    <3>2. Len(C) = 1 + Len(F) + Built' + Len(S) /\ Unflushed' = 1 + Len(F) + Built'
      BY <1>2
    <3>3. Len(F) = n
      BY <2>1 DEF F, n
    <3> QED
      BY <2>2, <2>3, <3>1, <3>2, <3>3
  <2>6. ASSUME NEW i \in 2..Len(A) PROVE C[i + 0] = A[i]
    <3>0. i + 0 = i /\ i \in Nat
      BY <2>5
    <3>1. CASE i <= n + 1
      <4>1. (i - 1) \in 1..n /\ 1 + (i - 1) = i
        BY <2>5, <3>1
      <4>2. A[1 + (i - 1)] = frozen[i - 1]
        BY <1>1, <4>1
      <4>3. C[1 + (i - 1)] = F[i - 1]
        BY <1>2, <2>5, <4>1
      <4> QED
        BY <2>1, <3>0, <4>1, <4>2, <4>3
    <3>2. CASE i = n + 2
      <4>1. Unflushed' + 1 = i /\ 1 \in 1..Len(S) /\ 2 + n = i
        BY <2>3, <2>5, <3>2
      <4>2. A[2 + n] = flush.table
        BY <1>1, <2>1
      <4>3. C[Unflushed' + 1] = flush.table
        BY <1>2, <2>3, <4>1
      <4> QED
        BY <3>0, <4>1, <4>2, <4>3
    <3>3. CASE i > n + 2
      <4> DEFINE j == i - u
      <4>1. j \in 1..m /\ u + j = i /\ (j + 1) \in 1..Len(S) /\ Unflushed' + (j + 1) = i
        BY <2>3, <2>5, <3>3
      <4> HIDE DEF j
      <4>2. A[u + j] = ssts[j]
        BY <1>1, <4>1
      <4>3. C[Unflushed' + (j + 1)] = S[j + 1]
        BY <1>2, <4>1
      <4> QED
        BY <2>3, <3>0, <4>1, <4>2, <4>3
    <3> QED
      BY <2>5, <3>1, <3>2, <3>3
  <2>7. TableMove(cur, 0)
    <3>1. Len(C) = Len(A) + 0 /\ C[1 + 0] = cur /\ 0 # 1
      <4>1. C[1] = cur
        BY <1>2, <2>1
      <4> QED
        BY <2>5, <4>1
    <3> QED
      BY <2>6, <3>1 DEF TableMove, A, C
  <2> QED
    BY <1>4, <2>1, <2>5, <2>7 DEF u, FlushBuilt
<1> QED
  BY <1>3, <1>4

\* A write replaces the record of its version in the active table.
LEMMA WriteMove ==
    ASSUME TypeOK, Shapes, LockInv, OpsInv, [TNext]_tvars, NEW t \in Tx, ApplyWrite(t)
    PROVE  LET w == Last(ctx[t].ops)
               T == PutRec(cur, Rec(w.key, t, w.val))
           IN  /\ w.key \in Keys /\ Rec(w.key, t, w.val) \in Recs
               /\ \E d \in {0, 1} : TableMove(T, d) /\ Unflushed' = Unflushed + d
<1> DEFINE w == Last(ctx[t].ops)
           T == PutRec(cur, Rec(w.key, t, w.val))
<1>1. TableShapes /\ FlushShape /\ TableShapes' /\ FlushShape'
  BY TablesStep, FlushShapeStep DEF Shapes
<1>2. T \subseteq Recs /\ w.key \in Keys
  BY StoredShape DEF ApplyWrite, OpsInv, OpsOk
<1>3. Rec(w.key, t, w.val) \in Recs
  BY <1>2 DEF PutRec
<1>4. (cur' = T /\ frozen' = frozen) \/ (cur' = {} /\ frozen' = <<T>> \o frozen)
  BY DEF ApplyWrite, StoreCur, Freeze
<1>5. ssts' = ssts /\ flush' = flush
  BY WriteFrame
<1> HIDE DEF T, w
<1>6. \E d \in {0, 1} : TableMove(T, d) /\ Unflushed' = Unflushed + d
  BY <1>1, <1>2, <1>4, <1>5, StoreMove
<1> QED
  BY <1>2, <1>3, <1>6 DEF T, w

\* A commit puts its records and its marker into the active table.
LEMMA CommitMove ==
    ASSUME TypeOK, Shapes, LockInv, OpsInv, [TNext]_tvars, NEW t \in Tx, CommitApply(t)
    PROVE  \E d \in {0, 1} : TableMove(Applied(t), d) /\ Unflushed' = Unflushed + d
<1>1. TableShapes /\ FlushShape /\ TableShapes' /\ FlushShape'
  BY TablesStep, FlushShapeStep DEF Shapes
<1>2. Applied(t) \in SUBSET Recs
  BY StoredShape
<1>3. \/ cur' = Applied(t) /\ frozen' = frozen
      \/ cur' = {} /\ frozen' = <<Applied(t)>> \o frozen
  BY DEF CommitApply, Freeze
<1>4. ssts' = ssts /\ flush' = flush
  BY EndFrame
<1> QED
  BY <1>1, <1>2, <1>3, <1>4, StoreMove

Stores == \E t \in Tx : ApplyWrite(t) \/ CommitApply(t)

\* Every other step leaves the tables alone, or freezes the active one.
LEMMA QuietMove ==
    ASSUME TypeOK, Shapes, LockInv, OpsInv, [TNext]_tvars, ~Stores
    PROVE  \E d \in {0, 1} :
              /\ TableMove(cur, d)
              /\ \/ Unflushed' = Unflushed + d /\ ssts' = ssts
                 \/ FlushRegister /\ d = 0 /\ Unflushed' = Unflushed - 1
<1>1. TableShapes /\ FlushShape /\ TableShapes' /\ FlushShape'
  BY TablesStep, FlushShapeStep DEF Shapes
<1>2. ASSUME UNCHANGED <<cur, frozen, ssts>>,
             flush' = flush \/ (flush.ph # "built" /\ flush'.ph # "built")
      PROVE  \E d \in {0, 1} : TableMove(cur, d) /\ Unflushed' = Unflushed + d /\ ssts' = ssts
  <2>1. cur \in SUBSET Recs
    BY <1>1 DEF TableShapes
  <2> QED
    BY <1>1, <1>2, <2>1, StoreMove
<1>3. CASE FlushPick
  <2>1. cur \in SUBSET Recs
    BY <1>1 DEF TableShapes
  <2>2. ssts' = ssts /\ flush.ph # "built" /\ flush'.ph # "built"
    BY <1>3 DEF FlushPick
  <2>3. (cur' = cur /\ frozen' = frozen) \/ (cur' = {} /\ frozen' = <<cur>> \o frozen)
    BY <1>3 DEF FlushPick, Freeze, mem
  <2> QED
    BY <1>1, <2>1, <2>2, <2>3, StoreMove
<1>4. CASE FlushBuilt \/ FlushRegister
  <2>1. /\ TableMove(cur, 0) /\ (FlushBuilt => Unflushed' = Unflushed)
        /\ (FlushRegister => Unflushed' = Unflushed - 1)
    BY <1>1, <1>4, FlushMove
  <2>2. Unflushed \in Int
    BY <1>1, AllTablesAt DEF Layout
  <2>3. FlushBuilt => ssts' = ssts
    BY FlushFrame
  <2> QED
    BY <1>4, <2>1, <2>2, <2>3
<1>5. CASE FlushLock \/ FlushNothing \/ FlushFails \/ FlushReport
  <2>1. UNCHANGED <<cur, frozen, ssts>>
    BY <1>5, FlushFrame
  <2>2. flush.ph # "built" /\ flush'.ph # "built"
    BY <1>5 DEF FlushLock, FlushNothing, FlushFails, FlushReport, NoFlush, Reporting,
                SstsFree, SstsShareable
  <2> QED
    BY <1>2, <2>1, <2>2
<1>6. ASSUME NEW t \in Tx,
             \/ \E k \in Keys, v \in Vals : StageWrite(t, k, v) \/ LogWrite(t, k, v)
             \/ (\E k \in Keys : ReadMem(t, k))
             \/ ReadSsts(t) \/ ReadVersion(t) \/ ReadReturn(t)
             \/ CommitConflict(t) \/ CommitLog(t) \/ Abort(t)
      PROVE  UNCHANGED <<cur, frozen, ssts, flush>>
  BY <1>6, WriteFrame, ReadFrame, EndFrame
<1>7. CASE (\E level \in Levels : Begin(level)) \/ UNCHANGED tvars
  <2>1. UNCHANGED <<cur, frozen, ssts, flush>>
    BY <1>7, BeginFrame, TvarsFrame
  <2> QED
    BY <1>2, <2>1
<1> QED
  BY <1>2, <1>3, <1>4, <1>5, <1>6, <1>7 DEF TNext, FlushStep, Stores

\* Where a table of the next state comes from.
LEMMA MoveBack ==
    ASSUME TableShapes, FlushShape, TableShapes', FlushShape', NEW T, NEW d \in {0, 1},
           TableMove(T, d), NEW j \in DOMAIN AllTables'
    PROVE  /\ j \in Nat /\ (j = 1 /\ d = 1 => AllTables'[j] = {})
           /\ \/ j = 1 /\ d = 1 /\ AllTables'[j] = {}
              \/ j = 1 + d /\ AllTables'[j] = T
              \/ /\ j - d \in 2..Len(AllTables) /\ j - d \in DOMAIN AllTables
                 /\ AllTables'[j] = AllTables[j - d]
<1>1. Layout /\ Layout'
  BY AllTablesAt, PTL
<1>2. /\ DOMAIN AllTables' = 1..(Len(AllTables) + d) /\ Len(AllTables) \in Nat
      /\ DOMAIN AllTables = 1..Len(AllTables)
  <2>1. Len(AllTables) \in Nat /\ DOMAIN AllTables = 1..Len(AllTables)
    BY <1>1 DEF Layout
  <2>2. DOMAIN AllTables' = 1..Len(AllTables')
    BY <1>1 DEF Layout
  <2> QED
    BY <2>1, <2>2 DEF TableMove
<1>3. j \in Nat /\ ((j = 1 /\ d = 1) \/ j = 1 + d \/ j - d \in 2..Len(AllTables)) /\ (j - d) + d = j
  BY <1>2
<1>4. j - d \in 2..Len(AllTables) => AllTables'[j] = AllTables[j - d]
  <2>1. \A i \in 2..Len(AllTables) : AllTables'[i + d] = AllTables[i]
    BY DEF TableMove
  <2> QED
    BY <1>3, <2>1
<1>5. j - d \in 2..Len(AllTables) => j - d \in DOMAIN AllTables
  BY <1>2
<1> QED
  BY <1>3, <1>4, <1>5 DEF TableMove

-----------------------------------------------------------------------------
(* Reads.                                                                   *)

OtherReads(t) == \A u \in Tx : u # t => rd'[u] = rd[u]

\* The records of the read record in progress.
LEMMA ReadParts ==
    ASSUME RdShape, NEW t \in Tx, rd[t].ph # "none"
    PROVE  /\ rd[t] \in [ph : {"mem", "sst"}, key : Keys, todo : Tables, best : Answers,
                         ideal : SUBSET Answers]
           /\ rd[t].key \in Keys /\ rd[t].todo \in Tables /\ rd[t].best \in Answers
           /\ rd[t].ideal \subseteq Answers /\ rd[t].ph \in {"mem", "sst"}
<1>1. rd[t] \in Reads
  BY DEF RdShape
<1>2. rd[t] # NoRead
  BY DEF NoRead
<1> QED
  BY <1>1, <1>2 DEF Reads

\* A read that starts has searched the memtable.
LEMMA ReadMemFields ==
    ASSUME RdShape, TableShapes, FlushShape, NEW t \in Tx, NEW k \in Keys, ReadMem(t, k)
    PROVE  /\ OtherReads(t) /\ rd' \in [Tx -> Reads]
           /\ rd'[t].ph = "mem" /\ rd'[t].key = k /\ rd'[t].todo = <<>>
           /\ rd'[t].best = LookupAll(MemTables, k, Cap(t), Skipped(Strict(t)))
           /\ rd'[t].ideal = {CommittedView(AllTables, committed, k, Cap(t))}
<1> DEFINE best == LookupAll(MemTables, k, Cap(t), Skipped(Strict(t)))
           view == CommittedView(AllTables, committed, k, Cap(t))
           r == [ph |-> "mem", key |-> k, todo |-> <<>>, best |-> best, ideal |-> {view}]
<1>1. rd' = [rd EXCEPT ![t] = r]
  BY DEF ReadMem, SearchedTables
<1>2. MemTables \in Tables /\ AllTables \in Tables
  BY AllTablesShape
<1>3. best \in Answers /\ view \in Answers
  BY <1>2, LookupType DEF CommittedView
<1> HIDE DEF best, view
<1>4. r \in Reads
  BY <1>3, EmptyContext DEF Reads
<1>5. rd' \in [Tx -> Reads] /\ OtherReads(t) /\ rd'[t] = r
  <2> HIDE DEF r
  <2> QED
    BY <1>1, <1>4 DEF RdShape, OtherReads
<1> QED
  BY <1>5 DEF best, view

\* A read that goes on to the SSTs takes the versions of its key from them.
LEMMA ReadSstsFields ==
    ASSUME RdShape, TableShapes, NEW t \in Tx, ReadSsts(t)
    PROVE  /\ OtherReads(t) /\ rd' \in [Tx -> Reads] /\ rd[t].ph = "mem" /\ flush.ph = "idle"
           /\ rd'[t].ph = "sst" /\ rd'[t].key = rd[t].key /\ rd'[t].best = rd[t].best
           /\ rd'[t].ideal = rd[t].ideal
           /\ rd'[t].todo # <<>> => Head(rd'[t].todo) # {}
           /\ \A i \in DOMAIN rd'[t].todo : \E j \in DOMAIN ssts :
                rd'[t].todo[i] = Versions(ssts[j], rd[t].key, Cap(t))
           /\ \A j \in DOMAIN ssts : Versions(ssts[j], rd[t].key, Cap(t)) # {} =>
                \E i \in DOMAIN rd'[t].todo :
                  rd'[t].todo[i] = Versions(ssts[j], rd[t].key, Cap(t))
<1> DEFINE V == [i \in DOMAIN ssts |-> Versions(ssts[i], rd[t].key, Cap(t))]
           next == FromNextHit(V)
<1>1. /\ rd[t].ph = "mem" /\ flush.ph = "idle"
      /\ rd' = [rd EXCEPT ![t].ph = "sst", ![t].todo = next]
  BY DEF ReadSsts, SstCandidates, SstsShareable
<1>2. V \in Tables
  <2>1. ssts \in Tables
    BY DEF TableShapes
  <2>2. Len(ssts) \in Nat /\ DOMAIN ssts = 1..Len(ssts) /\ \A i \in DOMAIN ssts : ssts[i] \subseteq Recs
    BY <2>1, TableBasics
  <2>3. \A i \in DOMAIN ssts : Versions(ssts[i], rd[t].key, Cap(t)) \in SUBSET Recs
    BY <2>2 DEF Versions
  <2> QED
    BY <2>2, <2>3 DEF Tables
<1>3. DOMAIN V = DOMAIN ssts /\ \A i \in DOMAIN ssts : V[i] = Versions(ssts[i], rd[t].key, Cap(t))
  OBVIOUS
<1> HIDE DEF V
<1>4. /\ next \in Tables /\ (next # <<>> => Head(next) # {})
      /\ \A i \in DOMAIN next : \E j \in DOMAIN V : next[i] = V[j]
      /\ \A j \in DOMAIN V : V[j] # {} => \E i \in DOMAIN next : next[i] = V[j]
  BY <1>2, FromNextHitFacts
<1> HIDE DEF next
<1>5. rd[t] \in [ph : {"mem", "sst"}, key : Keys, todo : Tables, best : Answers,
                 ideal : SUBSET Answers]
  BY <1>1, ReadParts
<1>6. /\ OtherReads(t) /\ rd'[t] = [rd[t] EXCEPT !.ph = "sst", !.todo = next]
      /\ DOMAIN rd' = Tx
  BY <1>1 DEF RdShape, OtherReads
<1>7. /\ rd'[t].ph = "sst" /\ rd'[t].key = rd[t].key /\ rd'[t].best = rd[t].best
      /\ rd'[t].ideal = rd[t].ideal /\ rd'[t].todo = next
      /\ rd'[t] \in Reads
  BY <1>4, <1>5, <1>6 DEF Reads
<1>8. rd' \in [Tx -> Reads]
  BY <1>1, <1>6, <1>7 DEF RdShape, OtherReads
<1> QED
  BY <1>1, <1>3, <1>4, <1>6, <1>7, <1>8

\* A read drops the table it has asked, or the version it was told to skip.
LEMMA ReadVersionFields ==
    ASSUME RdShape, ReadInv, NEW t \in Tx, ReadVersion(t)
    PROVE  \E r \in Recs :
           /\ OtherReads(t) /\ rd' \in [Tx -> Reads] /\ rd[t].ph = "sst"
           /\ rd'[t].ph = "sst" /\ rd'[t].key = rd[t].key /\ rd'[t].ideal = rd[t].ideal
           /\ rd'[t].todo # <<>> => Head(rd'[t].todo) # {}
           /\ \A i \in DOMAIN rd'[t].todo : \E j \in DOMAIN rd[t].todo :
                rd'[t].todo[i] \subseteq rd[t].todo[j]
           /\ rd[t].todo \in Tables /\ 1 \in DOMAIN rd[t].todo
           /\ r \in rd[t].todo[1] /\ \A x \in rd[t].todo[1] : x.ver <= r.ver
           /\ ShouldSkipRead(r.ver, Strict(t)) => rd'[t].best = rd[t].best
           /\ ~ShouldSkipRead(r.ver, Strict(t)) =>
                /\ rd'[t].best = Better(rd[t].best, Result(r))
                /\ \A j \in DOMAIN rd[t].todo : j # 1 /\ rd[t].todo[j] # {} =>
                     \E i \in DOMAIN rd'[t].todo : rd'[t].todo[i] = rd[t].todo[j]
<1> DEFINE todo == rd[t].todo
           S == Head(todo)
           r == Newest(S)
           skip == ShouldSkipRead(r.ver, Strict(t))
           X == IF skip THEN <<S \ {r}>> \o Tail(todo) ELSE Tail(todo)
           next == FromNextHit(X)
           best == IF skip THEN rd[t].best ELSE Better(rd[t].best, Result(r))
<1>1. /\ rd[t].ph = "sst" /\ todo # <<>>
      /\ rd' = [rd EXCEPT ![t].todo = next, ![t].best = best]
  BY DEF ReadVersion, RdShape
<1>2. /\ rd[t] \in [ph : {"mem", "sst"}, key : Keys, todo : Tables, best : Answers,
                    ideal : SUBSET Answers]
      /\ todo \in Tables /\ rd[t].best \in Answers
  BY <1>1, ReadParts
<1>3. /\ S = todo[1] /\ Tail(todo) \in Tables /\ Len(Tail(todo)) = Len(todo) - 1
      /\ \A i \in DOMAIN Tail(todo) : Tail(todo)[i] = todo[i + 1]
  <2> HIDE DEF todo
  <2> QED
    BY <1>1, <1>2, TableEnds
<1>4. /\ Len(todo) \in Nat /\ Len(todo) > 0 /\ DOMAIN todo = 1..Len(todo)
      /\ \A i \in DOMAIN todo : todo[i] \subseteq Recs
  <2> HIDE DEF todo
  <2> QED
    BY <1>1, <1>2, TableBasics
<1>5. 1 \in DOMAIN todo /\ S \subseteq Recs /\ S # {}
  <2>1. 1 \in DOMAIN todo
    BY <1>4
  <2>2. S # {}
    BY <1>1 DEF ReadInv
  <2> QED
    BY <1>3, <1>4, <2>1, <2>2
<1>6. DOMAIN Tail(todo) = 1..(Len(todo) - 1)
  <2>1. DOMAIN Tail(todo) = 1..Len(Tail(todo))
    BY <1>3, TableBasics
  <2> QED
    BY <1>3, <2>1
<1> HIDE DEF todo, S
<1>7. r \in S /\ r \in Recs /\ \A x \in S : x.ver <= r.ver
  BY <1>5, NewestFacts
<1> HIDE DEF r
<1>8. Result(r) \in Answers
  BY <1>7 DEF Result, Answers, Recs
<1>9. best \in Answers
  BY <1>2, <1>8 DEF Better
<1>10. X \in Tables /\ \A i \in DOMAIN X : \E j \in DOMAIN todo : X[i] \subseteq todo[j]
  <2>0. ASSUME NEW i \in DOMAIN Tail(todo) PROVE i + 1 \in DOMAIN todo /\ Tail(todo)[i] = todo[i + 1]
    BY <1>3, <1>4, <1>6
  <2>1. CASE skip
    <3> DEFINE D == S \ {r}
    <3>1. D \in SUBSET Recs /\ X = <<D>> \o Tail(todo)
      BY <1>5, <2>1
    <3> HIDE DEF D
    <3>2. /\ X \in Tables /\ Len(X) = Len(Tail(todo)) + 1 /\ X[1] = D
          /\ \A i \in DOMAIN Tail(todo) : X[i + 1] = Tail(todo)[i]
      BY <1>3, <3>1, PushTable
    <3>3. DOMAIN X = 1..Len(todo)
      <4>1. DOMAIN X = 1..Len(X)
        BY <3>2, TableBasics
      <4> QED
        BY <1>3, <1>4, <3>2, <4>1
    <3>4. ASSUME NEW i \in DOMAIN X PROVE \E j \in DOMAIN todo : X[i] \subseteq todo[j]
      <4>1. CASE i = 1
        BY <1>3, <1>5, <3>2, <4>1 DEF D
      <4>2. CASE i # 1
        <5>1. i - 1 \in DOMAIN Tail(todo) /\ (i - 1) + 1 = i
          BY <1>4, <1>6, <3>3, <4>2
        <5> QED
          BY <2>0, <3>2, <5>1
      <4> QED
        BY <4>1, <4>2
    <3> HIDE DEF X
    <3> QED
      BY <3>2, <3>4
  <2>2. CASE ~skip
    <3>1. X = Tail(todo)
      BY <2>2
    <3> HIDE DEF X
    <3> QED
      BY <1>3, <2>0, <3>1
  <2> HIDE DEF X, skip
  <2> QED
    BY <2>1, <2>2
<1>x. ~skip => X = Tail(todo)
  OBVIOUS
<1>b. (skip => best = rd[t].best) /\ (~skip => best = Better(rd[t].best, Result(r)))
  OBVIOUS
<1>k. skip <=> ShouldSkipRead(r.ver, Strict(t))
  OBVIOUS
<1> HIDE DEF X, skip, best
<1>11. /\ next \in Tables /\ (next # <<>> => Head(next) # {})
       /\ \A i \in DOMAIN next : \E j \in DOMAIN X : next[i] = X[j]
       /\ \A j \in DOMAIN X : X[j] # {} => \E i \in DOMAIN next : next[i] = X[j]
  BY <1>10, FromNextHitFacts
<1> HIDE DEF next
<1>12. \A i \in DOMAIN next : \E j \in DOMAIN todo : next[i] \subseteq todo[j]
  BY <1>10, <1>11
<1>13. ASSUME ~skip, NEW j \in DOMAIN todo, j # 1, todo[j] # {}
       PROVE  \E i \in DOMAIN next : next[i] = todo[j]
  <2>1. j - 1 \in DOMAIN Tail(todo) /\ (j - 1) + 1 = j
    BY <1>4, <1>6, <1>13
  <2>2. Tail(todo)[j - 1] = todo[j]
    BY <1>3, <2>1
  <2> QED
    BY <1>x, <1>11, <1>13, <2>1, <2>2
<1>14. OtherReads(t) /\ rd'[t] = [rd[t] EXCEPT !.todo = next, !.best = best] /\ DOMAIN rd' = Tx
  BY <1>1 DEF RdShape, OtherReads
<1>15. /\ rd'[t].ph = "sst" /\ rd'[t].key = rd[t].key /\ rd'[t].ideal = rd[t].ideal
       /\ rd'[t].todo = next /\ rd'[t].best = best /\ rd'[t] \in Reads
  BY <1>1, <1>2, <1>9, <1>11, <1>14 DEF Reads
<1>16. rd' \in [Tx -> Reads]
  BY <1>1, <1>14, <1>15 DEF RdShape, OtherReads
<1>17. rd[t].todo = todo /\ todo[1] = S
  BY <1>3 DEF todo
<1>18. /\ rd'[t].todo # <<>> => Head(rd'[t].todo) # {}
       /\ \A i \in DOMAIN rd'[t].todo : \E j \in DOMAIN rd[t].todo :
             rd'[t].todo[i] \subseteq rd[t].todo[j]
       /\ rd[t].todo \in Tables /\ 1 \in DOMAIN rd[t].todo
  BY <1>2, <1>5, <1>11, <1>12, <1>15, <1>17
<1>19. r \in rd[t].todo[1] /\ \A x \in rd[t].todo[1] : x.ver <= r.ver
  BY <1>7, <1>17
<1>20. /\ ShouldSkipRead(r.ver, Strict(t)) => rd'[t].best = rd[t].best
       /\ ~ShouldSkipRead(r.ver, Strict(t)) =>
                /\ rd'[t].best = Better(rd[t].best, Result(r))
                /\ \A j \in DOMAIN rd[t].todo : j # 1 /\ rd[t].todo[j] # {} =>
                     \E i \in DOMAIN rd'[t].todo : rd'[t].todo[i] = rd[t].todo[j]
  BY <1>b, <1>k, <1>13, <1>15, <1>17
<1> QED
  BY <1>1, <1>7, <1>14, <1>15, <1>16, <1>18, <1>19, <1>20

\* A commit adds to what the reads in progress may answer.
LEMMA CommitReadFields ==
    ASSUME TypeOK, Shapes, NEW t \in Tx, CommitApply(t)
    PROVE  /\ rd' \in [Tx -> Reads]
           /\ \A u \in Tx : rd[u].ph # "none" =>
                rd'[u].ideal = rd[u].ideal \cup
                  {CommittedView(<<Applied(t)>> \o Tail(AllTables), committed \cup {t},
                                 rd[u].key, Cap(u))}
<1>s. RdShape /\ TableShapes /\ FlushShape
  BY DEF Shapes
<1> DEFINE tables == <<Applied(t)>> \o Tail(AllTables)
           view(u) == CommittedView(tables, committed \cup {t}, rd[u].key, Cap(u))
<1>1. /\ rd' = [u \in Tx |-> IF rd[u].ph = "none" THEN rd[u]
                             ELSE [rd[u] EXCEPT !.ideal = @ \cup {view(u)}]]
  BY DEF CommitApply
<1>2. tables \in Tables
  <2>1. Applied(t) \in SUBSET Recs /\ Tail(AllTables) \in Tables
    BY <1>s, StoredShape, AllTablesShape
  <2> QED
    BY <2>1, PushTable
<1> HIDE DEF tables
<1>3. \A u \in Tx : view(u) \in Answers
  BY <1>2, LookupType DEF CommittedView
<1> HIDE DEF view
<1>4. ASSUME NEW u \in Tx
      PROVE  rd'[u] \in Reads /\ (rd[u].ph # "none" => rd'[u].ideal = rd[u].ideal \cup {view(u)})
  <2>1. CASE rd[u].ph = "none"
    BY <1>1, <1>s, <2>1 DEF RdShape
  <2>2. CASE rd[u].ph # "none"
    <3>1. rd[u] \in [ph : {"mem", "sst"}, key : Keys, todo : Tables, best : Answers,
                     ideal : SUBSET Answers]
      BY <1>s, <2>2, ReadParts
    <3>2. rd'[u] = [rd[u] EXCEPT !.ideal = @ \cup {view(u)}]
      BY <1>1, <2>2
    <3> QED
      BY <1>3, <3>1, <3>2 DEF Reads
  <2> QED
    BY <2>1, <2>2
<1>5. DOMAIN rd' = Tx /\ rd' = [u \in Tx |-> rd'[u]]
  BY <1>1
<1> QED
  BY <1>4, <1>5 DEF view, tables

\* The reads keep their shape.
LEMMA RdStep ==
    TypeOK /\ Shapes /\ ReadInv /\ [TNext]_tvars => RdShape'
<1> SUFFICES ASSUME TypeOK, Shapes, ReadInv, [TNext]_tvars PROVE RdShape'
  OBVIOUS
<1>s. RdShape /\ TableShapes /\ FlushShape
  BY DEF Shapes
<1>1. ASSUME NEW t \in Tx, NEW k \in Keys, ReadMem(t, k) PROVE RdShape'
  BY <1>s, <1>1, ReadMemFields DEF RdShape
<1>2. ASSUME NEW t \in Tx, ReadSsts(t) PROVE RdShape'
  BY <1>s, <1>2, ReadSstsFields DEF RdShape
<1>3. ASSUME NEW t \in Tx, ReadVersion(t) PROVE RdShape'
  BY <1>s, <1>3, ReadVersionFields DEF RdShape
<1>4. ASSUME NEW t \in Tx, ReadReturn(t) PROVE RdShape'
  <2>1. rd' = [rd EXCEPT ![t] = NoRead]
    BY <1>4 DEF ReadReturn
  <2>2. NoRead \in Reads
    BY DEF Reads
  <2> QED
    BY <1>s, <2>1, <2>2 DEF RdShape
<1>5. ASSUME NEW t \in Tx, CommitApply(t) PROVE RdShape'
  BY <1>5, CommitReadFields DEF RdShape
<1>6. ASSUME NEW t \in Tx,
             \/ \E k \in Keys, v \in Vals : StageWrite(t, k, v) \/ LogWrite(t, k, v)
             \/ ApplyWrite(t) \/ CommitConflict(t) \/ CommitLog(t) \/ Abort(t)
      PROVE  rd' = rd
  BY <1>6, WriteFrame, EndFrame
<1>7. CASE (\E level \in Levels : Begin(level)) \/ FlushLock \/ FlushStep \/ UNCHANGED tvars
  <2>1. rd' = rd
    BY <1>7, BeginFrame, FlushFrame, TvarsFrame
  <2> QED
    BY <1>s, <2>1 DEF RdShape
<1>8. rd' = rd => RdShape'
  BY <1>s DEF RdShape
<1> QED
  BY <1>1, <1>2, <1>3, <1>4, <1>5, <1>6, <1>7, <1>8 DEF TNext

\* The searched tables are among all tables.
LEMMA TablesAmong ==
    ASSUME TableShapes, FlushShape
    PROVE  /\ \A i \in DOMAIN MemTables : i \in DOMAIN AllTables /\ MemTables[i] = AllTables[i]
           /\ \A i \in DOMAIN ssts : /\ Unflushed + i \in DOMAIN AllTables
                                     /\ ssts[i] = AllTables[Unflushed + i]
<1>1. Layout /\ frozen \in Tables /\ ssts \in Tables /\ cur \in SUBSET Recs
  BY AllTablesAt DEF TableShapes
<1>2. /\ Len(frozen) \in Nat /\ Len(ssts) \in Nat /\ Built \in {0, 1}
      /\ DOMAIN AllTables = 1..(1 + Len(frozen) + Built + Len(ssts))
      /\ Unflushed = 1 + Len(frozen) + Built
  BY <1>1 DEF Layout
<1>3. DOMAIN ssts = 1..Len(ssts) /\ DOMAIN frozen = 1..Len(frozen)
  BY <1>1, TableBasics
<1>4. /\ MemTables \in Tables /\ Len(MemTables) = Len(frozen) + 1 /\ MemTables[1] = cur
      /\ \A i \in DOMAIN frozen : MemTables[i + 1] = frozen[i]
  BY <1>1, PushTable DEF MemTables
<1>5. DOMAIN MemTables = 1..(Len(frozen) + 1)
  BY <1>4, TableBasics
<1>6. ASSUME NEW i \in DOMAIN MemTables
      PROVE  i \in DOMAIN AllTables /\ MemTables[i] = AllTables[i]
  <2>1. i \in 1..(Len(frozen) + 1) /\ i \in DOMAIN AllTables
    BY <1>2, <1>5
  <2>2. CASE i = 1
    BY <1>1, <1>4, <2>1, <2>2 DEF Layout
  <2>3. CASE i # 1
    <3> DEFINE j == i - 1
    <3>1. j \in 1..Len(frozen) /\ j + 1 = i /\ 1 + j = i
      BY <1>2, <2>1, <2>3
    <3> HIDE DEF j
    <3>2. AllTables[1 + j] = frozen[j]
      BY <1>1, <3>1 DEF Layout
    <3> QED
      BY <1>3, <1>4, <2>1, <3>1, <3>2
  <2> QED
    BY <2>2, <2>3
<1>7. ASSUME NEW i \in DOMAIN ssts
      PROVE  Unflushed + i \in DOMAIN AllTables /\ ssts[i] = AllTables[Unflushed + i]
  <2>1. Unflushed + i \in DOMAIN AllTables
    BY <1>2, <1>3
  <2> QED
    BY <1>1, <1>3, <2>1 DEF Layout
<1> QED
  BY <1>6, <1>7

\* A record's transaction has begun, and a strict read that is not told to skip
\* it finds it committed.
LEMMA KnownRecord ==
    ASSUME CtxInv, Shapes, RecordsKnown, NEW i \in DOMAIN AllTables, NEW r \in AllTables[i]
    PROVE  /\ r.ver \in Tx /\ ctx[r.ver].pc # "none"
           /\ ~ShouldSkipRead(r.ver, TRUE) => r.ver \in committed
<1>1. r \in Recs
  <2>1. AllTables \in Tables
    BY AllTablesShape DEF Shapes
  <2> QED
    BY <2>1, TableBasics
<1>2. r.ver \in Tx
  BY <1>1 DEF Recs
<1>3. ctx[r.ver].pc # "none"
  BY <1>2 DEF RecordsKnown, CtxInv
<1>4. ctx[r.ver].pc \in Pcs
  BY <1>2 DEF Shapes, CtxShape, Contexts
<1> QED
  BY <1>2, <1>3, <1>4 DEF CtxInv, ShouldSkipRead, Pcs

\* A version that a strict read does not skip, of a transaction of this run, is
\* committed.
LEMMA BegunCommitted ==
    ASSUME CtxInv, CtxShape, NEW u \in Tx, ctx[u].pc # "none", ~ShouldSkipRead(u, TRUE)
    PROVE  u \in committed
<1>4. ctx[u].pc \in Pcs
  BY DEF CtxShape, Contexts
<1> QED
  BY <1>4 DEF CtxInv, ShouldSkipRead, Pcs

\* Strict reads hold committed versions.
LEMMA ReadInvStep ==
    TypeOK /\ Shapes /\ CtxInv /\ LockInv /\ RecordsKnown /\ ReadInv /\ [TNext]_tvars => ReadInv'
<1> SUFFICES ASSUME TypeOK, Shapes, CtxInv, LockInv, RecordsKnown, ReadInv, [TNext]_tvars
             PROVE  ReadInv'
  OBVIOUS
<1>s. RdShape /\ TableShapes /\ FlushShape /\ CtxShape
  BY DEF Shapes
<1> DEFINE R(t) == rd[t].ph # "none" =>
        /\ Strict(t) /\ rd[t].best # None => rd[t].best.ver \in committed
        /\ \A i \in DOMAIN rd[t].todo : \A r \in rd[t].todo[i] : ctx[r.ver].pc # "none"
        /\ rd[t].todo # <<>> => Head(rd[t].todo) # {}
<1>g. Grows
  BY GrowsStep
<1>v. \A t \in Tx : rd[t].ph # "none" =>
        \A i \in DOMAIN rd[t].todo : \A r \in rd[t].todo[i] : r.ver \in Tx
  <2> SUFFICES ASSUME NEW t \in Tx, rd[t].ph # "none", NEW i \in DOMAIN rd[t].todo,
                      NEW r \in rd[t].todo[i]
               PROVE  r.ver \in Tx
    OBVIOUS
  <2>1. rd[t].todo \in Tables
    BY <1>s, ReadParts
  <2>2. r \in Recs
    BY <2>1, TableBasics
  <2> QED
    BY <2>2 DEF Recs
<1>l. \A t \in Tx : rd[t].ph # "none" => (Strict(t)' <=> Strict(t))
  <2> SUFFICES ASSUME NEW t \in Tx, rd[t].ph # "none" PROVE ctx'[t].level = ctx[t].level
    BY DEF Strict
  <2> QED
    BY <1>g DEF LockInv, Grows
<1>k. ASSUME NEW t \in Tx, rd'[t].ph = rd[t].ph,
             rd[t].ph # "none" => rd'[t].todo = rd[t].todo /\ rd'[t].best = rd[t].best
      PROVE  R(t)'
  <2> SUFFICES ASSUME rd[t].ph # "none"
               PROVE  /\ Strict(t)' /\ rd[t].best # None => rd[t].best.ver \in committed'
                      /\ \A i \in DOMAIN rd[t].todo : \A r \in rd[t].todo[i] : ctx'[r.ver].pc # "none"
                      /\ rd[t].todo # <<>> => Head(rd[t].todo) # {}
    BY <1>k
  <2>1. Strict(t)' /\ rd[t].best # None => rd[t].best.ver \in committed'
    <3> SUFFICES ASSUME Strict(t), rd[t].best # None PROVE rd[t].best.ver \in committed'
      BY <1>l
    <3>1. rd[t].best.ver \in committed
      BY DEF ReadInv
    <3>2. rd[t].best \in Answers
      BY <1>s, ReadParts
    <3>3. rd[t].best.ver \in Tx
      BY <3>2 DEF Answers
    <3> QED
      BY <1>g, <3>1, <3>3 DEF Grows
  <2>2. ASSUME NEW i \in DOMAIN rd[t].todo, NEW r \in rd[t].todo[i] PROVE ctx'[r.ver].pc # "none"
    BY <1>g, <1>v DEF Grows, ReadInv
  <2> QED
    BY <2>1, <2>2 DEF ReadInv
<1>0. (\A t \in Tx : R(t)') => ReadInv'
  BY DEF ReadInv
<1>o. ASSUME NEW t \in Tx, OtherReads(t), R(t)' PROVE ReadInv'
  <2> HIDE DEF R
  <2>1. ASSUME NEW u \in Tx, u # t PROVE R(u)'
    <3>1. rd'[u] = rd[u]
      BY <1>o, <2>1 DEF OtherReads
    <3> QED
      BY <1>k, <3>1
  <2> QED
    BY <1>0, <1>o, <2>1
<1>u. ASSUME rd' = rd PROVE ReadInv'
  <2> HIDE DEF R
  <2> QED
    BY <1>0, <1>k, <1>u
<1>1. ASSUME NEW t \in Tx, NEW k \in Keys, ReadMem(t, k) PROVE ReadInv'
  <2>1. /\ OtherReads(t) /\ rd'[t].todo = <<>>
        /\ rd'[t].best = LookupAll(MemTables, k, Cap(t), Skipped(Strict(t)))
    BY <1>s, <1>1, ReadMemFields
  <2>2. UNCHANGED <<ctx, committed>>
    BY <1>1, ReadFrame, ManagerFrame
  <2>3. ASSUME Strict(t), rd'[t].best # None PROVE rd'[t].best.ver \in committed
    <3>1. MemTables \in Tables
      BY <1>s, AllTablesShape
    <3> DEFINE skip == Skipped(TRUE)
    <3>2. rd'[t].best = LookupAll(MemTables, k, Cap(t), skip)
      BY <2>1, <2>3
    <3> HIDE DEF skip
    <3>3. PICK i \in DOMAIN MemTables : \E r \in Eligible(MemTables[i], k, Cap(t), skip) :
             rd'[t].best = Result(r)
      BY <2>3, <3>1, <3>2, LookupAllFacts
    <3>4. PICK r \in Eligible(MemTables[i], k, Cap(t), skip) : rd'[t].best = Result(r)
      BY <3>3
    <3>5. r \in MemTables[i] /\ r.ver \notin skip /\ rd'[t].best.ver = r.ver
      BY <3>4 DEF Eligible, Versions, Result
    <3>6. i \in DOMAIN AllTables /\ r \in AllTables[i]
      BY <1>s, <3>5, TablesAmong
    <3>7. r.ver \in Tx /\ (~ShouldSkipRead(r.ver, TRUE) => r.ver \in committed)
      BY <3>6, KnownRecord
    <3> QED
      BY <3>5, <3>7 DEF skip, Skipped
  <2>4. R(t)'
    BY <2>1, <2>2, <2>3 DEF Strict
  <2> HIDE DEF R
  <2> QED
    BY <1>o, <2>1, <2>4
<1>2. ASSUME NEW t \in Tx, ReadSsts(t) PROVE ReadInv'
  <2>1. /\ OtherReads(t) /\ rd[t].ph = "mem" /\ rd'[t].best = rd[t].best
        /\ (rd'[t].todo # <<>> => Head(rd'[t].todo) # {})
        /\ \A i \in DOMAIN rd'[t].todo : \E j \in DOMAIN ssts :
             rd'[t].todo[i] = Versions(ssts[j], rd[t].key, Cap(t))
    BY <1>s, <1>2, ReadSstsFields
  <2>2. UNCHANGED <<ctx, committed>>
    BY <1>2, ReadFrame, ManagerFrame
  <2>3. ASSUME NEW i \in DOMAIN rd'[t].todo, NEW r \in rd'[t].todo[i] PROVE ctx[r.ver].pc # "none"
    <3>1. PICK j \in DOMAIN ssts : r \in ssts[j]
      BY <2>1 DEF Versions
    <3>2. Unflushed + j \in DOMAIN AllTables /\ r \in AllTables[Unflushed + j]
      BY <1>s, <3>1, TablesAmong
    <3> QED
      BY <3>2, KnownRecord
  <2>4. Strict(t) /\ rd[t].best # None => rd[t].best.ver \in committed
    BY <2>1 DEF ReadInv
  <2>5. R(t)'
    BY <2>1, <2>2, <2>3, <2>4 DEF Strict
  <2> HIDE DEF R
  <2> QED
    BY <1>o, <2>1, <2>5
<1>3. ASSUME NEW t \in Tx, ReadVersion(t) PROVE ReadInv'
  <2>1. PICK r \in Recs :
           /\ OtherReads(t) /\ rd[t].ph = "sst"
           /\ (rd'[t].todo # <<>> => Head(rd'[t].todo) # {})
           /\ \A i \in DOMAIN rd'[t].todo : \E j \in DOMAIN rd[t].todo :
                rd'[t].todo[i] \subseteq rd[t].todo[j]
           /\ 1 \in DOMAIN rd[t].todo /\ r \in rd[t].todo[1]
           /\ (ShouldSkipRead(r.ver, Strict(t)) => rd'[t].best = rd[t].best)
           /\ (~ShouldSkipRead(r.ver, Strict(t)) => rd'[t].best = Better(rd[t].best, Result(r)))
    BY <1>s, <1>3, ReadVersionFields
  <2>2. UNCHANGED <<ctx, committed>>
    BY <1>3, ReadFrame, ManagerFrame
  <2>3. Strict(t) /\ rd[t].best # None => rd[t].best.ver \in committed
    BY <2>1 DEF ReadInv
  <2>4. ASSUME Strict(t), rd'[t].best # None PROVE rd'[t].best.ver \in committed
    <3>1. CASE rd'[t].best = rd[t].best
      BY <2>3, <2>4, <3>1
    <3>2. CASE ~ShouldSkipRead(r.ver, Strict(t)) /\ rd'[t].best = Result(r)
      <4>1. ctx[r.ver].pc # "none" /\ r.ver \in Tx
        BY <2>1 DEF ReadInv, Recs
      <4>2. Strict(t) = TRUE
        BY <2>4 DEF Strict
      <4>3. r.ver \in committed
        BY <1>s, <3>2, <4>1, <4>2, BegunCommitted
      <4> QED
        BY <3>2, <4>3 DEF Result
    <3> QED
      BY <2>1, <3>1, <3>2 DEF Better
  <2>5. ASSUME NEW i \in DOMAIN rd'[t].todo, NEW x \in rd'[t].todo[i] PROVE ctx[x.ver].pc # "none"
    BY <2>1 DEF ReadInv
  <2>6. R(t)'
    BY <2>1, <2>2, <2>4, <2>5 DEF Strict
  <2> HIDE DEF R
  <2> QED
    BY <1>o, <2>1, <2>6
<1>4. ASSUME NEW t \in Tx, ReadReturn(t) PROVE ReadInv'
  <2>1. rd' = [rd EXCEPT ![t] = NoRead]
    BY <1>4 DEF ReadReturn
  <2>2. OtherReads(t) /\ rd'[t].ph = "none"
    BY <1>s, <2>1 DEF RdShape, OtherReads, NoRead
  <2>3. R(t)'
    BY <2>2
  <2> HIDE DEF R
  <2> QED
    BY <1>o, <2>2, <2>3
<1>5. ASSUME NEW t \in Tx, CommitApply(t) PROVE ReadInv'
  <2> HIDE DEF R
  <2>1. ASSUME NEW u \in Tx PROVE R(u)'
    <3>1. /\ rd'[u].ph = rd[u].ph
          /\ rd[u].ph # "none" => rd'[u].todo = rd[u].todo /\ rd'[u].best = rd[u].best
      BY <1>s, <1>5, CommitReads
    <3> QED
      BY <1>k, <3>1
  <2> QED
    BY <1>0, <2>1
<1>6. ASSUME NEW t \in Tx,
             \/ \E k \in Keys, v \in Vals : StageWrite(t, k, v) \/ LogWrite(t, k, v)
             \/ ApplyWrite(t) \/ CommitConflict(t) \/ CommitLog(t) \/ Abort(t)
      PROVE  rd' = rd
  BY <1>6, WriteFrame, EndFrame
<1>7. CASE (\E level \in Levels : Begin(level)) \/ FlushLock \/ FlushStep \/ UNCHANGED tvars
  <2>1. rd' = rd
    BY <1>7, BeginFrame, FlushFrame, TvarsFrame
  <2> QED
    BY <1>u, <2>1
<1> HIDE DEF R
<1> QED
  BY <1>u, <1>1, <1>2, <1>3, <1>4, <1>5, <1>6, <1>7 DEF TNext

-----------------------------------------------------------------------------
(* Records and markers.                                                     *)

\* What a table says about its records after a step.
KnownNext(T) ==
    \A r \in T :
        /\ r.key = "marker" => r.ver \in committed'
        /\ r.ver \in committed' \/ (ctx'[r.ver].level = "RU" /\ ctx'[r.ver].pc # "none")
        /\ r.key # "marker" => InLog(r.ver, r.key, r.val)'
        /\ \A s \in T : r.key = s.key /\ r.ver = s.ver => r = s

\* A table that a step does not touch stays in order.
LEMMA KnownKept ==
    ASSUME TypeOK, Shapes, CtxInv, RecordsKnown, [TNext]_tvars, NEW i \in DOMAIN AllTables
    PROVE  KnownNext(AllTables[i]) /\ \A r \in AllTables[i] : r.ver \in Tx
<1>g. Grows
  BY GrowsStep
<1>1. ASSUME NEW r \in AllTables[i]
      PROVE  /\ r.ver \in Tx
             /\ r.key = "marker" => r.ver \in committed'
             /\ r.ver \in committed' \/ (ctx'[r.ver].level = "RU" /\ ctx'[r.ver].pc # "none")
             /\ r.key # "marker" => InLog(r.ver, r.key, r.val)'
             /\ \A s \in AllTables[i] : r.key = s.key /\ r.ver = s.ver => r = s
  <2>1. r.ver \in Tx
    BY KnownRecord
  <2>2. /\ r.key = "marker" => r.ver \in committed
        /\ r.ver \in committed \/ (~Strict(r.ver) /\ ctx[r.ver].pc # "none")
        /\ r.key # "marker" => InLog(r.ver, r.key, r.val)
        /\ \A s \in AllTables[i] : r.key = s.key /\ r.ver = s.ver => r = s
    BY DEF RecordsKnown
  <2>3. r.ver \in committed => r.ver \in committed'
    BY <1>g, <2>1 DEF Grows
  <2>4. ~Strict(r.ver) /\ ctx[r.ver].pc # "none" =>
           ctx'[r.ver].level = "RU" /\ ctx'[r.ver].pc # "none"
    BY <1>g, <2>1 DEF Grows, Strict
  <2>5. InLog(r.ver, r.key, r.val) => InLog(r.ver, r.key, r.val)'
    <3> SUFFICES ASSUME InLog(r.ver, r.key, r.val) PROVE InLog(r.ver, r.key, r.val)'
      OBVIOUS
    <3>1. PICK n \in DOMAIN wal[r.ver] : wal[r.ver][n].key = r.key /\ wal[r.ver][n].val = r.val
      BY DEF InLog
    <3>2. n \in DOMAIN wal'[r.ver] /\ wal'[r.ver][n] = wal[r.ver][n]
      BY <2>1, WalGrows
    <3> QED
      BY <3>1, <3>2 DEF InLog
  <2> QED
    BY <2>1, <2>2, <2>3, <2>4, <2>5
<1> QED
  BY <1>1 DEF KnownNext

\* Moving tables keeps what they say about their records.
LEMMA KnownMoved ==
    ASSUME TypeOK, Shapes, Shapes', CtxInv, RecordsKnown, [TNext]_tvars, NEW T, KnownNext(T),
           NEW d \in {0, 1}, TableMove(T, d)
    PROVE  RecordsKnown'
<1>1. TableShapes /\ FlushShape /\ TableShapes' /\ FlushShape'
  BY DEF Shapes
<1>2. ASSUME NEW j \in DOMAIN AllTables' PROVE KnownNext(AllTables'[j])
  <2>1. CASE AllTables'[j] = {}
    BY <2>1 DEF KnownNext
  <2>2. ASSUME NEW i \in DOMAIN AllTables, AllTables'[j] = AllTables[i]
        PROVE  KnownNext(AllTables'[j])
    BY <2>2, KnownKept
  <2> QED
    BY <1>1, <2>1, <2>2, MoveBack
<1>3. ASSUME NEW j \in DOMAIN AllTables', NEW r \in AllTables'[j]
      PROVE  /\ r.key = "marker" => r.ver \in committed'
             /\ r.ver \in committed' \/ (~Strict(r.ver)' /\ ctx'[r.ver].pc # "none")
             /\ r.key # "marker" => InLog(r.ver, r.key, r.val)'
             /\ \A s \in AllTables'[j] : r.key = s.key /\ r.ver = s.ver => r = s
  BY <1>2 DEF KnownNext, Strict
<1> QED
  BY <1>3 DEF RecordsKnown

\* What a write stores is in the log, and so is what a commit stores.
LEMMA StoredLogged ==
    ASSUME TypeOK, Shapes, OpsInv, LogInv, NEW t \in Tx
    PROVE  /\ ctx[t].pc = "writing" =>
                InLog(t, Last(ctx[t].ops).key, Last(ctx[t].ops).val)
           /\ ctx[t].pc = "logged" => \A k \in Writes(t) : InLog(t, k, ctx[t].temp[k])
<1>1. ctx[t] \in Contexts /\ wal[t] \in OpSeqs
  BY DEF Shapes, CtxShape, WalShape
<1>2. ctx[t].ops \in OpSeqs /\ ctx[t].written \in Nat
  BY <1>1 DEF Contexts
<1>3. /\ Len(ctx[t].ops) \in Nat /\ DOMAIN ctx[t].ops = 1..Len(ctx[t].ops)
  BY <1>2, OpBasics
<1>w. DOMAIN wal[t] = 1..Len(wal[t])
  BY <1>1, OpBasics
<1>4. ASSUME ctx[t].pc \in {"writing", "logged"}
      PROVE  \A i \in DOMAIN ctx[t].ops : i \in DOMAIN wal[t] /\ wal[t][i] = ctx[t].ops[i]
  <2>1. ctx[t].written = Len(ctx[t].ops)
    BY <1>4 DEF OpsInv, OpsOk
  <2>2. Len(wal[t]) = ctx[t].written /\ \A i \in 1..ctx[t].written : wal[t][i] = ctx[t].ops[i]
    BY <1>4 DEF LogInv, Good
  <2> QED
    BY <1>3, <1>w, <2>1, <2>2
<1>5. ASSUME ctx[t].pc = "writing" PROVE InLog(t, Last(ctx[t].ops).key, Last(ctx[t].ops).val)
  <2>1. ctx[t].ops # <<>>
    BY <1>5 DEF OpsInv, OpsOk
  <2>2. Len(ctx[t].ops) > 0 /\ Last(ctx[t].ops) = ctx[t].ops[Len(ctx[t].ops)]
    BY <1>2, <2>1, EndFacts DEF OpSeqs
  <2>3. Len(ctx[t].ops) \in DOMAIN ctx[t].ops
    BY <1>3, <2>2
  <2> QED
    BY <1>4, <1>5, <2>2, <2>3 DEF InLog
<1>6. ASSUME ctx[t].pc = "logged", NEW k \in Writes(t) PROVE InLog(t, k, ctx[t].temp[k])
  <2>1. k \in Staging(ctx[t])
    BY DEF Writes, Staging
  <2>2. PICK i \in DOMAIN ctx[t].ops : ctx[t].ops[i].key = k /\ ctx[t].ops[i].val = ctx[t].temp[k]
    BY <2>1 DEF OpsInv, OpsOk
  <2> QED
    BY <1>4, <1>6, <2>2 DEF InLog
<1> QED
  BY <1>5, <1>6

\* A table with the record of a write that is through to the log.
LEMMA WriteKnown ==
    ASSUME TypeOK, Shapes, CtxInv, OpsInv, LogInv, RecordsKnown, [TNext]_tvars, KnownNext(cur),
           NEW t \in Tx, ApplyWrite(t), Last(ctx[t].ops).key \in Keys
    PROVE  KnownNext(PutRec(cur, Rec(Last(ctx[t].ops).key, t, Last(ctx[t].ops).val)))
<1>1. PICK k \in Keys : k = Last(ctx[t].ops).key
  OBVIOUS
<1>2. PICK v : v = Last(ctx[t].ops).val
  OBVIOUS
<1>3. PICK n : n = Rec(k, t, v)
  OBVIOUS
<1>4. n.key = k /\ n.ver = t /\ n.val = v /\ k # "marker"
  BY <1>3, KeysAssumption DEF Rec
<1>5. ctx[t].pc = "writing" /\ ctx'[t].pc = "open" /\ ctx'[t].level = ctx[t].level
  BY ApplyFields DEF Shapes
<1>6. ctx[t].level = "RU"
  BY <1>5 DEF OpsInv, OpsOk
<1>7. InLog(t, k, v)'
  <2>1. InLog(t, k, v)
    BY <1>1, <1>2, <1>5, StoredLogged
  <2>2. wal' = wal
    BY WriteFrame
  <2> QED
    BY <2>1, <2>2 DEF InLog
<1>8. KnownNext(PutRec(cur, n))
  <2> SUFFICES ASSUME NEW r \in PutRec(cur, n)
               PROVE  /\ r.key = "marker" => r.ver \in committed'
                      /\ r.ver \in committed'
                           \/ (ctx'[r.ver].level = "RU" /\ ctx'[r.ver].pc # "none")
                      /\ r.key # "marker" => InLog(r.ver, r.key, r.val)'
                      /\ \A s \in PutRec(cur, n) : r.key = s.key /\ r.ver = s.ver => r = s
    BY DEF KnownNext
  <2>1. CASE r = n
    <3>1. \A s \in PutRec(cur, n) : r.key = s.key /\ r.ver = s.ver => r = s
      BY <2>1 DEF PutRec
    <3> QED
      BY <1>4, <1>5, <1>6, <1>7, <2>1, <3>1
  <2>2. CASE r \in cur /\ (r.key # n.key \/ r.ver # n.ver)
    <3>1. /\ r.key = "marker" => r.ver \in committed'
          /\ r.ver \in committed' \/ (ctx'[r.ver].level = "RU" /\ ctx'[r.ver].pc # "none")
          /\ r.key # "marker" => InLog(r.ver, r.key, r.val)'
          /\ \A s \in cur : r.key = s.key /\ r.ver = s.ver => r = s
      BY <2>2 DEF KnownNext
    <3>2. \A s \in PutRec(cur, n) : r.key = s.key /\ r.ver = s.ver => r = s
      BY <2>2, <3>1 DEF PutRec
    <3> QED
      BY <3>1, <3>2
  <2> QED
    BY <2>1, <2>2 DEF PutRec
<1> QED
  BY <1>1, <1>2, <1>3, <1>8

\* The table a commit leaves behind.
LEMMA CommitKnown ==
    ASSUME TypeOK, Shapes, CtxInv, CtxInv', OpsInv, LogInv, RecordsKnown, [TNext]_tvars,
           KnownNext(cur), \A r \in cur : r.key = "marker" => r.ver \in committed,
           NEW t \in Tx, CommitApply(t)
    PROVE  KnownNext(Applied(t))
<1>1. ctx[t].pc = "logged" /\ ctx'[t].pc = "committed"
  BY ApplyFields DEF Shapes
<1>2. t \in committed' /\ t \notin committed
  BY <1>1 DEF CtxInv
<1>3. wal' = wal
  BY EndFrame
<1>4. \A k \in Writes(t) : k \in Keys /\ InLog(t, k, ctx[t].temp[k])
  BY <1>1, StoredLogged DEF Writes
<1> DEFINE Old == {r \in cur : r.ver = t => r.key \notin Writes(t)}
           New == {Rec(k, t, ctx[t].temp[k]) : k \in Writes(t)}
           mark == Rec("marker", t, "del")
           new(r) == /\ r.ver = t /\ (r.key # "marker" => InLog(t, r.key, r.val)')
                     /\ \A s \in New \cup {mark} : r.key = s.key => r = s
<1>5. Applied(t) = Old \cup New \cup {mark}
  BY DEF Applied
<1>6. ASSUME NEW r \in New PROVE new(r) /\ r.key \in Writes(t) /\ r.key # "marker"
  <2>1. PICK k \in Writes(t) : r = Rec(k, t, ctx[t].temp[k])
    OBVIOUS
  <2>2. r.key = k /\ r.ver = t /\ r.val = ctx[t].temp[k] /\ k # "marker"
    BY <1>4, <2>1, KeysAssumption DEF Rec
  <2>3. InLog(t, r.key, r.val)
    BY <1>4, <2>2
  <2>4. InLog(t, r.key, r.val)'
    BY <1>3, <2>3 DEF InLog
  <2>5. ASSUME NEW s \in New, r.key = s.key PROVE r = s
    BY <2>1, <2>2, <2>5 DEF Rec
  <2>6. mark.key = "marker"
    BY DEF Rec
  <2> QED
    BY <2>2, <2>4, <2>5, <2>6
<1>7. mark.key = "marker" /\ mark.ver = t /\ new(mark)
  <2>1. mark.key = "marker" /\ mark.ver = t
    BY DEF Rec
  <2> HIDE DEF mark, New
  <2> QED
    BY <1>6, <2>1
<1>8. ASSUME NEW r \in Old, NEW s \in New \cup {mark} PROVE ~(r.key = s.key /\ r.ver = s.ver)
  <2>1. s.ver = t
    BY <1>6, <1>7
  <2>2. CASE s \in New
    BY <1>6, <2>1, <2>2
  <2>3. CASE s = mark
    BY <1>2, <1>7, <2>3
  <2> QED
    BY <2>2, <2>3
<1>9. ASSUME NEW r \in Old
      PROVE  /\ r.key = "marker" => r.ver \in committed'
             /\ r.ver \in committed' \/ (ctx'[r.ver].level = "RU" /\ ctx'[r.ver].pc # "none")
             /\ r.key # "marker" => InLog(r.ver, r.key, r.val)'
             /\ \A s \in Old : r.key = s.key /\ r.ver = s.ver => r = s
  BY DEF KnownNext
<1> HIDE DEF Old, New, mark, new
<1>10. ASSUME NEW r \in Old \cup New \cup {mark}
       PROVE  /\ r.key = "marker" => r.ver \in committed'
              /\ r.ver \in committed' \/ (ctx'[r.ver].level = "RU" /\ ctx'[r.ver].pc # "none")
              /\ r.key # "marker" => InLog(r.ver, r.key, r.val)'
              /\ \A s \in Old \cup New \cup {mark} : r.key = s.key /\ r.ver = s.ver => r = s
  <2>1. CASE r \in Old
    BY <1>8, <1>9, <2>1
  <2>2. CASE r \in New \cup {mark}
    <3>1. new(r)
      BY <1>6, <1>7, <2>2
    <3>2. r.ver = t /\ (r.key # "marker" => InLog(t, r.key, r.val)')
          /\ \A s \in New \cup {mark} : r.key = s.key => r = s
      BY <3>1 DEF new
    <3> QED
      BY <1>2, <1>8, <2>2, <3>2
  <2> QED
    BY <2>1, <2>2
<1> QED
  BY <1>5, <1>10 DEF KnownNext

\* Every record has a known writer and is in the log.
LEMMA RecordsKnownStep ==
    TypeOK /\ Shapes /\ Shapes' /\ CtxInv /\ CtxInv' /\ LockInv /\ OpsInv /\ LogInv
      /\ RecordsKnown /\ [TNext]_tvars => RecordsKnown'
<1> SUFFICES ASSUME TypeOK, Shapes, Shapes', CtxInv, CtxInv', LockInv, OpsInv, LogInv,
                    RecordsKnown, [TNext]_tvars
             PROVE  RecordsKnown'
  OBVIOUS
<1>c. 1 \in DOMAIN AllTables /\ AllTables[1] = cur
  <2>1. Layout
    BY AllTablesAt DEF Shapes
  <2>2. Len(AllTables) \in Nat /\ Len(AllTables) >= 1
    BY <2>1 DEF Layout
  <2> QED
    BY <2>1, <2>2 DEF Layout
<1>k. KnownNext(cur)
  BY <1>c, KnownKept
<1>1. CASE ~Stores
  <2>1. \E d \in {0, 1} : TableMove(cur, d)
    BY <1>1, QuietMove
  <2> QED
    BY <1>k, <2>1, KnownMoved
<1>2. ASSUME NEW t \in Tx, ApplyWrite(t) PROVE RecordsKnown'
  <2> DEFINE T == PutRec(cur, Rec(Last(ctx[t].ops).key, t, Last(ctx[t].ops).val))
  <2>1. Last(ctx[t].ops).key \in Keys /\ \E d \in {0, 1} : TableMove(T, d)
    BY <1>2, WriteMove
  <2>2. KnownNext(T)
    BY <1>k, <1>2, <2>1, WriteKnown
  <2> HIDE DEF T
  <2> QED
    BY <2>1, <2>2, KnownMoved
<1>3. ASSUME NEW t \in Tx, CommitApply(t) PROVE RecordsKnown'
  <2>1. \E d \in {0, 1} : TableMove(Applied(t), d)
    BY <1>3, CommitMove
  <2>2. KnownNext(Applied(t))
    <3>1. \A r \in cur : r.key = "marker" => r.ver \in committed
      BY <1>c DEF RecordsKnown
    <3> QED
      BY <1>k, <1>3, <3>1, CommitKnown
  <2> QED
    BY <2>1, <2>2, KnownMoved
<1> QED
  BY <1>1, <1>2, <1>3 DEF Stores

\* Where a table of the present state goes.
LEMMA MoveOn ==
    ASSUME TableShapes, FlushShape, TableShapes', FlushShape', NEW T, NEW d \in {0, 1},
           TableMove(T, d)
    PROVE  /\ 1 + d \in DOMAIN AllTables' /\ AllTables'[1 + d] = T
           /\ 1 \in DOMAIN AllTables /\ AllTables[1] = cur /\ Len(AllTables) \in Nat
           /\ \A i \in DOMAIN AllTables : /\ i \in Nat /\ i + d \in DOMAIN AllTables'
                                          /\ i # 1 => AllTables'[i + d] = AllTables[i]
<1>1. Layout /\ Layout'
  BY AllTablesAt, PTL
<1>2. /\ Len(AllTables) \in Nat /\ Len(AllTables) >= 1 /\ DOMAIN AllTables = 1..Len(AllTables)
      /\ AllTables[1] = cur
  <2>1. Len(frozen) \in Nat /\ Len(ssts) \in Nat /\ Built \in {0, 1}
        /\ Len(AllTables) = 1 + Len(frozen) + Built + Len(ssts)
    BY <1>1 DEF Layout
  <2>2. DOMAIN AllTables = 1..Len(AllTables) /\ AllTables[1] = cur
    BY <1>1 DEF Layout
  <2> QED
    BY <2>1, <2>2
<1>3. DOMAIN AllTables' = 1..(Len(AllTables) + d)
  <2>1. DOMAIN AllTables' = 1..Len(AllTables')
    BY <1>1 DEF Layout
  <2> QED
    BY <2>1 DEF TableMove
<1>4. ASSUME NEW i \in DOMAIN AllTables
      PROVE  /\ i \in Nat /\ i + d \in DOMAIN AllTables' /\ (i # 1 => i \in 2..Len(AllTables))
  BY <1>2, <1>3
<1>5. 1 + d \in DOMAIN AllTables'
  BY <1>2, <1>3
<1> QED
  BY <1>2, <1>4, <1>5 DEF TableMove

\* Only a commit adds to the committed transactions.
LEMMA CommittedNext ==
    ASSUME TypeOK, Shapes, [TNext]_tvars
    PROVE  \/ (\A u \in committed' : u \in committed) /\ \A t \in Tx : ~CommitApply(t)
           \/ \E t \in Tx : CommitApply(t) /\ \A u \in committed' : u \in committed \/ u = t
<1>1. ASSUME NEW t \in Tx, CommitApply(t) PROVE \A u \in committed' : u \in committed \/ u = t
  BY <1>1 DEF CommitApply, AddReadyToFlush
<1>2. ASSUME NEW t \in Tx, CommitConflict(t) \/ Abort(t) PROVE committed' = committed
  BY <1>2 DEF CommitConflict, Abort, AddReadyToFlush
<1>3. ASSUME NEW level \in Levels, Begin(level) PROVE \A u \in committed' : u \in committed
  BY <1>3 DEF Begin, NewTranc
<1>4. FlushReport => committed' = committed
  BY DEF FlushReport, AddFlushed, history
<1>5. ASSUME NEW t \in Tx,
             \/ \E k \in Keys, v \in Vals : StageWrite(t, k, v) \/ LogWrite(t, k, v)
             \/ ApplyWrite(t) \/ CommitLog(t)
             \/ (\E k \in Keys : ReadMem(t, k))
             \/ ReadSsts(t) \/ ReadVersion(t) \/ ReadReturn(t)
      PROVE  committed' = committed
  <2>1. UNCHANGED vars
    BY <1>5, WriteFrame, ReadFrame, EndFrame
  <2> QED
    BY <2>1, ManagerFrame
<1>6. CASE FlushLock \/ FlushNothing \/ FlushPick \/ FlushFails \/ FlushBuilt
            \/ FlushRegister \/ UNCHANGED tvars
  <2>1. UNCHANGED vars
    BY <1>6, FlushFrame, TvarsFrame
  <2> QED
    BY <2>1, ManagerFrame
<1>7. CASE \E t \in Tx : CommitApply(t)
  BY <1>1, <1>7
<1>8. CASE \A t \in Tx : ~CommitApply(t)
  <2>1. \A u \in committed' : u \in committed
    BY <1>2, <1>3, <1>4, <1>5, <1>6, <1>8 DEF TNext, FlushStep
  <2> QED
    BY <1>8, <2>1
<1> QED
  BY <1>7, <1>8

\* The markers of the table that a step stores.
LEMMA StoredMarkers ==
    ASSUME NEW t \in Tx
    PROVE  /\ \A k \in Keys : \A v : MarkersOf(PutRec(cur, Rec(k, t, v))) = MarkersOf(cur)
           /\ MarkersOf(Applied(t)) = MarkersOf(cur) \cup {t}
<1>1. ASSUME NEW k \in Keys, NEW v
      PROVE  MarkersOf(PutRec(cur, Rec(k, t, v))) = MarkersOf(cur)
  <2>1. PICK n : n = Rec(k, t, v)
    OBVIOUS
  <2>2. n.key # "marker"
    BY <2>1, KeysAssumption DEF Rec
  <2>3. \A x \in cur : x.key = "marker" => x \in PutRec(cur, n)
    BY <2>2, KeysAssumption DEF PutRec
  <2>4. \A x \in PutRec(cur, n) : x.key = "marker" => x \in cur
    BY <2>2 DEF PutRec
  <2>5. MarkersOf(PutRec(cur, n)) = MarkersOf(cur)
    BY <2>3, <2>4 DEF MarkersOf
  <2> QED
    BY <2>1, <2>5
<1>2. MarkersOf(Applied(t)) = MarkersOf(cur) \cup {t}
  <2> DEFINE Old == {r \in cur : r.ver = t => r.key \notin Writes(t)}
             New == {Rec(k, t, ctx[t].temp[k]) : k \in Writes(t)}
             mark == Rec("marker", t, "del")
  <2>1. Applied(t) = Old \cup New \cup {mark}
    BY DEF Applied
  <2>2. "marker" \notin Writes(t)
    BY KeysAssumption DEF Writes
  <2>3. \A r \in New : r.key # "marker"
    BY <2>2 DEF Rec
  <2>4. \A x \in cur : x.key = "marker" => x \in Old
    BY <2>2
  <2>5. mark.key = "marker" /\ mark.ver = t
    BY DEF Rec
  <2> HIDE DEF New, mark
  <2> QED
    BY <2>1, <2>3, <2>4, <2>5 DEF MarkersOf
<1> QED
  BY <1>1, <1>2

\* The active table keeps its markers in every step, and a commit adds its own.
LEMMA MarkerMove ==
    ASSUME TypeOK, Shapes, LockInv, OpsInv, [TNext]_tvars
    PROVE  \/ \E t \in Tx : \E d \in {0, 1}, T \in SUBSET Recs :
                /\ CommitApply(t) /\ T = Applied(t) /\ TableMove(T, d)
                /\ MarkersOf(T) = MarkersOf(cur) \cup {t}
                /\ Unflushed' = Unflushed + d /\ ssts' = ssts /\ flush' = flush
           \/ /\ \A t \in Tx : ~CommitApply(t)
              /\ \E d \in {0, 1}, T \in SUBSET Recs :
                 /\ TableMove(T, d) /\ MarkersOf(T) = MarkersOf(cur)
                 /\ T = cur \/ \E t \in Tx : ApplyWrite(t) /\ T =
                     PutRec(cur, Rec(Last(ctx[t].ops).key, t, Last(ctx[t].ops).val))
                 /\ \/ Unflushed' = Unflushed + d /\ ssts' = ssts
                    \/ FlushRegister /\ d = 0 /\ T = cur /\ Unflushed' = Unflushed - 1
<1>1. ASSUME NEW t \in Tx, CommitApply(t)
      PROVE  \E d \in {0, 1}, T \in SUBSET Recs :
                /\ T = Applied(t) /\ TableMove(T, d) /\ MarkersOf(T) = MarkersOf(cur) \cup {t}
                /\ Unflushed' = Unflushed + d /\ ssts' = ssts /\ flush' = flush
  <2>1. Applied(t) \in SUBSET Recs
    BY StoredShape
  <2>2. \E d \in {0, 1} : TableMove(Applied(t), d) /\ Unflushed' = Unflushed + d
    BY <1>1, CommitMove
  <2>3. ssts' = ssts /\ flush' = flush
    BY <1>1, EndFrame
  <2> QED
    BY <2>1, <2>2, <2>3, StoredMarkers
<1>2. ASSUME NEW t \in Tx, ApplyWrite(t)
      PROVE  \E d \in {0, 1}, T \in SUBSET Recs :
                 /\ TableMove(T, d) /\ MarkersOf(T) = MarkersOf(cur)
                 /\ T = PutRec(cur, Rec(Last(ctx[t].ops).key, t, Last(ctx[t].ops).val))
                 /\ Unflushed' = Unflushed + d /\ ssts' = ssts
  <2>1. PICK T : T = PutRec(cur, Rec(Last(ctx[t].ops).key, t, Last(ctx[t].ops).val))
    OBVIOUS
  <2>2. Last(ctx[t].ops).key \in Keys /\ \E d \in {0, 1} : TableMove(T, d) /\ Unflushed' = Unflushed + d
    BY <1>2, <2>1, WriteMove
  <2>3. ctx[t].ops # <<>>
    BY <1>2 DEF OpsInv, OpsOk, ApplyWrite
  <2>4. T \in SUBSET Recs
    BY <2>1, <2>3, StoredShape
  <2>5. MarkersOf(T) = MarkersOf(cur)
    BY <2>1, <2>2, StoredMarkers
  <2>6. ssts' = ssts
    BY <1>2, WriteFrame
  <2> QED
    BY <2>1, <2>2, <2>4, <2>5, <2>6
<1>3. CASE ~Stores
  <2>1. cur \in SUBSET Recs
    BY DEF Shapes, TableShapes
  <2>2. \E d \in {0, 1} :
              /\ TableMove(cur, d)
              /\ \/ Unflushed' = Unflushed + d /\ ssts' = ssts
                 \/ FlushRegister /\ d = 0 /\ Unflushed' = Unflushed - 1
    BY <1>3, QuietMove
  <2> QED
    BY <1>3, <2>1, <2>2 DEF Stores
<1>4. CASE \E t \in Tx : CommitApply(t)
  BY <1>1, <1>4
<1>5. CASE (\A t \in Tx : ~CommitApply(t)) /\ \E t \in Tx : ApplyWrite(t)
  BY <1>2, <1>5
<1> QED
  BY <1>3, <1>4, <1>5 DEF Stores

\* A committed transaction's marker stays in some table.
LEMMA MarkerPlacedStep ==
    TypeOK /\ Shapes /\ Shapes' /\ LockInv /\ OpsInv /\ MarkerPlaced /\ [TNext]_tvars
      => MarkerPlaced'
<1> SUFFICES ASSUME TypeOK, Shapes, Shapes', LockInv, OpsInv, MarkerPlaced, [TNext]_tvars,
                    NEW u \in committed'
             PROVE  \E i \in DOMAIN AllTables' : u \in MarkersOf(AllTables'[i])
  BY DEF MarkerPlaced, MarkersOf
<1>s. TableShapes /\ FlushShape /\ TableShapes' /\ FlushShape'
  BY DEF Shapes
<1>1. ASSUME NEW T, NEW d \in {0, 1}, TableMove(T, d), MarkersOf(cur) \subseteq MarkersOf(T),
             u \in committed \/ u \in MarkersOf(T)
      PROVE  \E i \in DOMAIN AllTables' : u \in MarkersOf(AllTables'[i])
  <2>1. /\ 1 + d \in DOMAIN AllTables' /\ AllTables'[1 + d] = T /\ AllTables[1] = cur
        /\ \A i \in DOMAIN AllTables : /\ i + d \in DOMAIN AllTables'
                                       /\ i # 1 => AllTables'[i + d] = AllTables[i]
    BY <1>s, <1>1, MoveOn
  <2>2. CASE u \in MarkersOf(T)
    BY <2>1, <2>2
  <2>3. CASE u \in committed
    <3>1. PICK i \in DOMAIN AllTables : u \in MarkersOf(AllTables[i])
      BY <2>3 DEF MarkerPlaced
    <3> QED
      BY <1>1, <2>1, <2>2, <3>1
  <2> QED
    BY <1>1, <2>2, <2>3
<1>2. CASE \A t \in Tx : ~CommitApply(t)
  <2>1. u \in committed
    BY <1>2, CommittedNext
  <2>2. \E d \in {0, 1}, T \in SUBSET Recs : TableMove(T, d) /\ MarkersOf(T) = MarkersOf(cur)
    BY <1>2, MarkerMove
  <2> QED
    BY <1>1, <2>1, <2>2
<1>3. CASE \E t \in Tx : CommitApply(t)
  <2>1. PICK t \in Tx : \E d \in {0, 1}, T \in SUBSET Recs :
           CommitApply(t) /\ TableMove(T, d) /\ MarkersOf(T) = MarkersOf(cur) \cup {t}
    BY <1>3, MarkerMove
  <2>2. u \in committed \/ u = t
    BY <2>1 DEF CommitApply, AddReadyToFlush
  <2> QED
    BY <1>1, <2>1, <2>2
<1> QED
  BY <1>2, <1>3

\* A record was there before, or a transaction that has not committed stores it.
LEMMA RecordFrom ==
    ASSUME TypeOK, Shapes, Shapes', CtxInv, LockInv, OpsInv, [TNext]_tvars
    PROVE  \E d \in {0, 1} : \A j \in DOMAIN AllTables' : \A s \in AllTables'[j] :
              /\ j \in Nat /\ j >= 1 + d
              /\ \/ j - d \in DOMAIN AllTables /\ s \in AllTables[j - d]
                 \/ j = 1 + d /\ s.ver \notin committed
<1>s. TableShapes /\ FlushShape /\ TableShapes' /\ FlushShape' /\ CtxShape
  BY DEF Shapes
<1>1. PICK d \in {0, 1}, T \in SUBSET Recs :
         /\ TableMove(T, d)
         /\ \/ T = cur
            \/ \E t \in Tx : ApplyWrite(t) /\ T =
                 PutRec(cur, Rec(Last(ctx[t].ops).key, t, Last(ctx[t].ops).val))
            \/ \E t \in Tx : CommitApply(t) /\ T = Applied(t)
  BY MarkerMove
<1>2. ASSUME NEW s \in T PROVE s \in cur \/ s.ver \notin committed
  <2>1. ASSUME NEW t \in Tx, ApplyWrite(t),
               T = PutRec(cur, Rec(Last(ctx[t].ops).key, t, Last(ctx[t].ops).val))
        PROVE  s \in cur \/ s.ver \notin committed
    <3>1. ctx[t].pc = "writing"
      BY <1>s, <2>1, ApplyFields
    <3>2. t \notin committed
      BY <3>1 DEF CtxInv
    <3>3. s \in cur \/ s = Rec(Last(ctx[t].ops).key, t, Last(ctx[t].ops).val)
      BY <2>1 DEF PutRec
    <3> QED
      BY <3>2, <3>3 DEF Rec
  <2>2. ASSUME NEW t \in Tx, CommitApply(t), T = Applied(t)
        PROVE  s \in cur \/ s.ver \notin committed
    <3>1. ctx[t].pc = "logged"
      BY <1>s, <2>2, ApplyFields
    <3>2. t \notin committed
      BY <3>1 DEF CtxInv
    <3>3. s \in cur \/ (\E k \in Writes(t) : s = Rec(k, t, ctx[t].temp[k]))
          \/ s = Rec("marker", t, "del")
      BY <2>2 DEF Applied
    <3> QED
      BY <3>2, <3>3 DEF Rec
  <2> QED
    BY <1>1, <2>1, <2>2
<1>3. 1 \in DOMAIN AllTables /\ AllTables[1] = cur
  BY <1>s, <1>1, MoveOn
<1>4. ASSUME NEW j \in DOMAIN AllTables', NEW s \in AllTables'[j]
      PROVE  /\ j \in Nat /\ j >= 1 + d
             /\ \/ j - d \in DOMAIN AllTables /\ s \in AllTables[j - d]
                \/ j = 1 + d /\ s.ver \notin committed
  <2>1. /\ j \in Nat
        /\ \/ j = 1 + d /\ AllTables'[j] = T
           \/ /\ j - d \in 2..Len(AllTables) /\ j - d \in DOMAIN AllTables
              /\ AllTables'[j] = AllTables[j - d]
    BY <1>s, <1>1, MoveBack
  <2>2. j = 1 + d => j - d = 1
    OBVIOUS
  <2>3. CASE j = 1 + d /\ AllTables'[j] = T
    BY <1>2, <1>3, <2>1, <2>2, <2>3
  <2>4. CASE j - d \in 2..Len(AllTables) /\ j - d \in DOMAIN AllTables
               /\ AllTables'[j] = AllTables[j - d]
    BY <2>1, <2>4
  <2> QED
    BY <2>1, <2>3, <2>4
<1> QED
  BY <1>4

\* No record of a transaction enters a table newer than its marker's.
LEMMA MarkerLastStep ==
    TypeOK /\ Shapes /\ Shapes' /\ CtxInv /\ LockInv /\ OpsInv /\ RecordsKnown /\ MarkerLast
      /\ [TNext]_tvars => MarkerLast'
<1> SUFFICES ASSUME TypeOK, Shapes, Shapes', CtxInv, LockInv, OpsInv, RecordsKnown, MarkerLast,
                    [TNext]_tvars, NEW i \in DOMAIN AllTables', NEW j \in DOMAIN AllTables',
                    NEW r \in AllTables'[i], NEW s \in AllTables'[j],
                    r.key = "marker", r.ver = s.ver
             PROVE  i <= j
  BY DEF MarkerLast
<1>1. PICK d \in {0, 1} : \A x \in DOMAIN AllTables' : \A y \in AllTables'[x] :
              /\ x \in Nat /\ x >= 1 + d
              /\ \/ x - d \in DOMAIN AllTables /\ y \in AllTables[x - d]
                 \/ x = 1 + d /\ y.ver \notin committed
  BY RecordFrom
<1>2. i \in Nat /\ j \in Nat /\ j >= 1 + d
  BY <1>1
<1>3. CASE i = 1 + d
  BY <1>2, <1>3
<1>4. CASE i - d \in DOMAIN AllTables /\ r \in AllTables[i - d]
  <2>1. r.ver \in committed
    BY <1>4 DEF RecordsKnown
  <2>2. j - d \in DOMAIN AllTables /\ s \in AllTables[j - d]
    BY <1>1, <2>1
  <2>3. i - d <= j - d
    BY <1>4, <2>2 DEF MarkerLast
  <2> QED
    BY <1>2, <2>3
<1> QED
  BY <1>1, <1>3, <1>4

\* Which markers are in memory after tables have moved.
LEMMA MemoryMarkers ==
    ASSUME TableShapes, FlushShape, TableShapes', FlushShape', NEW T, NEW d \in {0, 1},
           TableMove(T, d), Unflushed' = Unflushed + d, NEW t
    PROVE  /\ (\E i \in 1..Unflushed : t \in MarkersOf(AllTables[i])) <=>
                t \in MarkersOf(cur) \/ \E i \in 2..Unflushed : t \in MarkersOf(AllTables[i])
           /\ (\E i \in 1..Unflushed' : t \in MarkersOf(AllTables'[i])) <=>
                t \in MarkersOf(T) \/ \E i \in 2..Unflushed : t \in MarkersOf(AllTables[i])
<1>1. Layout
  BY AllTablesAt
<1>2. Unflushed \in Nat /\ Unflushed >= 1 /\ Unflushed <= Len(AllTables) /\ AllTables[1] = cur
      /\ Len(AllTables) \in Nat
  <2>1. Len(frozen) \in Nat /\ Len(ssts) \in Nat /\ Built \in {0, 1}
        /\ Len(AllTables) = 1 + Len(frozen) + Built + Len(ssts)
        /\ Unflushed = 1 + Len(frozen) + Built
    BY <1>1 DEF Layout
  <2>2. AllTables[1] = cur
    BY <1>1 DEF Layout
  <2> QED
    BY <2>1, <2>2
<1>3. \A i \in 1..Unflushed : i = 1 \/ i \in 2..Unflushed
  BY <1>2
<1>4. 1 \in 1..Unflushed /\ 2..Unflushed \subseteq 1..Unflushed
  BY <1>2
<1>5. /\ AllTables'[1 + d] = T /\ (d = 1 => AllTables'[1] = {})
      /\ \A i \in 2..Len(AllTables) : AllTables'[i + d] = AllTables[i]
  BY DEF TableMove
<1>6. ASSUME NEW i \in 2..Unflushed
      PROVE  i + d \in 1..Unflushed' /\ AllTables'[i + d] = AllTables[i]
  <2>1. i + d \in 1..Unflushed' /\ i \in 2..Len(AllTables)
    BY <1>2
  <2> QED
    BY <1>5, <2>1
<1>7. ASSUME NEW j \in 1..Unflushed', t \in MarkersOf(AllTables'[j])
      PROVE  t \in MarkersOf(T) \/ \E i \in 2..Unflushed : t \in MarkersOf(AllTables[i])
  <2>1. (j = 1 /\ d = 1) \/ j = 1 + d \/ (j - d \in 2..Unflushed /\ (j - d) + d = j)
    BY <1>2
  <2>2. CASE j = 1 /\ d = 1
    BY <1>5, <1>7, <2>2 DEF MarkersOf
  <2>3. CASE j = 1 + d
    BY <1>5, <1>7, <2>3
  <2>4. CASE j - d \in 2..Unflushed /\ (j - d) + d = j
    <3>1. AllTables'[(j - d) + d] = AllTables[j - d]
      BY <1>6, <2>4
    <3> QED
      BY <1>7, <2>4, <3>1
  <2> QED
    BY <2>1, <2>2, <2>3, <2>4
<1>8. 1 + d \in 1..Unflushed'
  BY <1>2
<1>9. (\E i \in 1..Unflushed : t \in MarkersOf(AllTables[i])) <=>
                t \in MarkersOf(cur) \/ \E i \in 2..Unflushed : t \in MarkersOf(AllTables[i])
  BY <1>2, <1>3, <1>4
<1>10. (\E i \in 1..Unflushed' : t \in MarkersOf(AllTables'[i])) <=>
                t \in MarkersOf(T) \/ \E i \in 2..Unflushed : t \in MarkersOf(AllTables[i])
  BY <1>5, <1>6, <1>7, <1>8
<1> QED
  BY <1>9, <1>10

\* How the set of waiting markers changes.
LEMMA MarkersNext ==
    ASSUME TypeOK, [TNext]_tvars
    PROVE  /\ \A t \in Tx : CommitApply(t) => markers' = markers \cup {t}
           /\ FlushReport => markers' = markers \ {Max(flush.ids)}
           /\ (\A t \in Tx : ~CommitApply(t)) /\ ~FlushReport => markers' = markers
<1>1. ASSUME NEW t \in Tx, CommitApply(t) PROVE markers' = markers \cup {t}
  BY <1>1 DEF CommitApply, AddReadyToFlush
<1>2. ASSUME NEW t \in Tx, CommitConflict(t) \/ Abort(t) PROVE markers' = markers
  BY <1>2 DEF CommitConflict, Abort, AddReadyToFlush
<1>3. ASSUME NEW level \in Levels, Begin(level) PROVE markers' = markers
  BY <1>3, BeginFrame
<1>4. FlushReport => markers' = markers \ {Max(flush.ids)}
  BY DEF FlushReport, AddFlushed
<1>5. ASSUME NEW t \in Tx,
             \/ \E k \in Keys, v \in Vals : StageWrite(t, k, v) \/ LogWrite(t, k, v)
             \/ ApplyWrite(t) \/ CommitLog(t)
             \/ (\E k \in Keys : ReadMem(t, k))
             \/ ReadSsts(t) \/ ReadVersion(t) \/ ReadReturn(t)
      PROVE  markers' = markers
  <2>1. UNCHANGED vars
    BY <1>5, WriteFrame, ReadFrame, EndFrame
  <2> QED
    BY <2>1, ManagerFrame
<1>6. CASE FlushLock \/ FlushNothing \/ FlushPick \/ FlushFails \/ FlushBuilt
            \/ FlushRegister \/ UNCHANGED tvars
  <2>1. UNCHANGED vars
    BY <1>6, FlushFrame, TvarsFrame
  <2> QED
    BY <1>1, <1>4, <2>1, ManagerFrame
<1>7. (\A t \in Tx : ~CommitApply(t)) /\ ~FlushReport => markers' = markers
  BY <1>2, <1>3, <1>5, <1>6 DEF TNext, FlushStep
<1> QED
  BY <1>1, <1>4, <1>7

\* Only a registered SST makes a flush report, and only a report ends that.
LEMMA ReportingNext ==
    ASSUME TypeOK, [TNext]_tvars, ~FlushRegister, ~FlushReport
    PROVE  flush' = flush \/ (flush.ph # "reporting" /\ flush'.ph # "reporting")
<1>1. CASE FlushLock \/ FlushNothing \/ FlushPick \/ FlushFails \/ FlushBuilt
  BY <1>1 DEF FlushLock, FlushNothing, FlushPick, FlushFails, FlushBuilt, NoFlush,
              SstsFree, SstsShareable
<1>2. ASSUME NEW t \in Tx,
             \/ \E k \in Keys, v \in Vals : StageWrite(t, k, v) \/ LogWrite(t, k, v)
             \/ ApplyWrite(t) \/ CommitLog(t) \/ CommitApply(t) \/ CommitConflict(t) \/ Abort(t)
             \/ (\E k \in Keys : ReadMem(t, k))
             \/ ReadSsts(t) \/ ReadVersion(t) \/ ReadReturn(t)
      PROVE  flush' = flush
  BY <1>2, WriteFrame, ReadFrame, EndFrame
<1>3. CASE (\E level \in Levels : Begin(level)) \/ UNCHANGED tvars
  BY <1>3, BeginFrame, TvarsFrame
<1> QED
  BY <1>1, <1>2, <1>3 DEF TNext, FlushStep

\* The waiting markers are the ones in memory and the ones being reported.
LEMMA MarkerInvStep ==
    TypeOK /\ Shapes /\ Shapes' /\ LockInv /\ OpsInv /\ MarkerLast /\ MarkerInv
      /\ [TNext]_tvars => MarkerInv'
<1> SUFFICES ASSUME TypeOK, Shapes, Shapes', LockInv, OpsInv, MarkerLast, MarkerInv, [TNext]_tvars
             PROVE  MarkerInv'
  OBVIOUS
<1>s. TableShapes /\ FlushShape /\ TableShapes' /\ FlushShape'
  BY DEF Shapes
<1> DEFINE InMem(t) == \E i \in 1..Unflushed : t \in MarkersOf(AllTables[i])
           InMemNext(t) == \E i \in 1..Unflushed' : t \in MarkersOf(AllTables'[i])
           InReport(t) == flush.ph = "reporting" /\ t \in flush.ids
           Source == flush.ph = "reporting" => ssts # <<>> /\ flush.ids \subseteq MarkersOf(ssts[1])
<1>m. (\A t \in Tx : t \in markers <=> InMem(t) \/ InReport(t)) /\ Source
  BY DEF MarkerInv
<1>n. (\A t \in Tx : t \in markers' <=> InMemNext(t) \/ InReport(t)') /\ Source' => MarkerInv'
  BY DEF MarkerInv, MarkersOf
<1>1. CASE ~FlushRegister /\ ~FlushReport
  <2>1. flush' = flush \/ (flush.ph # "reporting" /\ flush'.ph # "reporting")
    BY <1>1, ReportingNext
  <2>2. \A t \in Tx : InReport(t)' <=> InReport(t)
    BY <2>1
  <2>3. CASE \A t \in Tx : ~CommitApply(t)
    <3>1. PICK d \in {0, 1}, T \in SUBSET Recs :
             /\ TableMove(T, d) /\ MarkersOf(T) = MarkersOf(cur)
             /\ Unflushed' = Unflushed + d /\ ssts' = ssts
      BY <1>1, <2>3, MarkerMove
    <3>2. \A t \in Tx : InMemNext(t) <=> InMem(t)
      BY <1>s, <3>1, MemoryMarkers
    <3>3. markers' = markers /\ Source'
      BY <1>1, <1>m, <2>1, <2>3, <3>1, MarkersNext
    <3> HIDE DEF InMem, InMemNext, InReport, Source
    <3> QED
      BY <1>m, <1>n, <2>2, <3>2, <3>3
  <2>4. ASSUME NEW u \in Tx, CommitApply(u) PROVE MarkerInv'
    <3>1. PICK v \in Tx : \E d \in {0, 1}, T \in SUBSET Recs :
             /\ CommitApply(v) /\ TableMove(T, d) /\ MarkersOf(T) = MarkersOf(cur) \cup {v}
             /\ Unflushed' = Unflushed + d /\ ssts' = ssts
      BY <2>4, MarkerMove
    <3>2. PICK d \in {0, 1}, T \in SUBSET Recs :
             /\ TableMove(T, d) /\ MarkersOf(T) = MarkersOf(cur) \cup {v}
             /\ Unflushed' = Unflushed + d /\ ssts' = ssts
      BY <3>1
    <3>3. \A t \in Tx : InMemNext(t) <=> InMem(t) \/ t = v
      BY <1>s, <3>2, MemoryMarkers
    <3>4. markers' = markers \cup {v} /\ Source'
      BY <1>m, <2>1, <3>1, <3>2, MarkersNext
    <3> HIDE DEF InMem, InMemNext, InReport, Source
    <3> QED
      BY <1>m, <1>n, <2>2, <3>3, <3>4
  <2> QED
    BY <2>3, <2>4
<1>L. /\ Len(frozen) \in Nat /\ Len(ssts) \in Nat /\ Built \in {0, 1}
      /\ Unflushed = 1 + Len(frozen) + Built
      /\ Len(AllTables) = 1 + Len(frozen) + Built + Len(ssts)
      /\ flush.ph = "built" => AllTables[2 + Len(frozen)] = flush.table
  BY <1>s, AllTablesAt DEF Layout
<1>2. CASE FlushRegister
  <2>1. /\ flush.ph = "built" /\ ssts' = <<flush.table>> \o ssts
        /\ flush' = Reporting(MarkersOf(flush.table)) /\ markers' = markers
    <3>1. UNCHANGED vars
      BY <1>2, FlushFrame
    <3> QED
      BY <1>2, <3>1, ManagerFrame DEF FlushRegister
  <2>2. ssts'[1] = flush.table /\ ssts' # <<>>
    <3>1. flush.table \in SUBSET Recs /\ ssts \in Tables
      BY <1>s, <2>1 DEF FlushShape, Flushes, NoFlush, TableShapes
    <3>2. Len(<<flush.table>> \o ssts) = Len(ssts) + 1 /\ (<<flush.table>> \o ssts)[1] = flush.table
          /\ <<flush.table>> \o ssts \in Tables
      BY <3>1, PushTable
    <3>3. Len(<<flush.table>> \o ssts) > 0
      BY <1>L, <3>2
    <3> QED
      BY <2>1, <3>2, <3>3, TableBasics
  <2>3. TableMove(cur, 0) /\ Unflushed' = Unflushed - 1
    BY <1>s, <1>2, FlushMove
  <2>4. /\ AllTables'[1 + 0] = cur /\ AllTables[1] = cur
        /\ \A i \in DOMAIN AllTables : i \in Nat /\ (i # 1 => AllTables'[i + 0] = AllTables[i])
        /\ DOMAIN AllTables = 1..Len(AllTables)
    <3>1. 0 \in {0, 1}
      OBVIOUS
    <3>2. DOMAIN AllTables = 1..Len(AllTables)
      BY <1>s, AllTablesAt DEF Layout
    <3> QED
      BY <1>s, <2>3, <3>1, <3>2, MoveOn
  <2>5. Unflushed = 2 + Len(frozen) /\ Unflushed \in Nat /\ Unflushed' \in Nat
        /\ Unflushed <= Len(AllTables)
    <3>1. Built = 1
      BY <2>1 DEF Built
    <3> QED
      BY <1>L, <2>3, <3>1
  <2>6. ASSUME NEW i \in 1..Unflushed PROVE AllTables'[i] = AllTables[i]
    <3>1. i \in DOMAIN AllTables /\ i + 0 = i /\ 1 + 0 = 1
      BY <1>L, <2>4, <2>5
    <3> QED
      BY <2>4, <3>1
  <2>7. AllTables[Unflushed] = flush.table
    BY <1>L, <2>1, <2>5
  <2>8. \A i \in 1..Unflushed : i \in 1..Unflushed' \/ i = Unflushed
    BY <2>3, <2>5
  <2>9. Unflushed \in 1..Unflushed /\ \A i \in 1..Unflushed' : i \in 1..Unflushed
    BY <2>3, <2>5
  <2>10. ASSUME NEW t \in Tx PROVE InMem(t) <=> InMemNext(t) \/ t \in MarkersOf(flush.table)
    BY <2>6, <2>7, <2>8, <2>9
  <2>11. \A t \in Tx : InReport(t)' <=> t \in MarkersOf(flush.table)
    BY <2>1 DEF Reporting, NoFlush
  <2>12. \A t \in Tx : ~InReport(t)
    BY <2>1
  <2>13. Source'
    BY <2>1, <2>2 DEF Reporting, NoFlush
  <2> HIDE DEF InMem, InMemNext, InReport, Source
  <2> QED
    BY <1>m, <1>n, <2>1, <2>10, <2>11, <2>12, <2>13
<1>3. CASE FlushReport
  <2>1. /\ flush.ph = "reporting" /\ flush' = Reporting(flush.ids \ {Max(flush.ids)})
        /\ UNCHANGED <<cur, frozen, ssts>>
    BY <1>3, FlushFrame DEF FlushReport
  <2>2. markers' = markers \ {Max(flush.ids)}
    BY <1>3, MarkersNext
  <2>3. PICK m : m = Max(flush.ids)
    OBVIOUS
  <2>4. m \in flush.ids /\ m \in Tx
    <3>1. flush.ids \subseteq Tx /\ flush.ids # {}
      BY <1>s, <2>1 DEF FlushShape, Flushes, NoFlush
    <3>2. flush.ids \subseteq 0..MaxId /\ MaxId \in Nat
      BY <3>1, MaxIdAssumption DEF Tx
    <3> QED
      BY <2>3, <3>1, <3>2, MaxBounded
  <2>5. AllTables' = AllTables /\ Unflushed' = Unflushed
    <3>1. flush'.ph # "built" /\ flush.ph # "built"
      BY <2>1 DEF Reporting, NoFlush
    <3>2. AllTables' = AllTables
      BY <2>1, <3>1 DEF AllTables, MemTables
    <3> QED
      BY <2>1, <3>2 DEF Unflushed
  <2>6. ~InMem(m)
    <3> SUFFICES ASSUME NEW i \in 1..Unflushed, m \in MarkersOf(AllTables[i]) PROVE FALSE
      OBVIOUS
    <3>1. ssts # <<>> /\ m \in MarkersOf(ssts[1])
      BY <1>m, <2>1, <2>4
    <3>2. ssts \in Tables
      BY <1>s DEF TableShapes
    <3>3. Len(ssts) > 0 /\ DOMAIN ssts = 1..Len(ssts)
      BY <3>1, <3>2, TableBasics
    <3>4. 1 \in DOMAIN ssts
      BY <1>L, <3>3
    <3>5. Unflushed + 1 \in DOMAIN AllTables /\ ssts[1] = AllTables[Unflushed + 1]
      BY <1>s, <3>4, TablesAmong
    <3>6. DOMAIN AllTables = 1..Len(AllTables)
      BY <1>s, AllTablesAt DEF Layout
    <3>7. i \in DOMAIN AllTables /\ i \in Nat /\ Unflushed \in Nat
      BY <1>L, <3>6
    <3>8. PICK r \in AllTables[i] : r.key = "marker" /\ r.ver = m
      BY DEF MarkersOf
    <3>9. PICK s \in AllTables[Unflushed + 1] : s.key = "marker" /\ s.ver = m
      BY <3>1, <3>5 DEF MarkersOf
    <3>10. Unflushed + 1 <= i
      BY <3>5, <3>7, <3>8, <3>9 DEF MarkerLast
    <3> QED
      BY <3>7, <3>10
  <2>7. \A t \in Tx : InMemNext(t) <=> InMem(t)
    BY <2>5
  <2>8. \A t \in Tx : InReport(t)' <=> InReport(t) /\ t # m
    BY <2>1, <2>3 DEF Reporting, NoFlush
  <2>9. Source'
    BY <1>m, <2>1 DEF Reporting, NoFlush
  <2> HIDE DEF InMem, InMemNext, InReport, Source
  <2> QED
    BY <1>m, <1>n, <2>2, <2>3, <2>6, <2>7, <2>8, <2>9
<1> QED
  BY <1>1, <1>2, <1>3

-----------------------------------------------------------------------------
(* Data.                                                                    *)

\* A context that writes through keeps no write back, and a failure of the log
\* is never forgotten.
LEMMA PendingStep ==
    TypeOK /\ Shapes /\ Shapes' /\ CtxInv /\ PendingInv /\ [TNext]_tvars =>
        PendingInv' /\ (walFailed => walFailed')
<1> SUFFICES ASSUME TypeOK, Shapes, Shapes', CtxInv, PendingInv, [TNext]_tvars
             PROVE  PendingInv' /\ (walFailed => walFailed')
  OBVIOUS
<1>s. CtxShape /\ WalShape
  BY DEF Shapes
<1> DEFINE P(t) == ~walFailed /\ ctx[t].level = "RU" /\ ctx[t].pc # "aborted" =>
        \A i \in DOMAIN ctx[t].ops : i > ctx[t].written => ctx[t].ops[i].key \notin Keys
<1>0. (\A t \in Tx : P(t)) /\ ((\A t \in Tx : P(t)') => PendingInv')
  BY DEF PendingInv
<1>1. ASSUME NEW t \in Tx, NEW o \in OpRecs, Others(t),
             ctx'[t].ops = Append(ctx[t].ops, o), Append(ctx[t].ops, o) \in OpSeqs,
             \/ Persist(t, ctx'[t].ops) /\ ctx'[t].written = Len(ctx'[t].ops)
             \/ PersistFails(t, ctx'[t].ops)
      PROVE  PendingInv' /\ (walFailed => walFailed')
  <2>1. walFailed' = TRUE \/ (walFailed' = walFailed /\ walFailed = FALSE)
    BY <1>s, <1>1, PersistGrows
  <2>2. CASE PersistFails(t, ctx'[t].ops)
    <3>1. walFailed' = TRUE
      BY <2>2 DEF PersistFails
    <3> QED
      BY <3>1 DEF PendingInv
  <2>3. CASE Persist(t, ctx'[t].ops) /\ ctx'[t].written = Len(ctx'[t].ops)
    <3>1. DOMAIN ctx'[t].ops = 1..Len(ctx'[t].ops) /\ Len(ctx'[t].ops) \in Nat
      BY <1>1, OpBasics
    <3>2. \A i \in DOMAIN ctx'[t].ops : ~(i > ctx'[t].written)
      BY <2>3, <3>1
    <3>3. P(t)'
      BY <3>2
    <3>4. \A u \in Tx : u # t => P(u)'
      BY <1>0, <1>1, <2>1 DEF Others
    <3> HIDE DEF P
    <3> QED
      BY <1>0, <2>1, <3>3, <3>4
  <2> QED
    BY <1>1, <2>2, <2>3
<1>2. CASE \E t \in Tx, o \in OpRecs :
                /\ ctx[t].pc = "open" /\ Others(t) /\ UNCHANGED <<vars, cur, frozen, ssts, flush>>
                /\ ctx'[t].ops = Append(ctx[t].ops, o) /\ Append(ctx[t].ops, o) \in OpSeqs
                /\ ctx'[t].level = ctx[t].level
                /\ \/ /\ Persist(t, ctx'[t].ops) /\ ctx'[t].written = Len(ctx'[t].ops)
                      /\ \/ ctx'[t].pc = "writing" /\ ~Strict(t) /\ o.key \in Keys
                            /\ o.op # "COMMIT"
                         \/ ctx'[t].pc = "logged" /\ o = Op("COMMIT", "marker", "val")
                   \/ /\ PersistFails(t, ctx'[t].ops) /\ ctx'[t].pc = "open"
                      /\ ctx'[t].written = ctx[t].written
  <2> HIDE DEF P
  <2> QED
    BY <1>1, <1>2
<1>3. CASE UNCHANGED <<wal, walFailed>>
  <2>o. ASSUME NEW t \in Tx, Others(t), P(t)' PROVE PendingInv'
    <3>1. \A u \in Tx : u # t => P(u)'
      BY <1>0, <1>3, <2>o DEF Others
    <3> HIDE DEF P
    <3> QED
      BY <1>0, <2>o, <3>1
  <2>1. ASSUME NEW level \in Levels, Begin(level) PROVE PendingInv'
    <3>1. PICK t \in Tx : Others(t) /\ ctx'[t].ops = <<Op("CREATE", "marker", "val")>>
      BY <1>s, <2>1, BeginFields
    <3>2. \A i \in DOMAIN ctx'[t].ops : ctx'[t].ops[i].key = "marker"
      BY <3>1 DEF Op
    <3>3. P(t)'
      BY <3>2, KeysAssumption
    <3> HIDE DEF P
    <3> QED
      BY <2>o, <3>1, <3>3
  <2>2. ASSUME NEW t \in Tx, NEW k \in Keys, NEW v \in Vals, StageWrite(t, k, v)
        PROVE  PendingInv'
    <3>1. Others(t) /\ Strict(t) /\ ctx'[t].level = ctx[t].level
      BY <1>s, <2>2, StageFields
    <3>2. P(t)'
      BY <3>1 DEF Strict
    <3> HIDE DEF P
    <3> QED
      BY <2>o, <3>1, <3>2
  <2>3. ASSUME NEW t \in Tx, CommitConflict(t) \/ Abort(t) PROVE PendingInv'
    <3>1. Others(t) /\ ctx'[t].pc = "aborted"
      BY <1>s, <2>3, ConflictFields, AbortFields
    <3>2. P(t)'
      BY <3>1
    <3> HIDE DEF P
    <3> QED
      BY <2>o, <3>1, <3>2
  <2>4. ASSUME NEW t \in Tx, ApplyWrite(t) \/ CommitApply(t) \/ ReadReturn(t) PROVE PendingInv'
    <3>1. /\ Others(t) /\ ctx'[t].level = ctx[t].level /\ ctx'[t].ops = ctx[t].ops
          /\ ctx'[t].written = ctx[t].written
          /\ (ctx[t].pc = "aborted" => ctx'[t].pc = "aborted")
      BY <1>s, <2>4, ApplyFields, ReturnFields
    <3>2. P(t)'
      BY <1>0, <1>3, <3>1
    <3> HIDE DEF P
    <3> QED
      BY <2>o, <3>1, <3>2
  <2>5. CASE ctx' = ctx
    BY <1>3, <2>5 DEF PendingInv
  <2>6. ASSUME NEW t \in Tx, (\E k \in Keys : ReadMem(t, k)) \/ ReadSsts(t) \/ ReadVersion(t)
        PROVE ctx' = ctx
    BY <2>6, ReadFrame
  <2>7. CASE FlushLock \/ FlushStep \/ UNCHANGED tvars
    BY <2>5, <2>7, FlushFrame, TvarsFrame
  <2>8. ASSUME NEW t \in Tx,
               CommitLog(t) \/ \E k \in Keys, v \in Vals : LogWrite(t, k, v)
        PROVE  PendingInv'
    <3>1. CASE CommitLog(t)
      <4> DEFINE ops == Append(ctx[t].ops, Op("COMMIT", "marker", "val"))
      <4>1. /\ Others(t) /\ ctx'[t].ops = ops
            /\ \/ Persist(t, ops) /\ ctx'[t].written = Len(ops)
               \/ PersistFails(t, ops)
        BY <1>s, <3>1, CommitLogFields
      <4>2. Op("COMMIT", "marker", "val") \in OpRecs /\ ctx[t].ops \in OpSeqs
        BY <1>s, OpFacts DEF CtxShape, Contexts
      <4>3. ops \in OpSeqs
        BY <4>2, AppendOp
      <4> HIDE DEF P
      <4> QED
        BY <1>1, <4>1, <4>2, <4>3
    <3>2. ASSUME NEW k \in Keys, NEW v \in Vals, LogWrite(t, k, v) PROVE PendingInv'
      <4> DEFINE ops == Append(ctx[t].ops, WriteOp(k, v))
      <4>1. /\ Others(t) /\ ctx'[t].ops = ops
            /\ \/ Persist(t, ops) /\ ctx'[t].written = Len(ops)
               \/ PersistFails(t, ops)
        BY <1>s, <3>2, LogWriteFields
      <4>2. WriteOp(k, v) \in OpRecs /\ ctx[t].ops \in OpSeqs
        BY <1>s, OpFacts DEF CtxShape, Contexts
      <4>3. ops \in OpSeqs
        BY <4>2, AppendOp
      <4> HIDE DEF P
      <4> QED
        BY <1>1, <4>1, <4>2, <4>3
    <3> QED
      BY <2>8, <3>1, <3>2
  <2>9. walFailed => walFailed'
    BY <1>3
  <2> HIDE DEF P
  <2> QED
    BY <2>1, <2>2, <2>3, <2>4, <2>5, <2>6, <2>7, <2>8, <2>9 DEF TNext
<1> HIDE DEF P
<1> QED
  BY <1>2, <1>3, WalCases

\* A table that keeps the versions of k by u keeps what the tables show of them.
LEMMA PlacedKept ==
    ASSUME TableShapes, FlushShape, TableShapes', FlushShape', NEW T, NEW d \in {0, 1},
           TableMove(T, d), NEW k, NEW u, NEW v, Placed(k, u, v),
           \A r : r.key = k /\ r.ver = u => (r \in T <=> r \in cur)
    PROVE  Placed(k, u, v)'
<1>1. PICK i \in DOMAIN AllTables :
        /\ Rec(k, u, v) \in AllTables[i]
        /\ \A j \in 1..(i - 1) : \A r \in AllTables[j] : ~(r.key = k /\ r.ver = u)
  BY DEF Placed
<1>2. /\ 1 + d \in DOMAIN AllTables' /\ AllTables'[1 + d] = T
      /\ 1 \in DOMAIN AllTables /\ AllTables[1] = cur
      /\ \A x \in DOMAIN AllTables : /\ x \in Nat /\ x + d \in DOMAIN AllTables'
                                     /\ x # 1 => AllTables'[x + d] = AllTables[x]
  BY MoveOn
<1>3. DOMAIN AllTables = 1..Len(AllTables) /\ Len(AllTables) \in Nat
  BY AllTablesAt DEF Layout
<1>e. DOMAIN AllTables' = 1..Len(AllTables') /\ Len(AllTables') \in Nat
  <2>1. Layout'
    BY AllTablesAt, PTL
  <2> QED
    BY <2>1 DEF Layout
<1>4. Rec(k, u, v).key = k /\ Rec(k, u, v).ver = u
  BY DEF Rec
<1>5. Rec(k, u, v) \in AllTables'[i + d] /\ i + d \in DOMAIN AllTables'
  BY <1>1, <1>2, <1>4
<1>6. ASSUME NEW j \in 1..((i + d) - 1), NEW r \in AllTables'[j] PROVE ~(r.key = k /\ r.ver = u)
  <2>1. j \in DOMAIN AllTables'
    BY <1>2, <1>5, <1>e
  <2>2. \/ AllTables'[j] = {}
        \/ j = 1 + d /\ AllTables'[j] = T
        \/ /\ j - d \in 2..Len(AllTables) /\ AllTables'[j] = AllTables[j - d]
    BY <2>1, MoveBack
  <2>3. CASE j = 1 + d /\ AllTables'[j] = T
    <3>1. i # 1
      BY <2>3
    <3>2. 1 \in 1..(i - 1)
      BY <1>2, <1>3, <3>1
    <3> QED
      BY <1>1, <1>2, <2>3, <3>2
  <2>4. CASE j - d \in 2..Len(AllTables) /\ AllTables'[j] = AllTables[j - d]
    <3>1. j - d \in 1..(i - 1)
      BY <1>3, <2>4
    <3> QED
      BY <1>1, <2>4, <3>1
  <2> QED
    BY <2>2, <2>3, <2>4
<1> QED
  BY <1>5, <1>6 DEF Placed, Rec

\* What a step stores is what the tables show.
LEMMA PlacedNew ==
    ASSUME TableShapes, FlushShape, TableShapes', FlushShape', NEW T, NEW d \in {0, 1},
           TableMove(T, d), NEW k, NEW u, NEW v, Rec(k, u, v) \in T
    PROVE  Placed(k, u, v)'
<1>1. 1 + d \in DOMAIN AllTables' /\ AllTables'[1 + d] = T
  BY MoveOn
<1>2. ASSUME NEW j \in 1..((1 + d) - 1), NEW r \in AllTables'[j] PROVE FALSE
  <2>1. j = 1 /\ d = 1
    OBVIOUS
  <2> QED
    BY <2>1 DEF TableMove
<1> QED
  BY <1>1, <1>2 DEF Placed, Rec

\* What the tables show of a key stays until the writer stores another value.
LEMMA DataKept ==
    ASSUME TypeOK, Shapes, Shapes', LockInv, OpsInv, [TNext]_tvars,
           NEW u \in Tx, NEW k \in Keys, NEW v, Placed(k, u, v),
           ApplyWrite(u) => Last(ctx[u].ops).key # k, CommitApply(u) => k \notin Writes(u)
    PROVE  Placed(k, u, v)'
<1>s. TableShapes /\ FlushShape /\ TableShapes' /\ FlushShape'
  BY DEF Shapes
<1>1. PICK d \in {0, 1}, T \in SUBSET Recs :
         /\ TableMove(T, d)
         /\ \/ T = cur
            \/ \E t \in Tx : ApplyWrite(t) /\ T =
                 PutRec(cur, Rec(Last(ctx[t].ops).key, t, Last(ctx[t].ops).val))
            \/ \E t \in Tx : CommitApply(t) /\ T = Applied(t)
  BY MarkerMove
<1>2. \A r : r.key = k /\ r.ver = u => (r \in T <=> r \in cur)
  <2> SUFFICES ASSUME NEW r, r.key = k, r.ver = u PROVE r \in T <=> r \in cur
    OBVIOUS
  <2>1. ASSUME NEW t \in Tx, ApplyWrite(t),
               T = PutRec(cur, Rec(Last(ctx[t].ops).key, t, Last(ctx[t].ops).val))
        PROVE  r \in T <=> r \in cur
    <3>1. PICK n : n = Rec(Last(ctx[t].ops).key, t, Last(ctx[t].ops).val)
      OBVIOUS
    <3>2. n.key = Last(ctx[t].ops).key /\ n.ver = t
      BY <3>1 DEF Rec
    <3>3. r.key # n.key \/ r.ver # n.ver
      BY <2>1, <3>2
    <3> QED
      BY <2>1, <3>1, <3>3 DEF PutRec
  <2>2. ASSUME NEW t \in Tx, CommitApply(t), T = Applied(t) PROVE r \in T <=> r \in cur
    <3> DEFINE Old == {x \in cur : x.ver = t => x.key \notin Writes(t)}
               New == {Rec(x, t, ctx[t].temp[x]) : x \in Writes(t)}
               mark == Rec("marker", t, "del")
    <3>1. T = Old \cup New \cup {mark}
      BY <2>2 DEF Applied
    <3>2. u = t => k \notin Writes(t)
      BY <2>2
    <3>3. r \notin New
      BY <3>2 DEF Rec
    <3>4. r # mark
      BY KeysAssumption DEF Rec
    <3> QED
      BY <3>1, <3>2, <3>3, <3>4
  <2> QED
    BY <1>1, <2>1, <2>2
<1> QED
  BY <1>s, <1>1, <1>2, PlacedKept

\* What a step can do to a context and its log.
LEMMA ContextMoves ==
    ASSUME TypeOK, Shapes, [TNext]_tvars, NEW u \in Tx
    PROVE  \/ ApplyWrite(u) \/ CommitApply(u)
           \/ ctx'[u].pc = "aborted"
           \/ u = nextTransactionId /\ UNCHANGED <<wal, walFailed>> /\ ctx'[u].pc = "open"
           \/ \E o \in OpRecs :
                /\ ctx[u].pc = "open"
                /\ ctx'[u].ops = Append(ctx[u].ops, o) /\ Append(ctx[u].ops, o) \in OpSeqs
                /\ ctx'[u].level = ctx[u].level
                /\ \/ /\ Persist(u, ctx'[u].ops) /\ ctx'[u].written = Len(ctx'[u].ops)
                      /\ \/ ctx'[u].pc = "writing" /\ ~Strict(u)
                         \/ ctx'[u].pc = "logged" /\ o = Op("COMMIT", "marker", "val")
                   \/ PersistFails(u, ctx'[u].ops) /\ ctx'[u].pc = "open"
           \/ ctx'[u].pc = ctx[u].pc /\ ctx'[u].level = ctx[u].level /\ wal'[u] = wal[u]
<1>s. CtxShape /\ WalShape
  BY DEF Shapes
<1> DEFINE Same == ctx'[u].pc = ctx[u].pc /\ ctx'[u].level = ctx[u].level /\ wal'[u] = wal[u]
<1>1. ASSUME NEW t \in Tx, NEW o \in OpRecs,
                ctx[t].pc = "open", Others(t),
                ctx'[t].ops = Append(ctx[t].ops, o), Append(ctx[t].ops, o) \in OpSeqs,
                ctx'[t].level = ctx[t].level,
                \/ /\ Persist(t, ctx'[t].ops) /\ ctx'[t].written = Len(ctx'[t].ops)
                   /\ \/ ctx'[t].pc = "writing" /\ ~Strict(t)
                      \/ ctx'[t].pc = "logged" /\ o = Op("COMMIT", "marker", "val")
                \/ PersistFails(t, ctx'[t].ops) /\ ctx'[t].pc = "open"
      PROVE  \/ Same
             \/ \E q \in OpRecs :
                /\ ctx[u].pc = "open"
                /\ ctx'[u].ops = Append(ctx[u].ops, q) /\ Append(ctx[u].ops, q) \in OpSeqs
                /\ ctx'[u].level = ctx[u].level
                /\ \/ /\ Persist(u, ctx'[u].ops) /\ ctx'[u].written = Len(ctx'[u].ops)
                      /\ \/ ctx'[u].pc = "writing" /\ ~Strict(u)
                         \/ ctx'[u].pc = "logged" /\ q = Op("COMMIT", "marker", "val")
                   \/ PersistFails(u, ctx'[u].ops) /\ ctx'[u].pc = "open"
  <2>1. CASE u = t
    BY <1>1, <2>1
  <2>2. CASE u # t
    <3>1. wal'[u] = wal[u]
      BY <1>s, <1>1, <2>2, PersistGrows
    <3> QED
      BY <1>1, <2>2, <3>1 DEF Others
  <2> QED
    BY <2>1, <2>2
<1>2. CASE UNCHANGED <<wal, walFailed>>
  <2>o. ASSUME NEW t \in Tx, Others(t), u # t PROVE Same
    BY <1>2, <2>o DEF Others
  <2>1. ASSUME NEW level \in Levels, Begin(level)
        PROVE  Same \/ (u = nextTransactionId /\ ctx'[u].pc = "open")
    <3>1. PICK t \in Tx : t = nextTransactionId /\ Others(t) /\ ctx'[t].pc = "open"
      BY <1>s, <2>1, BeginFields
    <3> QED
      BY <2>o, <3>1
  <2>2. ASSUME NEW t \in Tx, NEW k \in Keys, NEW v \in Vals, StageWrite(t, k, v) PROVE Same
    <3>1. Others(t) /\ ctx'[t].level = ctx[t].level /\ ctx'[t].pc = ctx[t].pc
      BY <1>s, <2>2, StageFields
    <3> QED
      BY <1>2, <2>o, <3>1
  <2>3. ASSUME NEW t \in Tx, CommitConflict(t) \/ Abort(t) PROVE Same \/ ctx'[u].pc = "aborted"
    <3>1. Others(t) /\ ctx'[t].pc = "aborted"
      BY <1>s, <2>3, ConflictFields, AbortFields
    <3> QED
      BY <2>o, <3>1
  <2>4. ASSUME NEW t \in Tx, ApplyWrite(t) \/ CommitApply(t)
        PROVE  Same \/ ApplyWrite(u) \/ CommitApply(u)
    <3>1. Others(t)
      BY <1>s, <2>4, ApplyFields
    <3> QED
      BY <2>o, <2>4, <3>1
  <2>5. ASSUME NEW t \in Tx, ReadReturn(t) PROVE Same
    <3>1. Others(t) /\ ctx'[t].level = ctx[t].level /\ ctx'[t].pc = ctx[t].pc
      BY <1>s, <2>5, ReturnFields
    <3> QED
      BY <1>2, <2>o, <3>1
  <2>6. ASSUME NEW t \in Tx, (\E k \in Keys : ReadMem(t, k)) \/ ReadSsts(t) \/ ReadVersion(t)
        PROVE Same
    BY <1>2, <2>6, ReadFrame
  <2>7. ASSUME FlushLock \/ FlushStep \/ UNCHANGED tvars PROVE Same
    BY <1>2, <2>7, FlushFrame, TvarsFrame
  <2>8. ASSUME NEW t \in Tx, CommitLog(t)
        PROVE  \E o \in OpRecs :
                /\ ctx[t].pc = "open" /\ Others(t)
                /\ ctx'[t].ops = Append(ctx[t].ops, o) /\ Append(ctx[t].ops, o) \in OpSeqs
                /\ ctx'[t].level = ctx[t].level
                /\ \/ /\ Persist(t, ctx'[t].ops) /\ ctx'[t].written = Len(ctx'[t].ops)
                      /\ \/ ctx'[t].pc = "writing" /\ ~Strict(t)
                         \/ ctx'[t].pc = "logged" /\ o = Op("COMMIT", "marker", "val")
                   \/ PersistFails(t, ctx'[t].ops) /\ ctx'[t].pc = "open"
    <3> DEFINE o == Op("COMMIT", "marker", "val")
    <3>1. o \in OpRecs /\ ctx[t].ops \in OpSeqs
      BY <1>s, OpFacts DEF CtxShape, Contexts
    <3>2. Append(ctx[t].ops, o) \in OpSeqs
      BY <3>1, AppendOp
    <3>3. ctx[t].pc = "open"
      BY <2>8 DEF CommitLog, CommitReady, Endable, Usable
    <3> QED
      BY <1>s, <2>8, <3>1, <3>2, <3>3, CommitLogFields
  <2>9. ASSUME NEW t \in Tx, NEW k \in Keys, NEW v \in Vals, LogWrite(t, k, v)
        PROVE  \E o \in OpRecs :
                /\ ctx[t].pc = "open" /\ Others(t)
                /\ ctx'[t].ops = Append(ctx[t].ops, o) /\ Append(ctx[t].ops, o) \in OpSeqs
                /\ ctx'[t].level = ctx[t].level
                /\ \/ /\ Persist(t, ctx'[t].ops) /\ ctx'[t].written = Len(ctx'[t].ops)
                      /\ \/ ctx'[t].pc = "writing" /\ ~Strict(t)
                         \/ ctx'[t].pc = "logged" /\ o = Op("COMMIT", "marker", "val")
                   \/ PersistFails(t, ctx'[t].ops) /\ ctx'[t].pc = "open"
    <3> DEFINE o == WriteOp(k, v)
    <3>1. o \in OpRecs /\ ctx[t].ops \in OpSeqs
      BY <1>s, OpFacts DEF CtxShape, Contexts
    <3>2. Append(ctx[t].ops, o) \in OpSeqs
      BY <3>1, AppendOp
    <3> HIDE DEF Same
    <3> QED
      BY <1>s, <2>9, <3>1, <3>2, LogWriteFields
  <2> HIDE DEF Same
  <2> QED
    <3>1. CASE \E t \in Tx : CommitLog(t) \/ \E k \in Keys, v \in Vals : LogWrite(t, k, v)
      <4>1. PICK t \in Tx, o \in OpRecs :
                /\ ctx[t].pc = "open" /\ Others(t)
                /\ ctx'[t].ops = Append(ctx[t].ops, o) /\ Append(ctx[t].ops, o) \in OpSeqs
                /\ ctx'[t].level = ctx[t].level
                /\ \/ /\ Persist(t, ctx'[t].ops) /\ ctx'[t].written = Len(ctx'[t].ops)
                      /\ \/ ctx'[t].pc = "writing" /\ ~Strict(t)
                         \/ ctx'[t].pc = "logged" /\ o = Op("COMMIT", "marker", "val")
                   \/ PersistFails(t, ctx'[t].ops) /\ ctx'[t].pc = "open"
        BY <2>8, <2>9, <3>1
      <4> QED
        BY <1>1, <4>1 DEF Same
    <3>2. CASE ~\E t \in Tx : CommitLog(t) \/ \E k \in Keys, v \in Vals : LogWrite(t, k, v)
      <4>1. \/ Same \/ ApplyWrite(u) \/ CommitApply(u) \/ ctx'[u].pc = "aborted"
            \/ (u = nextTransactionId /\ ctx'[u].pc = "open")
        BY <2>1, <2>2, <2>3, <2>4, <2>5, <2>6, <2>7, <3>2 DEF TNext
      <4> QED
        BY <1>2, <4>1 DEF Same
    <3> QED
      BY <3>1, <3>2
<1>3. CASE \E t \in Tx, o \in OpRecs :
                /\ ctx[t].pc = "open" /\ Others(t) /\ UNCHANGED <<vars, cur, frozen, ssts, flush>>
                /\ ctx'[t].ops = Append(ctx[t].ops, o) /\ Append(ctx[t].ops, o) \in OpSeqs
                /\ ctx'[t].level = ctx[t].level
                /\ \/ /\ Persist(t, ctx'[t].ops) /\ ctx'[t].written = Len(ctx'[t].ops)
                      /\ \/ ctx'[t].pc = "writing" /\ ~Strict(t) /\ o.key \in Keys
                            /\ o.op # "COMMIT"
                         \/ ctx'[t].pc = "logged" /\ o = Op("COMMIT", "marker", "val")
                   \/ /\ PersistFails(t, ctx'[t].ops) /\ ctx'[t].pc = "open"
                      /\ ctx'[t].written = ctx[t].written
  <2>1. PICK t \in Tx, o \in OpRecs :
                /\ ctx[t].pc = "open" /\ Others(t)
                /\ ctx'[t].ops = Append(ctx[t].ops, o) /\ Append(ctx[t].ops, o) \in OpSeqs
                /\ ctx'[t].level = ctx[t].level
                /\ \/ /\ Persist(t, ctx'[t].ops) /\ ctx'[t].written = Len(ctx'[t].ops)
                      /\ \/ ctx'[t].pc = "writing" /\ ~Strict(t)
                         \/ ctx'[t].pc = "logged" /\ o = Op("COMMIT", "marker", "val")
                   \/ PersistFails(t, ctx'[t].ops) /\ ctx'[t].pc = "open"
    BY <1>3
  <2> HIDE DEF Same
  <2> QED
    BY <1>1, <2>1 DEF Same
<1> HIDE DEF Same
<1> QED
  BY <1>2, <1>3, WalCases

\* The log of a transaction that is still complete, as a sequence of numbers
\* and records.
LEMMA LogFacts ==
    ASSUME Shapes, NEW u \in Tx
    PROVE  /\ Len(wal[u]) \in Nat /\ DOMAIN wal[u] = 1..Len(wal[u])
           /\ Len(ctx[u].ops) \in Nat /\ DOMAIN ctx[u].ops = 1..Len(ctx[u].ops)
           /\ ctx[u].written \in Nat /\ ctx[u].ops \in OpSeqs /\ wal[u] \in OpSeqs
<1>1. ctx[u] \in Contexts /\ wal[u] \in OpSeqs
  BY DEF Shapes, CtxShape, WalShape
<1>2. ctx[u].ops \in OpSeqs /\ ctx[u].written \in Nat
  BY <1>1 DEF Contexts
<1> QED
  BY <1>1, <1>2, OpBasics

\* After a batch has reached the log, what was applied before is what is there.
LEMMA DataPersist ==
    ASSUME TypeOK, Shapes, Shapes', CtxInv, LockInv, OpsInv, LogInv, PendingInv, DataInv,
           [TNext]_tvars,
           NEW u \in Tx, NEW o \in OpRecs, ctx[u].pc = "open",
           ctx'[u].ops = Append(ctx[u].ops, o), Append(ctx[u].ops, o) \in OpSeqs,
           Persist(u, ctx'[u].ops),
           NEW N \in {Len(ctx[u].ops), Len(ctx[u].ops) + 1},
           N = Len(ctx[u].ops) + 1 => o.key \notin Keys,
           ~Strict(u), NEW i \in 1..N, wal'[u][i].key \in Keys, LastOn(wal'[u], i, N)
    PROVE  \E k \in Keys : \E v : /\ k = wal'[u][i].key /\ v = wal'[u][i].val
                                  /\ Placed(k, u, v)'
<1>s. CtxShape /\ WalShape
  BY DEF Shapes
<1> DEFINE n == Len(wal[u])
           m == Len(ctx[u].ops)
<1>1. n \in Nat /\ m \in Nat /\ DOMAIN wal[u] = 1..n /\ DOMAIN ctx[u].ops = 1..m
      /\ ctx[u].written \in Nat /\ ctx[u].ops \in OpSeqs
  BY LogFacts
<1>2. ~walFailed /\ Good(u)
  BY DEF Persist, Good
<1>3. n = ctx[u].written /\ ctx[u].written <= m
  BY <1>2 DEF LogInv, OpsInv, OpsOk
<1>4. /\ Len(Append(ctx[u].ops, o)) = m + 1 /\ Append(ctx[u].ops, o)[m + 1] = o
      /\ \A j \in 1..m : Append(ctx[u].ops, o)[j] = ctx[u].ops[j]
  BY SMTT(20), <1>1, AppendOp
<1>5. \A j \in 1..((m + 1) - ctx[u].written) :
        wal'[u][n + j] = Append(ctx[u].ops, o)[ctx[u].written + j]
  <2>1. ctx[u].written <= Len(Append(ctx[u].ops, o))
    BY <1>1, <1>3, <1>4
  <2>2. Persist(u, Append(ctx[u].ops, o))
    OBVIOUS
  <2> QED
    BY <1>s, <1>4, <2>1, <2>2, PersistAll
<1>6. \A j \in DOMAIN wal[u] : wal'[u][j] = wal[u][j]
  BY WalGrows
<1> HIDE DEF n, m
<1>7. i \in Nat /\ i >= 1 /\ i <= N /\ (N = m \/ N = m + 1) /\ N \in Nat
  BY <1>1 DEF m
<1>8. CASE i > n
  <2> DEFINE j == i - n
  <2>1. j \in 1..((m + 1) - ctx[u].written) /\ n + j = i /\ ctx[u].written + j = i
    <3>1. i \in Nat /\ n \in Nat /\ m \in Nat /\ n = ctx[u].written /\ i > n /\ i <= m + 1
      BY <1>1, <1>3, <1>7, <1>8
    <3> QED
      BY <3>1
  <2> HIDE DEF j
  <2>2. wal'[u][i] = Append(ctx[u].ops, o)[i]
    BY <1>5, <2>1
  <2>3. CASE i = m + 1
    <3>1. N = m + 1
      BY <1>1, <1>7, <2>3
    <3> QED
      BY <1>4, <2>2, <2>3, <3>1 DEF m
  <2>4. CASE i # m + 1
    <3>1. i \in 1..m
      BY <1>1, <1>7, <2>4
    <3>2. wal'[u][i] = ctx[u].ops[i]
      BY <1>4, <2>2, <3>1
    <3>3. ctx[u].ops[i].key \notin Keys
      BY <1>1, <1>2, <1>3, <1>8, <3>1 DEF PendingInv, Strict
    <3> QED
      BY <3>2, <3>3
  <2> QED
    BY <2>3, <2>4
<1>9. CASE i <= n
  <2>1. i \in 1..n
    BY <1>1, <1>7, <1>9
  <2>2. Done(u) = n
    BY DEF Done, n
  <2>3. PICK k \in Keys : k = wal'[u][i].key
    OBVIOUS
  <2>4. PICK v : v = wal'[u][i].val
    OBVIOUS
  <2>5. wal[u][i].key = k /\ wal[u][i].val = v
    BY <1>1, <1>6, <2>1, <2>3, <2>4
  <2>6. LastOn(wal[u], i, n)
    <3> SUFFICES ASSUME NEW j \in (i + 1)..n PROVE wal[u][j].key # wal[u][i].key
      BY DEF LastOn
    <3>1. j \in (i + 1)..N /\ j \in 1..n
      BY <1>1, <1>3, <1>7
    <3>2. wal'[u][j].key # wal'[u][i].key
      BY <3>1 DEF LastOn
    <3> QED
      BY <1>1, <1>6, <2>1, <3>1, <3>2
  <2>7. Placed(k, u, v)
    BY <1>2, <2>1, <2>2, <2>5, <2>6 DEF DataInv
  <2>8. ~ApplyWrite(u) /\ ~CommitApply(u)
    BY <1>s, ApplyFields
  <2>9. Placed(k, u, v)'
    BY <2>7, <2>8, DataKept
  <2> QED
    BY <2>3, <2>4, <2>9
<1> QED
  BY <1>1, <1>7, <1>8, <1>9

\* The value a write stores is the last one on its key, and the others stay.
LEMMA DataApply ==
    ASSUME TypeOK, Shapes, Shapes', CtxInv, LockInv, OpsInv, LogInv, DataInv, [TNext]_tvars,
           NEW u \in Tx, ApplyWrite(u),
           NEW i \in 1..Len(wal[u]), wal[u][i].key \in Keys, LastOn(wal[u], i, Len(wal[u]))
    PROVE  \E k \in Keys : \E v : /\ k = wal[u][i].key /\ v = wal[u][i].val
                                  /\ Placed(k, u, v)'
<1>s. CtxShape /\ TableShapes /\ FlushShape /\ TableShapes' /\ FlushShape'
  BY DEF Shapes
<1>0. PICK k \in Keys, v \in {wal[u][i].val} : k = wal[u][i].key /\ v = wal[u][i].val
  OBVIOUS
<1> DEFINE n == Len(wal[u])
<1>1. n \in Nat /\ Len(ctx[u].ops) \in Nat /\ ctx[u].ops \in OpSeqs
  BY LogFacts
<1>2. ctx[u].pc = "writing"
  BY <1>s, ApplyFields
<1>3. /\ ctx[u].written = Len(ctx[u].ops) /\ ctx[u].ops # <<>> /\ ctx[u].level = "RU"
      /\ n = ctx[u].written /\ \A j \in 1..ctx[u].written : wal[u][j] = ctx[u].ops[j]
  BY <1>2 DEF OpsInv, OpsOk, LogInv, Good
<1>4. n > 0 /\ Last(ctx[u].ops) = ctx[u].ops[n]
  <2>1. ctx[u].ops \in Seq(OpRecs) /\ ctx[u].ops # <<>> /\ n = Len(ctx[u].ops)
    BY <1>1, <1>3 DEF OpSeqs
  <2> HIDE DEF n
  <2> QED
    BY <2>1, EndFacts
<1>5. Last(ctx[u].ops) = wal[u][n]
  BY <1>1, <1>3, <1>4
<1> HIDE DEF n
<1>6. CASE i = n
  <2>1. PICK T : T = PutRec(cur, Rec(k, u, v))
    OBVIOUS
  <2>2. \E d \in {0, 1} : TableMove(T, d)
    BY <1>0, <1>5, <1>6, <2>1, WriteMove
  <2>3. Rec(k, u, v) \in T
    BY <2>1 DEF PutRec
  <2>4. Placed(k, u, v)'
    BY <1>s, <2>2, <2>3, PlacedNew
  <2> QED
    BY <1>0, <2>4
<1>7. CASE i # n
  <2>1. i \in 1..(n - 1) /\ n \in (i + 1)..n
    BY <1>1, <1>7 DEF n
  <2>2. wal[u][n].key # k
    BY <1>0, <2>1 DEF LastOn, n
  <2>3. Done(u) = n - 1
    BY <1>2, <1>3 DEF Done, n, Strict
  <2>4. LastOn(wal[u], i, n - 1)
    <3>1. \A j \in (i + 1)..(n - 1) : j \in (i + 1)..n
      BY <1>1
    <3> QED
      BY <3>1 DEF LastOn, n
  <2>5. Placed(k, u, v)
    BY <1>0, <1>2, <2>1, <2>3, <2>4 DEF DataInv, Good
  <2>6. ~CommitApply(u)
    BY <1>s, <1>2, ApplyFields
  <2>7. Placed(k, u, v)'
    BY <1>5, <2>2, <2>5, <2>6, DataKept
  <2> QED
    BY <1>0, <2>7
<1> QED
  BY <1>6, <1>7

\* A commit stores the last staged value of every key.
LEMMA DataCommit ==
    ASSUME TypeOK, Shapes, Shapes', CtxInv, LockInv, OpsInv, LogInv, DataInv, [TNext]_tvars,
           NEW u \in Tx, CommitApply(u),
           NEW i \in 1..Len(wal[u]), wal[u][i].key \in Keys, LastOn(wal[u], i, Len(wal[u]))
    PROVE  \E k \in Keys : \E v : /\ k = wal[u][i].key /\ v = wal[u][i].val
                                  /\ Placed(k, u, v)'
<1>s. CtxShape /\ TableShapes /\ FlushShape /\ TableShapes' /\ FlushShape'
  BY DEF Shapes
<1>0. PICK k \in Keys, v \in {wal[u][i].val} : k = wal[u][i].key /\ v = wal[u][i].val
  OBVIOUS
<1> DEFINE n == Len(wal[u])
<1>1. n \in Nat /\ Len(ctx[u].ops) \in Nat /\ DOMAIN ctx[u].ops = 1..Len(ctx[u].ops)
  BY LogFacts
<1>2. ctx[u].pc = "logged"
  BY <1>s, ApplyFields
<1>3. /\ ctx[u].written = Len(ctx[u].ops)
      /\ n = ctx[u].written /\ \A j \in 1..ctx[u].written : wal[u][j] = ctx[u].ops[j]
  BY <1>2 DEF OpsInv, OpsOk, LogInv, Good
<1>4. CASE ctx[u].level = "RU"
  <2>1. k \notin Writes(u)
    BY <1>4 DEF OpsInv, OpsOk, Staging, Writes
  <2>2. Done(u) = n
    BY <1>2, <1>4 DEF Done, Strict
  <2>3. Placed(k, u, v)
    BY <1>0, <1>2, <2>2 DEF DataInv, Good
  <2>4. ~ApplyWrite(u)
    BY <1>s, <1>2, ApplyFields
  <2>5. Placed(k, u, v)'
    BY <2>1, <2>3, <2>4, DataKept
  <2> QED
    BY <1>0, <2>5
<1>5. CASE ctx[u].level # "RU"
  <2>1. i \in DOMAIN ctx[u].ops /\ \A j \in 1..n : wal[u][j] = ctx[u].ops[j]
    BY <1>1, <1>3
  <2>2. LastOn(ctx[u].ops, i, Len(ctx[u].ops))
    <3> SUFFICES ASSUME NEW j \in (i + 1)..Len(ctx[u].ops)
                 PROVE  ctx[u].ops[j].key # ctx[u].ops[i].key
      BY DEF LastOn
    <3>1. j \in (i + 1)..n /\ j \in 1..n
      BY <1>1, <1>3
    <3>2. wal[u][j].key # wal[u][i].key
      BY <3>1 DEF LastOn
    <3> QED
      BY <2>1, <3>1, <3>2
  <2>3. ctx[u].ops[i].key = k /\ ctx[u].ops[i].val = v
    BY <1>0, <2>1
  <2>4. k \in Staging(ctx[u]) /\ v = ctx[u].temp[k]
    BY <1>2, <1>5, <2>1, <2>2, <2>3 DEF OpsInv, OpsOk
  <2>5. k \in Writes(u) /\ Rec(k, u, v) = Rec(k, u, ctx[u].temp[k])
    BY <2>4 DEF Staging, Writes
  <2>6. Rec(k, u, v) \in Applied(u)
    BY <2>5 DEF Applied
  <2>7. PICK T : T = Applied(u)
    OBVIOUS
  <2>8. \E d \in {0, 1} : TableMove(T, d)
    BY <2>7, CommitMove
  <2>9. Placed(k, u, v)'
    BY <1>s, <2>6, <2>7, <2>8, PlacedNew
  <2> QED
    BY <1>0, <2>9
<1> QED
  BY <1>4, <1>5

\* The tables show the last logged value of every key that has been applied.
LEMMA DataInvStep ==
    TypeOK /\ Shapes /\ Shapes' /\ CtxInv /\ CtxInv' /\ LockInv /\ OpsInv /\ OpsInv' /\ LogInv
      /\ LogInv' /\ PendingInv /\ DataInv /\ [TNext]_tvars => DataInv'
<1> SUFFICES ASSUME TypeOK, Shapes, Shapes', CtxInv, CtxInv', LockInv, OpsInv, OpsInv', LogInv,
                    LogInv', PendingInv, DataInv, [TNext]_tvars,
                    NEW u \in Tx, Good(u)', ctx'[u].pc # "aborted", NEW i \in 1..Done(u)',
                    wal'[u][i].key \in Keys, LastOn(wal'[u], i, Done(u)')
             PROVE  Placed(wal[u][i].key, u, wal[u][i].val)'
  BY DEF DataInv
<1>s. CtxShape /\ WalShape
  BY DEF Shapes
<1> SUFFICES \E k \in Keys : \E v : /\ k = wal'[u][i].key /\ v = wal'[u][i].val
                                    /\ Placed(k, u, v)'
  BY DEF Placed
<1>f. walFailed => walFailed'
  BY PendingStep
<1>w. Len(wal'[u]) \in Nat /\ Len(wal[u]) \in Nat
  <2>1. Shapes => Len(wal[u]) \in Nat
    BY LogFacts
  <2>2. Shapes' => Len(wal'[u]) \in Nat
    <3>1. Shapes' => wal'[u] \in OpSeqs
      BY DEF Shapes, WalShape
    <3> QED
      BY <3>1, OpBasics
  <2> QED
    BY <2>1, <2>2
<1>1. CASE ApplyWrite(u)
  <2>1. ctx'[u].pc = "open" /\ ctx'[u].level = ctx[u].level /\ ctx[u].pc = "writing"
    BY <1>s, <1>1, ApplyFields
  <2>2. wal' = wal
    BY <1>1, WriteFrame
  <2>3. ctx[u].level = "RU"
    BY <2>1 DEF OpsInv, OpsOk
  <2>4. Done(u)' = Len(wal[u])
    BY <2>1, <2>2, <2>3 DEF Done, Strict
  <2> QED
    BY <1>1, <2>2, <2>4, DataApply
<1>2. CASE CommitApply(u)
  <2>1. ctx'[u].pc = "committed"
    BY <1>s, <1>2, ApplyFields
  <2>2. wal' = wal
    BY <1>2, EndFrame
  <2>3. Done(u)' = Len(wal[u])
    BY <2>1, <2>2 DEF Done
  <2> QED
    BY <1>2, <2>2, <2>3, DataCommit
<1>3. CASE u = nextTransactionId /\ UNCHANGED <<wal, walFailed>> /\ ctx'[u].pc = "open"
  <2>1. ~walFailed
    BY <1>3 DEF Good
  <2>2. ctx[u].pc = "none"
    <3>1. u >= nextTransactionId
      BY <1>3 DEF Tx
    <3> QED
      BY <3>1 DEF CtxInv
  <2>3. Len(wal[u]) = 0
    BY <2>1, <2>2 DEF LogInv, Good, OpsInv, OpsOk
  <2>4. Done(u)' = 0
    BY <1>3, <2>3 DEF Done
  <2> QED
    BY <2>4
<1>4. ASSUME NEW o \in OpRecs, ctx[u].pc = "open",
                ctx'[u].ops = Append(ctx[u].ops, o), Append(ctx[u].ops, o) \in OpSeqs,
                ctx'[u].level = ctx[u].level,
                \/ /\ Persist(u, ctx'[u].ops) /\ ctx'[u].written = Len(ctx'[u].ops)
                   /\ \/ ctx'[u].pc = "writing" /\ ~Strict(u)
                      \/ ctx'[u].pc = "logged" /\ o = Op("COMMIT", "marker", "val")
                \/ PersistFails(u, ctx'[u].ops) /\ ctx'[u].pc = "open"
      PROVE  \E k \in Keys : \E v : /\ k = wal'[u][i].key /\ v = wal'[u][i].val
                                    /\ Placed(k, u, v)'
  <2>1. CASE PersistFails(u, ctx'[u].ops) /\ ctx'[u].pc = "open"
    <3>1. walFailed'
      BY <2>1 DEF PersistFails
    <3> QED
      BY <2>1, <3>1 DEF Good
  <2>2. CASE Persist(u, ctx'[u].ops) /\ ctx'[u].written = Len(ctx'[u].ops)
    <3>1. Len(ctx[u].ops) \in Nat /\ Len(ctx'[u].ops) = Len(ctx[u].ops) + 1
      <4>1. ctx[u].ops \in OpSeqs
        BY LogFacts
      <4> QED
        BY <1>4, <4>1, AppendOp
    <3>2. Len(wal'[u]) = Len(ctx[u].ops) + 1
      <4>1. ctx'[u].pc \in {"writing", "logged"}
        BY <1>4, <2>2 DEF Persist, PersistFails
      <4>2. Len(wal'[u]) = ctx'[u].written
        BY <4>1 DEF LogInv, Good
      <4> QED
        BY <2>2, <3>1, <4>2
    <3>3. CASE ctx'[u].pc = "writing" /\ ~Strict(u)
      <4>1. Done(u)' = Len(ctx[u].ops)
        BY <1>4, <3>1, <3>2, <3>3 DEF Done, Strict
      <4> QED
        <5>1. PICK N : N = Done(u)'
          OBVIOUS
        <5>2. N \in {Len(ctx[u].ops), Len(ctx[u].ops) + 1} /\ N # Len(ctx[u].ops) + 1
          BY <3>1, <4>1, <5>1
        <5> QED
          BY <1>4, <2>2, <3>3, <5>1, <5>2, DataPersist
    <3>4. CASE ctx'[u].pc = "logged" /\ o = Op("COMMIT", "marker", "val") /\ ~Strict(u)
      <4>1. Done(u)' = Len(ctx[u].ops) + 1
        BY <1>4, <3>1, <3>2, <3>4 DEF Done, Strict
      <4>2. o.key \notin Keys
        BY <3>4, KeysAssumption DEF Op
      <4> QED
        <5>1. PICK N : N = Done(u)'
          OBVIOUS
        <5>2. N \in {Len(ctx[u].ops), Len(ctx[u].ops) + 1}
          BY <3>1, <4>1, <5>1
        <5> QED
          BY <1>4, <2>2, <3>4, <4>2, <5>1, <5>2, DataPersist
    <3>5. CASE ctx'[u].pc = "logged" /\ Strict(u)
      <4>1. Done(u)' = 0
        BY <1>4, <3>5 DEF Done, Strict
      <4> QED
        BY <4>1
    <3>6. ~(ctx'[u].pc = "open")
      BY <1>4, <2>2 DEF Persist, PersistFails
    <3> QED
      BY <1>4, <3>3, <3>4, <3>5, <3>6
  <2> QED
    BY <1>4, <2>1, <2>2
<1>5. CASE ctx'[u].pc = ctx[u].pc /\ ctx'[u].level = ctx[u].level /\ wal'[u] = wal[u]
  <2>1. Done(u)' = Done(u)
    BY <1>5 DEF Done, Strict
  <2>2. Good(u)
    BY <1>5, <1>f DEF Good
  <2>3. PICK k \in Keys, v \in {wal[u][i].val} : k = wal[u][i].key /\ v = wal[u][i].val
    BY <1>5
  <2>4. Placed(k, u, v)
    BY <1>5, <2>1, <2>2, <2>3 DEF DataInv
  <2>5. ~ApplyWrite(u) /\ ~CommitApply(u)
    BY <1>s, <1>5, ApplyFields
  <2>6. Placed(k, u, v)'
    BY <2>4, <2>5, DataKept
  <2> QED
    BY <1>5, <2>3, <2>6
<1>6. CASE ctx'[u].pc = "aborted"
  BY <1>6
<1> QED
  BY <1>1, <1>2, <1>3, <1>4, <1>5, <1>6, ContextMoves


-----------------------------------------------------------------------------
(* The invariant holds.                                                     *)

\* A new engine has one empty table.
LEMMA InitTables == TInit => AllTables = <<{}>>
<1> SUFFICES ASSUME TInit PROVE AllTables = <<{}>>
  OBVIOUS
<1>1. cur = {} /\ frozen = <<>> /\ ssts = <<>> /\ flush.ph # "built"
  BY DEF TInit, NoFlush
<1> QED
  BY <1>1 DEF AllTables, MemTables

\* The invariant holds when an engine and a manager have just started.
LEMMA TInitInv == TInit => TInv
<1> SUFFICES ASSUME TInit PROVE TInv
  OBVIOUS
<1>1. IInv /\ Shapes
  BY TInitIInv, InitShapes
<1>2. \A t \in Tx : ctx[t] = NoContext /\ rd[t] = NoRead /\ wal[t] = <<>>
  BY DEF TInit
<1>3. /\ NoContext.pc = "none" /\ NoContext.level = "none" /\ NoContext.ops = <<>>
      /\ NoContext.written = 0 /\ \A k \in Keys : NoContext.temp[k] = "unset"
  BY DEF NoContext
<1> HIDE DEF NoContext
<1>4. CtxInv
  BY <1>2, <1>3, MaxIdAssumption DEF TInit, CtxInv, Tx
<1>5. LockInv
  BY <1>2, <1>3 DEF TInit, LockInv, NoRead, NoFlush
<1>6. OpsInv
  BY <1>2, <1>3 DEF OpsInv, OpsOk, Staging
<1>7. LogInv /\ EndInv /\ PendingInv
  BY <1>2, <1>3 DEF LogInv, EndInv, PendingInv, Ends
<1>8. DataInv
  <2>1. \A t \in Tx : Done(t) = 0
    BY <1>2, <1>3 DEF Done
  <2> QED
    BY <2>1 DEF DataInv
<1>9. DOMAIN AllTables = {1} /\ AllTables[1] = {}
  BY InitTables
<1>10. committed = {} /\ markers = {} /\ flush.ph # "reporting"
  BY DEF TInit, NoFlush
<1>11. RecordsKnown /\ MarkerPlaced /\ MarkerLast
  BY <1>9, <1>10 DEF RecordsKnown, MarkerPlaced, MarkerLast
<1>12. MarkerInv
  <2>1. \A i \in 1..Unflushed : AllTables[i] = {}
    <3>1. Layout /\ Len(AllTables) = 1
      BY <1>1, InitTables, AllTablesAt DEF Shapes
    <3>2. Unflushed \in Int /\ Unflushed <= 1
      <4>1. Len(ssts) \in Nat
        BY <3>1 DEF Layout
      <4> QED
        BY <3>1, <4>1 DEF Unflushed
    <3> QED
      BY <1>9, <3>2
  <2>2. MarkersOf({}) = {}
    BY DEF MarkersOf
  <2> QED
    BY <1>10, <2>1, <2>2 DEF MarkerInv
<1>13. ReadInv
  BY <1>2 DEF ReadInv, NoRead
<1> QED
  BY <1>1, <1>4, <1>5, <1>6, <1>7, <1>8, <1>11, <1>12, <1>13 DEF TInv

\* Every step keeps the invariant.
LEMMA TNextInv == TInv /\ [TNext]_tvars => TInv'
<1> SUFFICES ASSUME TInv, [TNext]_tvars PROVE TInv'
  OBVIOUS
<1>1. IInv'
  BY ManagerStep, NextIInv DEF TInv
<1>2. TypeOK
  BY DEF TInv, IInv
<1>3. /\ Shapes /\ CtxInv /\ LockInv /\ OpsInv /\ LogInv /\ PendingInv /\ EndInv
      /\ DataInv /\ RecordsKnown /\ MarkerPlaced /\ MarkerLast /\ MarkerInv /\ ReadInv
  BY DEF TInv
<1>4. Shapes'
  <2>1. CtxShape' /\ RdShape' /\ TableShapes' /\ FlushShape' /\ WalShape'
    BY <1>2, <1>3, CtxStep, RdStep, TablesStep, FlushShapeStep, WalStep
  <2> QED
    BY <2>1 DEF Shapes
<1>5. CtxInv' /\ LockInv' /\ OpsInv' /\ LogInv' /\ EndInv'
  BY <1>2, <1>3, CtxInvStep, LockInvStep, OpsInvStep, LogInvStep, EndInvStep
<1>6. PendingInv' /\ RecordsKnown' /\ ReadInv'
  BY <1>2, <1>3, <1>4, <1>5, PendingStep, RecordsKnownStep, ReadInvStep
<1>7. MarkerPlaced' /\ MarkerLast' /\ MarkerInv'
  BY <1>2, <1>3, <1>4, MarkerPlacedStep, MarkerLastStep, MarkerInvStep
<1>8. DataInv'
  BY <1>2, <1>3, <1>4, <1>5, DataInvStep
<1> QED
  BY <1>1, <1>4, <1>5, <1>6, <1>7, <1>8 DEF TInv

\* The inductive invariant: it relates contexts, manager, log and tables in
\* every reachable state, whatever the levels, the bounds and the I/O faults.
THEOREM TInvariance == TSpec => []TInv
<1> QED
  BY TInitInv, TNextInv, PTL DEF TSpec

-----------------------------------------------------------------------------
(* What follows from it.                                                    *)

\* Type correctness of contexts, reads, flush and log.
THEOREM TTypeCorrect == TSpec => []TTypeOK
<1>1. TInv => TTypeOK
  <2> SUFFICES ASSUME TInv PROVE TTypeOK
    OBVIOUS
  <2>1. TypeOK /\ CtxShape /\ RdShape /\ FlushShape /\ WalShape
    BY DEF TInv, IInv, Shapes
  <2>2. \A t \in Tx : ctx[t].level \in Levels \cup {"none"} /\ ctx[t].pc \in Pcs
    BY <2>1 DEF CtxShape, Contexts
  <2>3. \A t \in Tx : rd[t].ph \in {"none", "mem", "sst"}
    BY <2>1 DEF RdShape, Reads, NoRead
  <2>4. flush.ph \in {"idle", "locked", "building", "built", "reporting"}
    BY <2>1 DEF FlushShape, Flushes, NoFlush
  <2> QED
    BY <2>1, <2>2, <2>3, <2>4 DEF TTypeOK, Pcs, WalShape
<1> QED
  BY <1>1, TInvariance, PTL

\* abort and a failed commit: a transaction reported as rolled back has no
\* COMMIT record in the log, even when the log failed in the middle of a batch.
THEOREM RolledBackStays == TSpec => []NoResurrection
<1>1. TInv => NoResurrection
  <2> SUFFICES ASSUME TInv, NEW t \in rolledBack PROVE ~Ends(wal[t])
    BY DEF NoResurrection
  <2>1. CtxInv /\ EndInv /\ TypeOK
    BY DEF TInv, IInv
  <2>2. ASSUME t \in Tx PROVE ~Ends(wal[t])
    BY <2>1, <2>2 DEF CtxInv, EndInv
  <2>3. t \in Tx
    BY <2>1 DEF CtxInv
  <2> QED
    BY <2>2, <2>3
<1> QED
  BY <1>1, TInvariance, PTL

\* add_flushed_tranc_id, driven by contexts and flushes: the checkpoint never
\* passes a transaction that is unfinished or whose marker is not yet reported.
THEOREM EngineCheckpointSound == TSpec => []CheckpointSound
<1>1. IInv => CheckpointSound
  BY MaxIdAssumption DEF IInv, CheckpointSound, FlushedCovered, Running, Id
<1> QED
  BY <1>1, ManagerInvariance, PTL

\* LSMEngine::get with require_committed: whatever moves or ends while a strict
\* read goes from the memtable to the SSTs, it returns a committed version.
THEOREM ReadsCommitted == TSpec => []NoDirtyRead
<1>1. TInv => NoDirtyRead
  BY DEF TInv, ReadInv, NoDirtyRead, Returning
<1> QED
  BY <1>1, TInvariance, PTL

\* persist_pending_wal_: every record in the memtable or an SST is in the log
\* of its transaction, also after a file operation of the log failed.
THEOREM LoggedFirst == TSpec => []LogBeforeData
<1>1. TInv => LogBeforeData
  <2> SUFFICES ASSUME TInv, NEW r \in Records, r.key # "marker"
               PROVE  \E i \in DOMAIN wal[r.ver] : /\ wal[r.ver][i].key = r.key
                                                   /\ wal[r.ver][i].val = r.val
    BY DEF LogBeforeData
  <2>1. PICK i \in DOMAIN AllTables : r \in AllTables[i]
    BY DEF Records, Range
  <2>2. InLog(r.ver, r.key, r.val)
    BY <2>1 DEF TInv, RecordsKnown
  <2> QED
    BY <2>2 DEF InLog
<1> QED
  BY <1>1, TInvariance, PTL

\* LSMEngine::flush reports exactly the markers it took from the memtable,
\* whatever is written, committed or fails while it runs.
THEOREM MarkersExact == TSpec => []MarkersAccounted
<1>1. TInv => MarkersAccounted
  <2> SUFFICES ASSUME TInv PROVE MarkersAccounted
    OBVIOUS
  <2>s. TypeOK /\ TableShapes /\ FlushShape /\ MarkerInv /\ MarkersReady /\ CtxInv
    BY DEF TInv, IInv, Shapes, CtxInv, Running
  <2>1. Layout
    BY <2>s, AllTablesAt
  <2> DEFINE M == UNION {MarkersOf(table) : table \in Range(MemTables)}
             B == IF flush.ph = "built" THEN MarkersOf(flush.table) ELSE {}
             P == IF flush.ph = "reporting" THEN flush.ids ELSE {}
  <2>2. /\ MemTables \in Tables /\ DOMAIN MemTables = 1..(1 + Len(frozen))
        /\ \A i \in DOMAIN MemTables : MemTables[i] = AllTables[i]
    <3>1. frozen \in Tables /\ cur \in SUBSET Recs
      BY <2>s DEF TableShapes
    <3>2. MemTables \in Tables /\ Len(MemTables) = Len(frozen) + 1
      BY <3>1, PushTable DEF MemTables
    <3>3. DOMAIN MemTables = 1..Len(MemTables) /\ Len(frozen) \in Nat
      BY <3>1, <3>2, TableBasics
    <3>4. \A i \in DOMAIN MemTables : MemTables[i] = AllTables[i]
      BY <2>s, TablesAmong
    <3> QED
      BY <3>2, <3>3, <3>4
  <2>3. \A t : t \in M \cup B <=> \E i \in 1..Unflushed : t \in MarkersOf(AllTables[i])
    <3>1. \A t : t \in M <=> \E i \in 1..(1 + Len(frozen)) : t \in MarkersOf(AllTables[i])
      BY <2>2 DEF Range
    <3>2. \A t : t \in B <=> flush.ph = "built" /\ t \in MarkersOf(AllTables[2 + Len(frozen)])
      BY <2>1 DEF Layout
    <3>3. 1..Unflushed = 1..(1 + Len(frozen)) \cup
                           (IF flush.ph = "built" THEN {2 + Len(frozen)} ELSE {})
      <4>1. Len(frozen) \in Nat /\ Unflushed = 1 + Len(frozen) + Built
        BY <2>1 DEF Layout
      <4> QED
        BY <4>1 DEF Built
    <3> HIDE DEF M, B
    <3> QED
      BY <3>1, <3>2, <3>3
  <2>4. markers \subseteq Tx
    BY <2>s DEF MarkersReady, CtxInv
  <2>5. M \cup B \cup P \subseteq Tx
    <3>1. P \subseteq Tx
      BY <2>s DEF FlushShape, Flushes, NoFlush
    <3>2. ASSUME NEW i \in 1..Unflushed PROVE MarkersOf(AllTables[i]) \subseteq Tx
      <4>1. i \in DOMAIN AllTables
        <5>1. Len(AllTables) \in Int /\ Unflushed \in Int /\ Unflushed <= Len(AllTables)
          BY <2>1 DEF Layout
        <5>2. DOMAIN AllTables = 1..Len(AllTables)
          BY <2>1 DEF Layout
        <5> QED
          BY <5>1, <5>2
      <4>2. AllTables[i] \subseteq Recs
        BY <2>1, <4>1, TableBasics DEF Layout
      <4> QED
        BY <4>2 DEF MarkersOf, Recs
    <3> HIDE DEF M, B, P
    <3> QED
      BY <2>3, <3>1, <3>2
  <2>6. \A t \in Tx : t \in P <=> flush.ph = "reporting" /\ t \in flush.ids
    OBVIOUS
  <2>7. \A t \in Tx : t \in markers <=> t \in M \cup B \cup P
    <3> HIDE DEF M, B, P
    <3> QED
      BY <2>s, <2>3, <2>6 DEF MarkerInv
  <2>8. markers = M \cup B \cup P
    <3> HIDE DEF M, B, P
    <3> QED
      BY <2>4, <2>5, <2>7
  <2> QED
    BY <2>8 DEF MarkersAccounted
<1> QED
  BY <1>1, TInvariance, PTL

\* The value a committed transaction logged last for a key is the one that the
\* tables show, once the log holds the transaction.
LEMMA LoggedPlaced ==
    ASSUME TInv, NEW t \in committed, NEW k \in Keys, Logged(t, k) # "unset"
    PROVE  t \in Tx /\ Placed(k, t, Logged(t, k))
<1>s. Shapes /\ CtxInv /\ DataInv
  BY DEF TInv
<1>1. t \in Tx /\ ctx[t].pc = "committed"
  BY <1>s DEF CtxInv
<1> DEFINE n == Len(wal[t])
           I == {i \in DOMAIN wal[t] : wal[t][i].key = k /\ wal[t][i].op # "CREATE"}
<1>2. n \in Nat /\ DOMAIN wal[t] = 1..n /\ \A i \in DOMAIN wal[t] : wal[t][i] \in OpRecs
  <2>1. wal[t] \in OpSeqs
    BY <1>s, <1>1 DEF Shapes, WalShape
  <2> QED
    BY <2>1, OpBasics
<1>3. I # {} /\ Logged(t, k) = wal[t][Max(I)].val
  BY DEF Logged
<1>4. Max(I) \in I /\ \A j \in I : j <= Max(I)
  <2>1. I \subseteq 0..n
    BY <1>2
  <2> HIDE DEF I, n
  <2> QED
    BY <1>2, <1>3, <2>1, MaxBounded
<1>5. PICK m : m = Max(I)
  OBVIOUS
<1>6. m \in 1..n /\ wal[t][m].key = k /\ wal[t][m].val = Logged(t, k)
  BY <1>2, <1>3, <1>4, <1>5
<1>7. \A i \in DOMAIN wal[t] : wal[t][i].key = k => wal[t][i].op # "CREATE"
  BY <1>2, KeysAssumption DEF OpRecs
<1>8. LastOn(wal[t], m, n)
  <2> SUFFICES ASSUME NEW j \in (m + 1)..n PROVE wal[t][j].key # k
    BY <1>6 DEF LastOn
  <2>1. j \in 1..n /\ j > m
    BY <1>2, <1>6
  <2>2. wal[t][j].key = k => j \in I
    BY <1>2, <1>7, <2>1
  <2>3. j \in I => j <= m
    BY <1>4, <1>5
  <2> HIDE DEF I, n
  <2> QED
    BY <1>2, <1>6, <2>1, <2>2, <2>3
<1>9. Done(t) = n
  BY <1>1 DEF Done
<1> HIDE DEF n, I
<1>10. Placed(wal[t][m].key, t, wal[t][m].val)
  BY <1>s, <1>1, <1>6, <1>8, <1>9 DEF DataInv, Good
<1> QED
  BY <1>1, <1>6, <1>10

\* A transaction at or below the checkpoint has its marker in an SST, and so
\* all its records: no table that was flushed later holds one.
LEMMA SettledInSsts ==
    ASSUME TInv, NEW t \in committed, t <= Checkpoint,
           NEW p \in DOMAIN AllTables, NEW r \in AllTables[p], r.ver = t
    PROVE  p > Unflushed
<1>s. /\ Shapes /\ CtxInv /\ MarkerPlaced /\ MarkerLast /\ MarkerInv /\ FlushedCovered
      /\ TypeOK
  BY DEF TInv, IInv, CtxInv, Running
<1>1. t \in Tx /\ t \notin rolledBack
  BY <1>s DEF CtxInv
<1>2. t \notin markers
  <2>1. t \in Id /\ ~(t <= 0)
    BY <1>1, MaxIdAssumption DEF Tx, Id
  <2>2. Covered(t)
    BY <1>s, <2>1 DEF FlushedCovered
  <2>3. base = 0
    BY <1>s DEF CtxInv
  <2> QED
    BY <1>1, <2>1, <2>2, <2>3 DEF Covered
<1>3. PICK i \in DOMAIN AllTables : t \in MarkersOf(AllTables[i])
  BY <1>s DEF MarkerPlaced
<1>4. ~(i \in 1..Unflushed)
  BY <1>s, <1>1, <1>2, <1>3 DEF MarkerInv
<1>5. i \in Nat /\ i >= 1 /\ p \in Nat /\ Unflushed \in Int
  <2>1. Layout
    BY <1>s, AllTablesAt DEF Shapes
  <2>2. DOMAIN AllTables = 1..Len(AllTables) /\ Len(AllTables) \in Nat
    BY <2>1 DEF Layout
  <2>3. Unflushed \in Int
    BY <2>1 DEF Layout
  <2> QED
    BY <2>2, <2>3
<1>6. i <= p
  <2>1. PICK m \in AllTables[i] : m.key = "marker" /\ m.ver = t
    BY <1>3 DEF MarkersOf
  <2> QED
    BY <1>s, <2>1 DEF MarkerLast
<1> QED
  BY <1>4, <1>5, <1>6

\* A lookup of one transaction's version in the SSTs returns what the tables
\* show of it, when that is in an SST.
LEMMA SstAnswer ==
    ASSUME TInv, NEW t \in Tx, NEW k \in Keys, NEW v, NEW p \in DOMAIN AllTables,
           Rec(k, t, v) \in AllTables[p], p > Unflushed,
           \A j \in 1..(p - 1) : \A r \in AllTables[j] : ~(r.key = k /\ r.ver = t)
    PROVE  LookupAll(ssts, k, t, Tx \ {t}).val = v
<1>s. Shapes /\ RecordsKnown
  BY DEF TInv
<1>1. Layout /\ ssts \in Tables
  BY <1>s, AllTablesAt DEF Shapes, TableShapes
<1>2. /\ Len(AllTables) \in Nat /\ Unflushed \in Nat /\ Len(ssts) \in Nat
      /\ DOMAIN AllTables = 1..Len(AllTables) /\ Len(AllTables) = Unflushed + Len(ssts)
      /\ DOMAIN ssts = 1..Len(ssts)
      /\ \A i \in 1..Len(ssts) : AllTables[Unflushed + i] = ssts[i]
  <2>1. /\ Len(AllTables) = 1 + Len(frozen) + Built + Len(ssts)
        /\ DOMAIN AllTables = 1..Len(AllTables) /\ Unflushed = 1 + Len(frozen) + Built
        /\ Len(frozen) \in Nat /\ Len(ssts) \in Nat /\ Built \in {0, 1}
    BY <1>1 DEF Layout
  <2>2. \A i \in 1..Len(ssts) : AllTables[Unflushed + i] = ssts[i]
    BY <1>1 DEF Layout
  <2>3. DOMAIN ssts = 1..Len(ssts)
    BY <1>1, TableBasics
  <2> QED
    BY <2>1, <2>2, <2>3
<1>3. PICK q \in 1..Len(ssts) : p = Unflushed + q
  <2>1. p - Unflushed \in 1..Len(ssts) /\ p = Unflushed + (p - Unflushed)
    BY <1>2
  <2> QED
    BY <2>1
<1>4. Rec(k, t, v) \in ssts[q] /\ q \in DOMAIN ssts
  BY <1>2, <1>3
<1> DEFINE E(i) == Eligible(ssts[i], k, t, Tx \ {t})
<1>5. Rec(k, t, v) \in E(q)
  <2>1. t <= t /\ t \notin Tx \ {t}
    BY DEF Tx
  <2> QED
    BY <1>4, <2>1 DEF Eligible, Versions, Rec
<1>6. \A i \in DOMAIN ssts : \A r \in E(i) : r.key = k /\ r.ver = t /\ r \in ssts[i]
  <2> SUFFICES ASSUME NEW i \in DOMAIN ssts, NEW r \in E(i)
               PROVE  r.key = k /\ r.ver = t /\ r \in ssts[i]
    OBVIOUS
  <2>1. r \in ssts[i] /\ r.key = k /\ r.ver \notin Tx \ {t}
    BY DEF Eligible, Versions
  <2>2. ssts[i] \subseteq Recs
    BY <1>1, TableBasics
  <2>3. r.ver \in Tx
    BY <2>1, <2>2 DEF Recs
  <2> QED
    BY <2>1, <2>3
<1>7. PICK i \in DOMAIN ssts, r \in Recs :
        /\ r \in E(i) /\ LookupAll(ssts, k, t, Tx \ {t}) = Result(r)
        /\ \A j \in DOMAIN ssts : \A x \in E(j) : x.ver <= r.ver /\ (j < i => x.ver < r.ver)
  <2>1. PICK i \in DOMAIN ssts : \E r \in E(i) :
          /\ LookupAll(ssts, k, t, Tx \ {t}) = Result(r)
          /\ \A j \in DOMAIN ssts : \A x \in E(j) : x.ver <= r.ver /\ (j < i => x.ver < r.ver)
    BY <1>1, <1>4, <1>5, LookupAllFacts
  <2>2. ssts[i] \subseteq Recs
    BY <1>1, <2>1, TableBasics
  <2>3. E(i) \subseteq Recs
    BY <2>2 DEF Eligible, Versions
  <2> HIDE DEF E
  <2> QED
    BY <2>1, <2>3
<1>8. i = q
  <2>1. ~(q < i)
    <3>1. t \in Int /\ r.ver = t /\ Rec(k, t, v).ver = t
      BY <1>6, <1>7 DEF Tx, Rec
    <3> HIDE DEF E
    <3> QED
      BY <1>4, <1>5, <1>7, <3>1
  <2>2. ~(i < q)
    <3>1. i < q => Unflushed + i \in 1..(p - 1)
      BY <1>2, <1>3
    <3>2. r \in AllTables[Unflushed + i] /\ r.key = k /\ r.ver = t
      BY <1>2, <1>6, <1>7
    <3> HIDE DEF E
    <3> QED
      BY <3>1, <3>2
  <2> QED
    BY <1>2, <1>3, <2>1, <2>2
<1>9. r = Rec(k, t, v)
  <2>1. r \in AllTables[p] /\ r.key = k /\ r.ver = t
    BY <1>2, <1>3, <1>6, <1>7, <1>8
  <2>2. Rec(k, t, v).key = k /\ Rec(k, t, v).ver = t
    BY DEF Rec
  <2> QED
    BY <1>s, <2>1, <2>2 DEF RecordsKnown
<1> QED
  BY <1>7, <1>9 DEF Result, Rec

\* The checkpoint against the queue order of flush_last: what a committed
\* transaction wrote is in an SST, or a replay from the checkpoint finds it in
\* the log, with its COMMIT record, after a crash at any point.
THEOREM CommitsDurable == TSpec => []CommitsSurviveCrash
<1>1. TInv => CommitsSurviveCrash
  <2> SUFFICES ASSUME TInv, NEW t \in committed, ~(t > Checkpoint /\ Ends(wal[t])),
                      NEW k \in Keys, Logged(t, k) # "unset"
               PROVE  LookupAll(ssts, k, t, Tx \ {t}).val = Logged(t, k)
    BY DEF CommitsSurviveCrash
  <2>1. t \in Tx /\ Placed(k, t, Logged(t, k))
    BY LoggedPlaced
  <2>2. Ends(wal[t])
    BY <2>1 DEF TInv, EndInv, CtxInv
  <2>3. t <= Checkpoint
    <3>1. TypeOK
      BY DEF TInv, IInv
    <3>2. t \in Int /\ Checkpoint \in Int
      BY <2>1, <3>1, CheckpointFacts DEF Tx, TypeOK, Id
    <3> QED
      BY <2>2, <3>2
  <2>4. PICK v : v = Logged(t, k)
    OBVIOUS
  <2>5. PICK p \in DOMAIN AllTables :
          /\ Rec(k, t, v) \in AllTables[p]
          /\ \A j \in 1..(p - 1) : \A r \in AllTables[j] : ~(r.key = k /\ r.ver = t)
    BY <2>1, <2>4 DEF Placed
  <2>6. p > Unflushed
    <3>1. Rec(k, t, v).ver = t
      BY DEF Rec
    <3> QED
      BY <2>3, <2>5, <3>1, SettledInSsts
  <2> QED
    BY <2>1, <2>4, <2>5, <2>6, SstAnswer
<1> QED
  BY <1>1, TInvariance, PTL

-----------------------------------------------------------------------------
(* Atomic reads.  When every writer stages its writes (no READ_UNCOMMITTED  *)
(* transaction), a read over memtable and SSTs is atomic although it takes  *)
(* their locks one after the other, and the whole refines the one map of    *)
(* TxnMap.                                                                  *)

AllStage == "RU" \notin Levels

-----------------------------------------------------------------------------
(* The invariant.                                                           *)

\* A version of a key is in one table, once, and belongs to a commit.
AllCommitted == \A i \in DOMAIN AllTables : \A r \in AllTables[i] : r.ver \in committed
OneRecord ==
    /\ AllCommitted
    /\ \A i, j \in DOMAIN AllTables : \A r \in AllTables[i], s \in AllTables[j] :
          r.key = s.key /\ r.ver = s.ver => r = s

\* The versions of k in the tables from the j-th on.
From(tables, j, k, cap) ==
    UNION {Versions(tables[i], k, cap) : i \in {n \in DOMAIN tables : n >= j}}

\* a is the largest of the answer so far and the versions in S.
TopOf(a, best, S) ==
    /\ a = best \/ \E r \in S : a = Result(r)
    /\ best.ver <= a.ver /\ \A r \in S : r.ver <= a.ver

\* An answer is none or the version of a record.
DrawnFrom(best, S) == best = None \/ \E r \in S : best = Result(r)

\* Wherever the boundary between memtable and SSTs lies when the read gets to
\* the SSTs, it will return what one instant since its start would have.
MemReadOk(t) ==
    /\ DrawnFrom(rd[t].best, From(AllTables, 1, rd[t].key, Cap(t)))
    /\ \A j \in 1..(Len(frozen) + 2) : \A a \in Answers :
         TopOf(a, rd[t].best, From(AllTables, j, rd[t].key, Cap(t))) =>
            Shown(a) \in rd[t].ideal

SstReadOk(t) ==
    /\ \A i \in DOMAIN rd[t].todo : \A r \in rd[t].todo[i] : r.ver \in committed
    /\ \A a \in Answers :
         TopOf(a, rd[t].best, UNION Range(rd[t].todo)) => Shown(a) \in rd[t].ideal

AtomicInv ==
    \A t \in Tx : /\ rd[t].ph = "mem" => MemReadOk(t)
                  /\ rd[t].ph = "sst" => SstReadOk(t)

-----------------------------------------------------------------------------
(* Records are unique.                                                      *)

\* Without READ_UNCOMMITTED every context stages.
LEMMA StagesAll == AllStage /\ CtxShape => \A t \in Tx : Strict(t)
<1> SUFFICES ASSUME AllStage, CtxShape, NEW t \in Tx PROVE Strict(t)
  OBVIOUS
<1>1. ctx[t].level \in Levels \cup {"none"}
  BY DEF CtxShape, Contexts
<1> QED
  BY <1>1 DEF AllStage, Strict

\* So every record is one of a committed transaction.
LEMMA CommittedRecords == AllStage /\ Shapes /\ RecordsKnown => AllCommitted
<1> SUFFICES ASSUME AllStage, Shapes, RecordsKnown, NEW i \in DOMAIN AllTables,
                    NEW r \in AllTables[i]
             PROVE  r.ver \in committed
  BY DEF AllCommitted
<1>1. r \in Recs
  BY AllTablesShape, TableBasics DEF Shapes
<1>2. Strict(r.ver)
  BY <1>1, StagesAll DEF Shapes, Recs
<1> QED
  BY <1>2 DEF RecordsKnown

\* A commit adds versions no table has; everything else only moves tables.
LEMMA OneRecordStep ==
    AllStage /\ TInv /\ TInv' /\ OneRecord /\ [TNext]_tvars => OneRecord'
<1> SUFFICES ASSUME AllStage, TInv, TInv', OneRecord, [TNext]_tvars PROVE OneRecord'
  OBVIOUS
<1>1. /\ TypeOK /\ Shapes /\ Shapes' /\ CtxInv /\ LockInv /\ OpsInv
      /\ RecordsKnown /\ RecordsKnown'
  BY DEF TInv, IInv
<1>2. AllCommitted'
  <2>1. AllStage' /\ Shapes' /\ RecordsKnown'
    BY <1>1 DEF AllStage
  <2> QED
    BY <2>1, CommittedRecords, PTL
<1>3. PICK d \in {0, 1} : \A j \in DOMAIN AllTables' : \A s \in AllTables'[j] :
              /\ j \in Nat /\ j >= 1 + d
              /\ \/ j - d \in DOMAIN AllTables /\ s \in AllTables[j - d]
                 \/ j = 1 + d /\ s.ver \notin committed
  BY <1>1, RecordFrom
<1>4. ASSUME NEW i \in DOMAIN AllTables', NEW j \in DOMAIN AllTables',
             NEW r \in AllTables'[i], NEW s \in AllTables'[j], r.key = s.key, r.ver = s.ver
      PROVE  r = s
  <2>1. ASSUME i = j PROVE r = s
    BY <1>1, <1>4, <2>1 DEF RecordsKnown
  <2>2. ASSUME i - d \in DOMAIN AllTables, r \in AllTables[i - d],
               j - d \in DOMAIN AllTables, s \in AllTables[j - d]
        PROVE  r = s
    BY <1>4, <2>2 DEF OneRecord
  <2>3. ASSUME i - d \in DOMAIN AllTables, r \in AllTables[i - d], s.ver \notin committed
        PROVE  FALSE
    BY <1>4, <2>3 DEF OneRecord, AllCommitted
  <2>4. ASSUME j - d \in DOMAIN AllTables, s \in AllTables[j - d], r.ver \notin committed
        PROVE  FALSE
    BY <1>4, <2>4 DEF OneRecord, AllCommitted
  <2> QED
    BY <1>3, <2>1, <2>2, <2>3, <2>4
<1> QED
  BY <1>2, <1>4 DEF OneRecord

-----------------------------------------------------------------------------
(* What the tables show.                                                    *)

\* The committed view of tables whose records are unique is their largest
\* version, and an answer drawn from them does not change it.
LEMMA ViewIsTop ==
    ASSUME NEW tables \in Tables, NEW com, NEW k \in Keys, NEW cap,
           \A i \in DOMAIN tables : \A r \in tables[i] : r.ver \in com,
           \A i, j \in DOMAIN tables : \A r \in tables[i], s \in tables[j] :
              r.key = s.key /\ r.ver = s.ver => r = s,
           NEW best, NEW a, DrawnFrom(best, From(tables, 1, k, cap)),
           TopOf(a, best, From(tables, 1, k, cap))
    PROVE  Shown(a) = CommittedView(tables, com, k, cap)
<1> DEFINE V == From(tables, 1, k, cap)
           skip == Tx \ com
           E(i) == Eligible(tables[i], k, cap, skip)
           found == LookupAll(tables, k, cap, skip)
<1>1. DOMAIN tables \subseteq 1..Len(tables) /\ Len(tables) \in Nat
  BY TableBasics
<1>2. \A i \in DOMAIN tables : tables[i] \subseteq Recs
  BY TableBasics
<1>3. \A r : r \in V <=> \E i \in DOMAIN tables : r \in Versions(tables[i], k, cap)
  <2>1. \A n \in DOMAIN tables : n >= 1
    BY <1>1
  <2> QED
    BY <2>1 DEF From
<1>4. ASSUME NEW i \in DOMAIN tables PROVE E(i) = Versions(tables[i], k, cap)
  <2>1. \A r \in Versions(tables[i], k, cap) : r.ver \notin skip
    BY DEF Versions
  <2> HIDE DEF skip
  <2> QED
    BY <2>1 DEF Eligible
<1>5. \A r \in V : r \in Recs /\ r.key = k /\ r.ver \in Nat /\ r.ver >= 1
  <2> SUFFICES ASSUME NEW r \in V PROVE r \in Recs /\ r.key = k /\ r.ver \in Nat /\ r.ver >= 1
    OBVIOUS
  <2>1. r \in Recs /\ r.key = k
    BY <1>2, <1>3 DEF Versions
  <2> QED
    BY <2>1, MaxIdAssumption DEF Recs, Tx
<1>6. \A r, s \in V : r.ver = s.ver => r = s
  <2> SUFFICES ASSUME NEW r \in V, NEW s \in V, r.ver = s.ver PROVE r = s
    OBVIOUS
  <2>1. PICK i \in DOMAIN tables : r \in tables[i]
    BY <1>3 DEF Versions
  <2>2. PICK j \in DOMAIN tables : s \in tables[j]
    BY <1>3 DEF Versions
  <2>3. r.key = s.key
    BY <1>5
  <2> QED
    BY <2>1, <2>2, <2>3
<1>7. \/ V = {} /\ found = None
      \/ \E r \in V : found = Result(r) /\ \A x \in V : x.ver <= r.ver
  <2>1. \/ (\A i \in DOMAIN tables : E(i) = {}) /\ found = None
        \/ \E i \in DOMAIN tables : \E r \in E(i) :
             /\ found = Result(r)
             /\ \A j \in DOMAIN tables : \A x \in E(j) : x.ver <= r.ver
    <3> HIDE DEF skip
    <3> QED
      BY LookupAllFacts
  <2> HIDE DEF V, E, found
  <2>2. CASE (\A i \in DOMAIN tables : E(i) = {}) /\ found = None
    BY <1>3, <1>4, <2>2
  <2>3. CASE \E i \in DOMAIN tables : \E r \in E(i) :
             /\ found = Result(r)
             /\ \A j \in DOMAIN tables : \A x \in E(j) : x.ver <= r.ver
    BY <1>3, <1>4, <2>3
  <2> QED
    BY <2>1, <2>2, <2>3
<1> HIDE DEF V, E, found, skip
<1>8. DrawnFrom(best, V) /\ TopOf(a, best, V)
  BY DEF V
<1>9. a = None \/ \E r \in V : a = Result(r)
  BY <1>8 DEF DrawnFrom, TopOf
<1>10. \A r \in V : Result(r).ver = r.ver
  BY DEF Result
<1>11. \A x \in V : x.ver <= a.ver
  BY <1>8 DEF TopOf
<1>12. a = found
  <2>1. CASE V = {} /\ found = None
    BY <1>9, <2>1
  <2>2. CASE \E r \in V : found = Result(r) /\ \A x \in V : x.ver <= r.ver
    <3>1. PICK r \in V : found = Result(r) /\ \A x \in V : x.ver <= r.ver
      BY <2>2
    <3>2. a # None
      <4>1. r.ver <= a.ver /\ r.ver \in Nat /\ r.ver >= 1
        BY <1>5, <1>11
      <4> QED
        BY <4>1 DEF None
    <3>3. PICK s \in V : a = Result(s)
      BY <1>9, <3>2
    <3>4. s.ver <= r.ver /\ r.ver <= s.ver /\ s.ver \in Nat /\ r.ver \in Nat
      BY <1>5, <1>10, <1>11, <3>1, <3>3
    <3>5. s = r
      BY <1>6, <3>4
    <3> QED
      BY <3>1, <3>3, <3>5
  <2> QED
    BY <1>7, <2>1, <2>2
<1> QED
  BY <1>12 DEF CommittedView, found, skip

-----------------------------------------------------------------------------
(* How the versions behind a boundary move.                                 *)

\* Membership in From, without its union.
LEMMA FromMembers ==
    ASSUME NEW tables, NEW j, NEW k, NEW cap
    PROVE  \A r : r \in From(tables, j, k, cap) <=>
              \E i \in DOMAIN tables : i >= j /\ r \in Versions(tables[i], k, cap)
BY DEF From

\* Behind the active table nothing changes but the numbering.
LEMMA CutMoved ==
    ASSUME TableShapes, FlushShape, TableShapes', FlushShape', NEW T, NEW d \in {0, 1},
           TableMove(T, d), NEW j \in Nat, j > 1 + d, NEW k, NEW cap
    PROVE  From(AllTables', j, k, cap) = From(AllTables, j - d, k, cap)
<1>1. ASSUME NEW r, NEW i \in DOMAIN AllTables', i >= j, r \in Versions(AllTables'[i], k, cap)
      PROVE  \E x \in DOMAIN AllTables : x >= j - d /\ r \in Versions(AllTables[x], k, cap)
  <2>1. /\ i \in Nat
        /\ \/ i = 1 /\ d = 1
           \/ i = 1 + d
           \/ i - d \in DOMAIN AllTables /\ AllTables'[i] = AllTables[i - d]
    BY MoveBack
  <2>2. ~(i = 1 /\ d = 1) /\ i # 1 + d /\ i - d >= j - d
    BY <1>1, <2>1
  <2> QED
    BY <1>1, <2>1, <2>2
<1>2. ASSUME NEW r, NEW i \in DOMAIN AllTables, i >= j - d, r \in Versions(AllTables[i], k, cap)
      PROVE  \E x \in DOMAIN AllTables' : x >= j /\ r \in Versions(AllTables'[x], k, cap)
  <2>1. /\ i \in Nat /\ i + d \in DOMAIN AllTables'
        /\ i # 1 => AllTables'[i + d] = AllTables[i]
    BY MoveOn
  <2>2. i # 1 /\ i + d >= j
    BY <1>2, <2>1
  <2> QED
    BY <1>2, <2>1, <2>2
<1>3. \A r : r \in From(AllTables', j, k, cap) <=> r \in From(AllTables, j - d, k, cap)
  BY <1>1, <1>2, FromMembers
<1> QED
  BY <1>3

\* From the active table on, the versions are those of the stored table and of
\* the tables behind it.
LEMMA CutWhole ==
    ASSUME TableShapes, FlushShape, TableShapes', FlushShape', NEW T, NEW d \in {0, 1},
           TableMove(T, d), NEW j \in 1..(1 + d), NEW k, NEW cap, NEW X,
           DOMAIN X = DOMAIN AllTables, X[1] = T,
           \A i \in DOMAIN X : i # 1 => X[i] = AllTables[i]
    PROVE  From(AllTables', j, k, cap) = From(X, 1, k, cap)
<1>m. /\ 1 + d \in DOMAIN AllTables' /\ AllTables'[1 + d] = T
      /\ 1 \in DOMAIN AllTables
      /\ \A i \in DOMAIN AllTables : /\ i \in Nat /\ i + d \in DOMAIN AllTables'
                                     /\ i # 1 => AllTables'[i + d] = AllTables[i]
  BY MoveOn
<1>n. \A i \in DOMAIN AllTables : i \in Nat /\ i >= 1
  <2>1. DOMAIN AllTables = 1..Len(AllTables) /\ Len(AllTables) \in Nat
    BY AllTablesAt DEF Layout
  <2> QED
    BY <2>1
<1>1. ASSUME NEW r, NEW i \in DOMAIN AllTables', i >= j, r \in Versions(AllTables'[i], k, cap)
      PROVE  \E x \in DOMAIN X : x >= 1 /\ r \in Versions(X[x], k, cap)
  <2>1. \/ AllTables'[i] = {}
        \/ AllTables'[i] = T
        \/ /\ i - d \in 2..Len(AllTables) /\ i - d \in DOMAIN AllTables
           /\ AllTables'[i] = AllTables[i - d]
    BY MoveBack
  <2>2. AllTables'[i] # {}
    BY <1>1 DEF Versions
  <2>3. ASSUME i - d \in 2..Len(AllTables), i - d \in DOMAIN AllTables,
               AllTables'[i] = AllTables[i - d]
        PROVE  \E x \in DOMAIN X : x >= 1 /\ r \in Versions(X[x], k, cap)
    <3>1. PICK x \in DOMAIN AllTables : x = i - d
      BY <2>3
    <3>2. x # 1 /\ x >= 1
      BY <1>n, <2>3, <3>1
    <3>3. X[x] = AllTables'[i]
      BY <2>3, <3>1, <3>2
    <3> QED
      BY <1>1, <3>2, <3>3
  <2> QED
    BY <1>1, <1>m, <2>1, <2>2, <2>3
<1>2. ASSUME NEW r, NEW i \in DOMAIN X, r \in Versions(X[i], k, cap)
      PROVE  \E x \in DOMAIN AllTables' : x >= j /\ r \in Versions(AllTables'[x], k, cap)
  <2>1. i \in Nat /\ i >= 1 /\ i + d \in DOMAIN AllTables' /\ AllTables'[i + d] = X[i]
    BY <1>m, <1>n
  <2>2. i + d >= j
    BY <2>1
  <2> QED
    BY <1>2, <2>1, <2>2
<1>3. \A r : r \in From(AllTables', j, k, cap) <=> r \in From(X, 1, k, cap)
  BY <1>1, <1>2, FromMembers
<1> QED
  BY <1>3

\* A table leaves memory only to become the newest flushed one.
LEMMA OldGrows ==
    ASSUME TypeOK, Shapes, Shapes', LockInv, [TNext]_tvars
    PROVE  Built + Len(ssts) <= (Built + Len(ssts))'
<1>1. ssts \in Tables /\ ssts' \in Tables
  BY DEF Shapes, TableShapes
<1>2. Len(ssts) \in Nat /\ Len(ssts') \in Nat
  BY <1>1, TableBasics
<1>3. ASSUME ssts' = ssts, flush' = flush \/ flush.ph # "built"
      PROVE  Built + Len(ssts) <= Built' + Len(ssts')
  BY <1>2, <1>3 DEF Built
<1>4. CASE FlushRegister
  <2>1. flush.ph = "built" /\ ssts' = <<flush.table>> \o ssts
    BY <1>4 DEF FlushRegister
  <2>2. flush.table \in SUBSET Recs
    BY <2>1 DEF Shapes, FlushShape, Flushes, NoFlush
  <2>3. Len(ssts') = Len(ssts) + 1
    BY <1>1, <2>1, <2>2, PushTable
  <2> QED
    BY <1>2, <2>3 DEF Built
<1>5. CASE FlushLock \/ FlushNothing \/ FlushPick \/ FlushFails \/ FlushBuilt \/ FlushReport
  <2>1. ssts' = ssts
    BY <1>5, FlushFrame
  <2>2. flush.ph # "built"
    BY <1>5 DEF FlushLock, FlushNothing, FlushPick, FlushFails, FlushBuilt, FlushReport,
                SstsFree, SstsShareable
  <2> QED
    BY <1>3, <2>1, <2>2
<1>6. ASSUME NEW t \in Tx,
             \/ \E k \in Keys, v \in Vals : StageWrite(t, k, v) \/ LogWrite(t, k, v)
             \/ (\E k \in Keys : ReadMem(t, k)) \/ ApplyWrite(t)
             \/ ReadSsts(t) \/ ReadVersion(t) \/ ReadReturn(t)
             \/ CommitConflict(t) \/ CommitLog(t) \/ CommitApply(t) \/ Abort(t)
      PROVE  UNCHANGED <<ssts, flush>>
  BY <1>6, WriteFrame, ReadFrame, EndFrame
<1>7. CASE (\E level \in Levels : Begin(level)) \/ UNCHANGED tvars
  <2>1. UNCHANGED <<ssts, flush>>
    BY <1>7, BeginFrame, TvarsFrame
  <2> QED
    BY <1>3, <2>1
<1> QED
  BY <1>3, <1>4, <1>5, <1>6, <1>7 DEF TNext, FlushStep

\* So the memtable grows only by the table that is frozen.
LEMMA FrozenGrows ==
    ASSUME TypeOK, Shapes, Shapes', LockInv, [TNext]_tvars, NEW T, NEW d \in {0, 1},
           TableMove(T, d)
    PROVE  /\ Len(frozen') <= Len(frozen) + d /\ Len(frozen) \in Nat /\ Len(frozen') \in Nat
<1>1. /\ Len(frozen) \in Nat /\ Built \in Nat /\ Len(ssts) \in Nat
      /\ Len(AllTables) = 1 + Len(frozen) + Built + Len(ssts)
  BY AllTablesAt DEF Layout, Shapes
<1>2. /\ Len(frozen') \in Nat /\ Built' \in Nat /\ Len(ssts') \in Nat
      /\ Len(AllTables') = 1 + Len(frozen') + Built' + Len(ssts')
  <2>1. TableShapes' /\ FlushShape'
    BY DEF Shapes
  <2>2. Layout'
    BY <2>1, AllTablesAt, PTL
  <2> QED
    BY <2>2 DEF Layout
<1>3. Built + Len(ssts) <= Built' + Len(ssts')
  BY OldGrows
<1> QED
  BY SMTT(20), <1>1, <1>2, <1>3 DEF TableMove

-----------------------------------------------------------------------------
(* A read while others step.                                                *)

\* A transaction keeps its cap while it exists, and a commit is final.
LEMMA CapKept ==
    ASSUME TInv, [TNext]_tvars, NEW t \in Tx, rd[t].ph # "none"
    PROVE  /\ Cap(t)' = Cap(t) /\ committed \subseteq committed'
<1>1. TypeOK /\ Shapes /\ CtxInv /\ LockInv
  BY DEF TInv, IInv
<1>2. Grows
  BY <1>1, GrowsStep
<1>3. ctx[t].pc = "open"
  BY <1>1 DEF LockInv
<1>4. ctx'[t].level = ctx[t].level
  BY <1>2, <1>3 DEF Grows
<1>5. committed \subseteq committed'
  BY <1>1, <1>2 DEF Grows, CtxInv
<1> QED
  BY <1>4, <1>5 DEF Cap

\* A step that stores nothing keeps a read in the memtable phase atomic.
LEMMA MemReadQuiet ==
    ASSUME TInv, TInv', [TNext]_tvars, ~Stores, NEW t \in Tx,
           rd[t].ph = "mem", rd'[t] = rd[t], MemReadOk(t)
    PROVE  MemReadOk(t)'
<1>s. /\ TypeOK /\ Shapes /\ Shapes' /\ LockInv /\ OpsInv
      /\ TableShapes /\ FlushShape /\ TableShapes' /\ FlushShape'
  BY DEF TInv, IInv, Shapes
<1>1. PICK d \in {0, 1} : TableMove(cur, d)
  BY <1>s, QuietMove
<1>2. Cap(t)' = Cap(t)
  BY CapKept
<1>3. PICK k : k = rd[t].key
  OBVIOUS
<1>4. PICK c : c = Cap(t)
  OBVIOUS
<1>5. /\ Len(frozen') <= Len(frozen) + d /\ Len(frozen) \in Nat /\ Len(frozen') \in Nat
  BY <1>s, <1>1, FrozenGrows
<1>6. DOMAIN AllTables = DOMAIN AllTables /\ AllTables[1] = cur
  BY <1>s, AllTablesAt DEF Layout
<1>7. ASSUME NEW j \in 1..(1 + d)
      PROVE  From(AllTables', j, k, c) = From(AllTables, 1, k, c)
  BY <1>s, <1>1, <1>6, CutWhole
<1>8. /\ DrawnFrom(rd[t].best, From(AllTables, 1, k, c))
      /\ \A j \in 1..(Len(frozen) + 2) : \A a \in Answers :
           TopOf(a, rd[t].best, From(AllTables, j, k, c)) => Shown(a) \in rd[t].ideal
  BY <1>3, <1>4 DEF MemReadOk
<1>9. DrawnFrom(rd[t].best, From(AllTables', 1, k, c))
  BY <1>7, <1>8
<1>10. ASSUME NEW j \in 1..(Len(frozen') + 2)
       PROVE  \E i \in 1..(Len(frozen) + 2) :
                 From(AllTables', j, k, c) = From(AllTables, i, k, c)
  <2>1. CASE j <= 1 + d
    <3>1. j \in 1..(1 + d) /\ 1 \in 1..(Len(frozen) + 2)
      BY <1>5, <2>1
    <3> QED
      BY <1>7, <3>1
  <2>2. CASE j > 1 + d
    <3>1. j \in Nat /\ j - d \in 1..(Len(frozen) + 2)
      BY <1>5, <2>2
    <3>2. From(AllTables', j, k, c) = From(AllTables, j - d, k, c)
      BY <1>s, <1>1, <2>2, <3>1, CutMoved
    <3> QED
      BY <3>1, <3>2
  <2>3. j <= 1 + d \/ j > 1 + d
    OBVIOUS
  <2> QED
    BY <2>1, <2>2, <2>3
<1>11. \A j \in 1..(Len(frozen') + 2) : \A a \in Answers :
           TopOf(a, rd[t].best, From(AllTables', j, k, c)) => Shown(a) \in rd[t].ideal
  BY <1>8, <1>10
<1> QED
  BY <1>2, <1>3, <1>4, <1>9, <1>11 DEF MemReadOk

\* The tables at the instant of a commit: the active one has its records.
LEMMA CommitTables ==
    ASSUME TypeOK, Shapes, NEW u \in Tx, CommitApply(u)
    PROVE  LET X == <<Applied(u)>> \o Tail(AllTables) IN
           /\ X \in Tables /\ DOMAIN X = DOMAIN AllTables /\ X[1] = Applied(u)
           /\ \A i \in DOMAIN X : i # 1 => X[i] = AllTables[i]
<1>s. TableShapes /\ FlushShape
  BY DEF Shapes
<1> DEFINE X == <<Applied(u)>> \o Tail(AllTables)
<1>1. /\ Applied(u) \in SUBSET Recs /\ AllTables \in Tables
      /\ Tail(AllTables) \in Tables /\ AllTables = <<cur>> \o Tail(AllTables)
      /\ cur \in SUBSET Recs
  BY <1>s, StoredShape, AllTablesShape DEF TableShapes
<1>2. PICK R : R = Tail(AllTables)
  OBVIOUS
<1>3. Len(R) \in Nat /\ DOMAIN R = 1..Len(R)
  BY <1>1, <1>2, TableBasics
<1>4. /\ X \in Tables /\ Len(X) = Len(R) + 1 /\ X[1] = Applied(u)
      /\ \A i \in DOMAIN R : X[i + 1] = R[i]
  BY <1>1, <1>2, PushTable
<1>5. /\ Len(AllTables) = Len(R) + 1
      /\ \A i \in DOMAIN R : AllTables[i + 1] = R[i]
  BY <1>1, <1>2, PushTable
<1>6. DOMAIN X = 1..Len(X) /\ DOMAIN AllTables = 1..Len(AllTables)
  BY <1>1, <1>4, TableBasics
<1>7. ASSUME NEW i \in DOMAIN X, i # 1 PROVE X[i] = AllTables[i]
  <2>1. i - 1 \in DOMAIN R /\ (i - 1) + 1 = i
    BY <1>3, <1>4, <1>6, <1>7
  <2> HIDE DEF X
  <2> QED
    BY <1>4, <1>5, <2>1
<1> QED
  BY <1>4, <1>5, <1>6, <1>7

\* A commit keeps it atomic: the answers it makes possible are those of the
\* instant after it.
LEMMA MemReadCommit ==
    ASSUME TInv, TInv', OneRecord, OneRecord', [TNext]_tvars, NEW u \in Tx, CommitApply(u),
           NEW t \in Tx, rd[t].ph = "mem", MemReadOk(t)
    PROVE  rd'[t].ph = "mem" => MemReadOk(t)'
<1>s. /\ TypeOK /\ Shapes /\ Shapes' /\ LockInv /\ OpsInv /\ CtxInv
      /\ TableShapes /\ FlushShape /\ TableShapes' /\ FlushShape' /\ RdShape
  BY DEF TInv, IInv, Shapes
<1> DEFINE X == <<Applied(u)>> \o Tail(AllTables)
<1>1. PICK d \in {0, 1} : TableMove(Applied(u), d)
  BY <1>s, CommitMove
<1>2. Cap(t)' = Cap(t)
  BY CapKept
<1>3. PICK k \in Keys : k = rd[t].key
  BY <1>s, ReadParts
<1>4. PICK c : c = Cap(t)
  OBVIOUS
<1>5. /\ Len(frozen') <= Len(frozen) + d /\ Len(frozen) \in Nat /\ Len(frozen') \in Nat
  BY <1>s, <1>1, FrozenGrows
<1>6. PICK best : best = rd[t].best
  OBVIOUS
<1>7. /\ rd'[t].key = k /\ rd'[t].best = best
      /\ rd'[t].ideal = rd[t].ideal \cup {CommittedView(X, committed \cup {u}, k, c)}
  <2>1. rd'[t].ideal = rd[t].ideal \cup {CommittedView(X, committed \cup {u}, k, c)}
    BY <1>s, <1>3, <1>4, CommitReadFields
  <2>2. rd' = [r \in Tx |->
             IF rd[r].ph = "none" THEN rd[r]
             ELSE [rd[r] EXCEPT !.ideal = @ \cup
                     {CommittedView(X, committed \cup {u}, rd[r].key, Cap(r))}]]
    BY DEF CommitApply
  <2>3. PICK w : rd'[t] = [rd[t] EXCEPT !.ideal = w]
    BY <2>2
  <2>4. rd[t] \in [ph : {"mem", "sst"}, key : Keys, todo : Tables, best : Answers,
                   ideal : SUBSET Answers]
    BY <1>s, ReadParts
  <2>5. rd'[t].key = rd[t].key /\ rd'[t].best = rd[t].best
    BY <2>3, <2>4
  <2> QED
    BY <1>3, <1>6, <2>1, <2>5
<1>8. /\ X \in Tables /\ DOMAIN X = DOMAIN AllTables /\ X[1] = Applied(u)
      /\ \A i \in DOMAIN X : i # 1 => X[i] = AllTables[i]
  BY <1>s, CommitTables
<1>c. committed' = committed \cup {u} /\ u \notin committed
  <2>1. AddReadyToFlush(u, "OP_COMMITTED") /\ ctx[u].pc = "logged"
    BY DEF CommitApply
  <2> QED
    BY <1>s, <2>1 DEF AddReadyToFlush, CtxInv
<1>9. \A i \in DOMAIN X : i + d \in DOMAIN AllTables' /\ X[i] = AllTables'[i + d]
  <2>1. /\ 1 + d \in DOMAIN AllTables' /\ AllTables'[1 + d] = Applied(u)
        /\ \A i \in DOMAIN AllTables : /\ i + d \in DOMAIN AllTables'
                                       /\ i # 1 => AllTables'[i + d] = AllTables[i]
    BY <1>s, <1>1, MoveOn
  <2> HIDE DEF X
  <2> QED
    BY <1>8, <2>1
<1> HIDE DEF X
<1>10. \A i \in DOMAIN X : \A r \in X[i] : r.ver \in committed \cup {u}
  BY <1>9, <1>c DEF OneRecord, AllCommitted
<1>11. \A i, j \in DOMAIN X : \A r \in X[i], s \in X[j] :
          r.key = s.key /\ r.ver = s.ver => r = s
  BY <1>9 DEF OneRecord
<1>12. /\ DrawnFrom(best, From(AllTables, 1, k, c))
       /\ \A j \in 1..(Len(frozen) + 2) : \A a \in Answers :
           TopOf(a, best, From(AllTables, j, k, c)) => Shown(a) \in rd[t].ideal
  BY <1>3, <1>4, <1>6 DEF MemReadOk
<1>13. DrawnFrom(best, From(X, 1, k, c))
  <2>1. ASSUME NEW r \in From(AllTables, 1, k, c) PROVE r \in From(X, 1, k, c)
    <3>1. PICK i \in DOMAIN AllTables : i >= 1 /\ r \in Versions(AllTables[i], k, c)
      BY FromMembers
    <3>2. CASE i # 1
      BY <1>8, <3>1, <3>2, FromMembers
    <3>3. CASE i = 1
      <4>1. r \in cur /\ r.ver \in committed
        BY <1>s, <3>1, <3>3, AllTablesAt DEF Layout, Versions, OneRecord, AllCommitted
      <4>2. r \in X[1]
        BY <1>8, <1>c, <4>1 DEF Applied
      <4>3. r \in Versions(X[1], k, c)
        BY <3>1, <4>2 DEF Versions
      <4> QED
        BY <1>8, <3>1, <3>3, <4>3, FromMembers
    <3> QED
      BY <3>2, <3>3
  <2> QED
    BY <1>12, <2>1 DEF DrawnFrom
<1>14. ASSUME NEW j \in 1..(1 + d)
       PROVE  From(AllTables', j, k, c) = From(X, 1, k, c)
  BY <1>s, <1>1, <1>8, CutWhole
<1>15. ASSUME NEW a \in Answers, TopOf(a, best, From(X, 1, k, c))
       PROVE  Shown(a) = CommittedView(X, committed \cup {u}, k, c)
  BY <1>8, <1>10, <1>11, <1>13, <1>15, ViewIsTop
<1>16. ASSUME NEW j \in 1..(Len(frozen') + 2), NEW a \in Answers,
              TopOf(a, best, From(AllTables', j, k, c))
       PROVE  Shown(a) \in rd'[t].ideal
  <2>1. CASE j <= 1 + d
    <3>1. j \in 1..(1 + d)
      BY <2>1
    <3>2. From(AllTables', j, k, c) = From(X, 1, k, c)
      BY <1>14, <3>1
    <3>3. Shown(a) = CommittedView(X, committed \cup {u}, k, c)
      BY <1>15, <1>16, <3>2
    <3> QED
      BY <1>7, <3>3
  <2>2. CASE j > 1 + d
    <3>1. j \in Nat /\ j - d \in 1..(Len(frozen) + 2)
      BY <1>5, <2>2
    <3>2. From(AllTables', j, k, c) = From(AllTables, j - d, k, c)
      BY <1>s, <1>1, <2>2, <3>1, CutMoved
    <3>3. Shown(a) \in rd[t].ideal
      BY <1>12, <1>16, <3>1, <3>2
    <3> QED
      BY <1>7, <3>3
  <2>3. j <= 1 + d \/ j > 1 + d
    OBVIOUS
  <2> QED
    BY <2>1, <2>2, <2>3
<1>17. DrawnFrom(best, From(AllTables', 1, k, c))
  <2>1. 1 \in 1..(1 + d)
    OBVIOUS
  <2> QED
    BY <1>13, <1>14, <2>1
<1> QED
  BY <1>2, <1>4, <1>7, <1>16, <1>17 DEF MemReadOk

\* A read in the SST phase depends on the others only through what is
\* committed and through the instants it may be credited to.
LEMMA SstReadKept ==
    ASSUME TInv, [TNext]_tvars, NEW t \in Tx, rd[t].ph = "sst", SstReadOk(t),
           rd'[t].todo = rd[t].todo, rd'[t].best = rd[t].best,
           rd[t].ideal \subseteq rd'[t].ideal
    PROVE  SstReadOk(t)'
<1>1. committed \subseteq committed'
  BY CapKept
<1> QED
  BY <1>1 DEF SstReadOk

-----------------------------------------------------------------------------
(* A read that steps.                                                       *)

\* No version of a commit is skipped by a strict read.
LEMMA NothingSkipped ==
    ASSUME CtxInv, NEW id \in committed
    PROVE  ~ShouldSkipRead(id, TRUE) /\ id \in Tx
<1>1. id \in Tx /\ ctx[id].pc = "committed"
  BY DEF CtxInv
<1>2. id \notin activeTrans /\ id \notin rolledBack /\ abortedTrancIds = rolledBack
  BY <1>1 DEF CtxInv
<1> QED
  BY <1>1, <1>2 DEF ShouldSkipRead

\* The memtable search takes the largest version in memory, so that what is
\* behind any boundary completes it to the largest version of all.
LEMMA ReadMemOk ==
    ASSUME AllStage, TInv, TInv', OneRecord, [TNext]_tvars, NEW t \in Tx, NEW k \in Keys,
           ReadMem(t, k)
    PROVE  MemReadOk(t)'
<1>s. /\ TypeOK /\ Shapes /\ CtxInv /\ CtxShape
      /\ TableShapes /\ FlushShape /\ RdShape
  BY DEF TInv, IInv, Shapes
<1>u. UNCHANGED <<ctx, cur, frozen, ssts, flush, vars>>
  BY ReadFrame
<1>t. AllTables' = AllTables /\ frozen' = frozen /\ Cap(t)' = Cap(t)
  BY <1>u DEF AllTables, MemTables, Cap
<1>1. Strict(t) = TRUE
  BY <1>s, StagesAll DEF Strict
<1>2. PICK c : c = Cap(t)
  OBVIOUS
<1>3. PICK best : best = LookupAll(MemTables, k, c, Skipped(TRUE))
  OBVIOUS
<1>4. /\ rd'[t].key = k /\ rd'[t].best = best
      /\ rd'[t].ideal = {CommittedView(AllTables, committed, k, c)}
  BY <1>s, <1>1, <1>2, <1>3, ReadMemFields
<1>5. MemTables \in Tables /\ AllTables \in Tables
  BY <1>s, AllTablesShape
<1>6. /\ DOMAIN MemTables = 1..(Len(frozen) + 1) /\ Len(frozen) \in Nat
      /\ DOMAIN AllTables = 1..Len(AllTables) /\ Len(AllTables) \in Nat
      /\ \A i \in DOMAIN MemTables : i \in DOMAIN AllTables /\ MemTables[i] = AllTables[i]
  <2>1. frozen \in Tables /\ cur \in SUBSET Recs
    BY <1>s DEF TableShapes
  <2>2. Len(frozen) \in Nat
    BY <2>1, TableBasics
  <2>3. Len(MemTables) = Len(frozen) + 1
    BY <2>1, PushTable DEF MemTables
  <2>4. DOMAIN MemTables = 1..Len(MemTables)
    BY <1>5, TableBasics
  <2>5. \A i \in DOMAIN MemTables : i \in DOMAIN AllTables /\ MemTables[i] = AllTables[i]
    BY <1>s, TablesAmong
  <2>6. DOMAIN AllTables = 1..Len(AllTables) /\ Len(AllTables) \in Nat
    BY <1>5, TableBasics
  <2> QED
    BY <2>2, <2>3, <2>4, <2>5, <2>6
<1> DEFINE E(i) == Eligible(MemTables[i], k, c, Skipped(TRUE))
<1>7. ASSUME NEW i \in DOMAIN MemTables PROVE E(i) = Versions(AllTables[i], k, c)
  <2>1. \A r \in Versions(MemTables[i], k, c) : r.ver \notin Skipped(TRUE)
    <3> SUFFICES ASSUME NEW r \in MemTables[i] PROVE r.ver \notin Skipped(TRUE)
      BY DEF Versions
    <3>1. r.ver \in committed
      BY <1>6 DEF OneRecord, AllCommitted
    <3> QED
      BY <1>s, <3>1, NothingSkipped DEF Skipped
  <2>2. E(i) = Versions(MemTables[i], k, c)
    BY <2>1 DEF Eligible
  <2> HIDE DEF E
  <2> QED
    BY <1>6, <2>2
<1>8. /\ DrawnFrom(best, From(AllTables, 1, k, c))
      /\ \A i \in DOMAIN MemTables : \A x \in Versions(AllTables[i], k, c) : x.ver <= best.ver
  <2>1. \/ (\A i \in DOMAIN MemTables : E(i) = {}) /\ best = None
        \/ \E i \in DOMAIN MemTables : \E r \in E(i) :
             /\ best = Result(r)
             /\ \A j \in DOMAIN MemTables : \A x \in E(j) : x.ver <= r.ver
    BY <1>3, <1>5, LookupAllFacts
  <2> HIDE DEF E
  <2>2. CASE (\A i \in DOMAIN MemTables : E(i) = {}) /\ best = None
    BY <1>7, <2>2 DEF DrawnFrom
  <2>3. CASE \E i \in DOMAIN MemTables : \E r \in E(i) :
             /\ best = Result(r)
             /\ \A j \in DOMAIN MemTables : \A x \in E(j) : x.ver <= r.ver
    <3>1. PICK i \in DOMAIN MemTables : \E r \in E(i) :
             /\ best = Result(r)
             /\ \A j \in DOMAIN MemTables : \A x \in E(j) : x.ver <= r.ver
      BY <2>3
    <3>2. PICK r \in E(i) :
             /\ best = Result(r)
             /\ \A j \in DOMAIN MemTables : \A x \in E(j) : x.ver <= r.ver
      BY <3>1
    <3>3. i \in DOMAIN AllTables /\ i >= 1 /\ r \in Versions(AllTables[i], k, c)
      BY <1>6, <1>7, <3>2
    <3>4. r \in From(AllTables, 1, k, c)
      BY <3>3, FromMembers
    <3>5. best.ver = r.ver
      BY <3>2 DEF Result
    <3> QED
      BY <1>7, <3>2, <3>4, <3>5 DEF DrawnFrom
  <2> QED
    BY <2>1, <2>2, <2>3
<1>9. best \in Answers /\ best.ver \in Nat
  <2>1. best \in Answers
    BY <1>3, <1>5, LookupType
  <2> QED
    BY <2>1, MaxIdAssumption DEF Answers, None, Tx
<1>10. ASSUME NEW j \in 1..(Len(frozen) + 2), NEW a \in Answers,
              TopOf(a, best, From(AllTables, j, k, c))
       PROVE  TopOf(a, best, From(AllTables, 1, k, c))
  <2>1. a.ver \in Nat /\ best.ver <= a.ver
    <3>1. a.ver \in Nat
      BY MaxIdAssumption DEF Answers, None, Tx
    <3> QED
      BY <1>10, <3>1 DEF TopOf
  <2>2. ASSUME NEW r \in From(AllTables, 1, k, c) PROVE r.ver <= a.ver
    <3>1. PICK i \in DOMAIN AllTables : i >= 1 /\ r \in Versions(AllTables[i], k, c)
      BY FromMembers
    <3>2. CASE i >= j
      <4>1. r \in From(AllTables, j, k, c)
        BY <3>1, <3>2, FromMembers
      <4> QED
        BY <1>10, <4>1 DEF TopOf
    <3>3. CASE ~(i >= j)
      <4>1. i \in DOMAIN MemTables
        BY <1>6, <3>1, <3>3
      <4>2. r.ver <= best.ver
        BY <1>8, <3>1, <4>1
      <4>3. r.ver \in Nat
        <5>1. AllTables[i] \subseteq Recs
          BY <1>5, TableBasics
        <5>2. r \in Recs
          BY <3>1, <5>1 DEF Versions
        <5> QED
          BY <5>2 DEF Recs, Tx
      <4> QED
        BY <1>9, <2>1, <4>2, <4>3
    <3> QED
      BY <3>2, <3>3
  <2>3. a = best \/ \E r \in From(AllTables, 1, k, c) : a = Result(r)
    <3>1. \A r \in From(AllTables, j, k, c) : r \in From(AllTables, 1, k, c)
      <4>1. \A i \in DOMAIN AllTables : i >= j => i >= 1
        BY <1>6
      <4> QED
        BY <4>1, FromMembers
    <3> QED
      BY <1>10, <3>1 DEF TopOf
  <2> QED
    BY <2>1, <2>2, <2>3 DEF TopOf
<1>11. ASSUME NEW j \in 1..(Len(frozen) + 2), NEW a \in Answers,
              TopOf(a, best, From(AllTables, j, k, c))
       PROVE  Shown(a) \in rd'[t].ideal
  <2>1. TopOf(a, best, From(AllTables, 1, k, c))
    BY <1>10, <1>11
  <2>2. /\ \A i \in DOMAIN AllTables : \A r \in AllTables[i] : r.ver \in committed
        /\ \A i, m \in DOMAIN AllTables : \A r \in AllTables[i], s \in AllTables[m] :
              r.key = s.key /\ r.ver = s.ver => r = s
    BY DEF OneRecord, AllCommitted
  <2>3. Shown(a) = CommittedView(AllTables, committed, k, c)
    BY <1>5, <1>8, <2>1, <2>2, ViewIsTop
  <2> QED
    BY <1>4, <2>3
<1> QED
  BY <1>t, <1>2, <1>4, <1>8, <1>11 DEF MemReadOk

\* When the read takes ssts_mtx no table is between memtable and SSTs, so the
\* SSTs are what lies behind the boundary.
LEMMA ReadSstsOk ==
    ASSUME TInv, OneRecord, [TNext]_tvars, NEW t \in Tx, ReadSsts(t), MemReadOk(t)
    PROVE  SstReadOk(t)'
<1>s. Shapes /\ TableShapes /\ FlushShape /\ RdShape
  BY DEF TInv, Shapes
<1>1. PICK k : k = rd[t].key
  OBVIOUS
<1>2. PICK c : c = Cap(t)
  OBVIOUS
<1>3. /\ rd[t].ph = "mem" /\ flush.ph = "idle" /\ rd'[t].best = rd[t].best
      /\ rd'[t].ideal = rd[t].ideal
      /\ \A i \in DOMAIN rd'[t].todo : \E j \in DOMAIN ssts :
           rd'[t].todo[i] = Versions(ssts[j], k, c)
      /\ \A j \in DOMAIN ssts : Versions(ssts[j], k, c) # {} =>
           \E i \in DOMAIN rd'[t].todo : rd'[t].todo[i] = Versions(ssts[j], k, c)
  BY <1>s, <1>1, <1>2, ReadSstsFields
<1>4. /\ Len(frozen) \in Nat /\ Len(ssts) \in Nat /\ Unflushed = 1 + Len(frozen)
      /\ DOMAIN AllTables = 1..(Unflushed + Len(ssts))
      /\ DOMAIN ssts = 1..Len(ssts)
      /\ \A i \in 1..Len(ssts) : AllTables[Unflushed + i] = ssts[i]
  <2>1. Layout /\ ssts \in Tables
    BY <1>s, AllTablesAt DEF TableShapes
  <2>2. Built = 0
    BY <1>3 DEF Built
  <2>3. /\ Len(frozen) \in Nat /\ Len(ssts) \in Nat /\ Unflushed = 1 + Len(frozen) + Built
        /\ DOMAIN AllTables = 1..Len(AllTables)
        /\ Len(AllTables) = 1 + Len(frozen) + Built + Len(ssts)
    BY <2>1 DEF Layout
  <2>4. \A i \in 1..Len(ssts) : AllTables[Unflushed + i] = ssts[i]
    BY <2>1 DEF Layout
  <2>5. DOMAIN ssts = 1..Len(ssts)
    BY <2>1, TableBasics
  <2> QED
    BY <2>2, <2>3, <2>4, <2>5
<1> DEFINE S == UNION Range(rd'[t].todo)
           F == From(AllTables, Len(frozen) + 2, k, c)
<1>5. \A r \in S : r \in F
  <2> SUFFICES ASSUME NEW r \in S PROVE r \in F
    OBVIOUS
  <2>1. PICK i \in DOMAIN rd'[t].todo : r \in rd'[t].todo[i]
    BY DEF Range
  <2>2. PICK j \in DOMAIN ssts : r \in Versions(ssts[j], k, c)
    BY <1>3, <2>1
  <2>3. /\ Unflushed + j \in DOMAIN AllTables /\ Unflushed + j >= Len(frozen) + 2
        /\ AllTables[Unflushed + j] = ssts[j]
    <3>1. j \in 1..Len(ssts)
      BY <1>4
    <3>2. Unflushed + j \in 1..(Unflushed + Len(ssts)) /\ Unflushed + j >= Len(frozen) + 2
      <4> HIDE DEF S, F
      <4> QED
        BY <1>4, <3>1
    <3> QED
      BY <1>4, <3>1, <3>2
  <2> QED
    BY <2>2, <2>3, FromMembers
<1>6. \A r \in F : r \in S
  <2> SUFFICES ASSUME NEW r \in F PROVE r \in S
    OBVIOUS
  <2>1. PICK i \in DOMAIN AllTables : i >= Len(frozen) + 2 /\ r \in Versions(AllTables[i], k, c)
    BY FromMembers
  <2>2. PICK j \in 1..Len(ssts) : i = Unflushed + j
    <3>1. i - Unflushed \in 1..Len(ssts) /\ i = Unflushed + (i - Unflushed)
      BY <1>4, <2>1
    <3> QED
      BY <3>1
  <2>3. j \in DOMAIN ssts /\ r \in Versions(ssts[j], k, c)
    BY <1>4, <2>1, <2>2
  <2>4. PICK m \in DOMAIN rd'[t].todo : rd'[t].todo[m] = Versions(ssts[j], k, c)
    BY <1>3, <2>3
  <2> QED
    BY <2>3, <2>4 DEF Range
<1>7. S = F
  <2> HIDE DEF S, F
  <2> QED
    BY <1>5, <1>6
<1>8. \A a \in Answers : TopOf(a, rd[t].best, F) => Shown(a) \in rd[t].ideal
  <2>1. Len(frozen) + 2 \in 1..(Len(frozen) + 2)
    BY <1>4
  <2> QED
    BY <1>1, <1>2, <2>1 DEF MemReadOk
<1>9. \A i \in DOMAIN rd'[t].todo : \A r \in rd'[t].todo[i] : r.ver \in committed
  <2> SUFFICES ASSUME NEW i \in DOMAIN rd'[t].todo, NEW r \in rd'[t].todo[i]
               PROVE  r.ver \in committed
    OBVIOUS
  <2>1. PICK j \in DOMAIN ssts : r \in ssts[j]
    BY <1>3 DEF Versions
  <2>2. Unflushed + j \in DOMAIN AllTables /\ r \in AllTables[Unflushed + j]
    BY <1>s, <2>1, TablesAmong
  <2> QED
    BY <2>2 DEF OneRecord, AllCommitted
<1>10. committed' = committed
  <2>1. UNCHANGED vars
    BY ReadFrame
  <2> QED
    BY <2>1, ManagerFrame
<1> QED
  BY <1>3, <1>7, <1>8, <1>9, <1>10 DEF SstReadOk

\* The next version of an SST becomes the answer if it is larger, and the
\* smaller ones of its table cannot.
LEMMA ReadVersionOk ==
    ASSUME AllStage, TInv, [TNext]_tvars, NEW t \in Tx, ReadVersion(t), SstReadOk(t)
    PROVE  SstReadOk(t)'
<1>s. Shapes /\ RdShape /\ ReadInv /\ CtxInv /\ CtxShape
  BY DEF TInv, Shapes
<1>1. PICK r \in Recs :
        /\ rd'[t].ideal = rd[t].ideal
        /\ \A i \in DOMAIN rd'[t].todo : \E j \in DOMAIN rd[t].todo :
             rd'[t].todo[i] \subseteq rd[t].todo[j]
        /\ rd[t].todo \in Tables /\ 1 \in DOMAIN rd[t].todo
        /\ r \in rd[t].todo[1] /\ \A x \in rd[t].todo[1] : x.ver <= r.ver
        /\ ~ShouldSkipRead(r.ver, Strict(t)) =>
             /\ rd'[t].best = Better(rd[t].best, Result(r))
             /\ \A j \in DOMAIN rd[t].todo : j # 1 /\ rd[t].todo[j] # {} =>
                  \E i \in DOMAIN rd'[t].todo : rd'[t].todo[i] = rd[t].todo[j]
  BY <1>s, ReadVersionFields
<1>2. Strict(t) = TRUE
  BY <1>s, StagesAll DEF Strict
<1>3. ~ShouldSkipRead(r.ver, Strict(t))
  BY <1>s, <1>1, <1>2, NothingSkipped DEF SstReadOk
<1>4. /\ rd'[t].best = Better(rd[t].best, Result(r))
      /\ \A j \in DOMAIN rd[t].todo : j # 1 /\ rd[t].todo[j] # {} =>
           \E i \in DOMAIN rd'[t].todo : rd'[t].todo[i] = rd[t].todo[j]
  BY <1>1, <1>3
<1>5. PICK best : best = rd[t].best
  OBVIOUS
<1>6. best.ver \in Nat /\ r.ver \in Nat /\ Result(r).ver = r.ver
  <2>1. rd[t].ph = "sst"
    BY DEF ReadVersion
  <2>2. best \in Answers
    BY <1>s, <1>5, <2>1, ReadParts
  <2> QED
    BY <2>2, MaxIdAssumption DEF Answers, None, Recs, Tx, Result
<1> DEFINE S == UNION Range(rd[t].todo)
           N == UNION Range(rd'[t].todo)
<1>7. \A x \in N : x \in S
  BY <1>1 DEF Range
<1>8. \A x \in S : x \in N \/ x \in rd[t].todo[1]
  BY <1>4 DEF Range
<1>9. r \in S /\ \A x \in S : x.ver \in Nat
  <2>1. r \in S
    BY <1>1 DEF Range
  <2>2. ASSUME NEW x \in S PROVE x.ver \in Nat
    <3>1. PICK i \in DOMAIN rd[t].todo : x \in rd[t].todo[i]
      BY DEF Range
    <3>2. rd[t].todo[i] \subseteq Recs
      BY <1>1, TableBasics
    <3> QED
      BY <3>1, <3>2 DEF Recs, Tx
  <2> QED
    BY <2>1, <2>2
<1> HIDE DEF S, N
<1>10. ASSUME NEW a \in Answers, TopOf(a, Better(best, Result(r)), N) PROVE TopOf(a, best, S)
  <2>1. a.ver \in Nat
    BY MaxIdAssumption DEF Answers, None, Tx
  <2>2. (Better(best, Result(r)) = best /\ r.ver <= best.ver) \/
          (Better(best, Result(r)) = Result(r) /\ best.ver <= r.ver)
    BY <1>6 DEF Better
  <2>3. best.ver <= a.ver /\ r.ver <= a.ver
    BY <1>6, <1>10, <2>1, <2>2 DEF TopOf
  <2>4. ASSUME NEW x \in S PROVE x.ver <= a.ver
    <3>1. CASE x \in N
      BY <1>10, <3>1 DEF TopOf
    <3>2. CASE x \in rd[t].todo[1]
      BY <1>1, <1>6, <1>9, <2>1, <2>3, <3>2
    <3> QED
      BY <1>8, <3>1, <3>2
  <2>5. a = best \/ \E x \in S : a = Result(x)
    BY <1>7, <1>9, <1>10, <2>2 DEF TopOf
  <2> QED
    BY <2>3, <2>4, <2>5 DEF TopOf
<1>11. \A a \in Answers : TopOf(a, rd'[t].best, N) => Shown(a) \in rd'[t].ideal
  BY <1>1, <1>4, <1>5, <1>10 DEF SstReadOk, S
<1>12. \A i \in DOMAIN rd'[t].todo : \A x \in rd'[t].todo[i] : x.ver \in committed
  BY <1>1 DEF SstReadOk
<1>13. committed' = committed
  <2>1. UNCHANGED vars
    BY ReadFrame
  <2> QED
    BY <2>1, ManagerFrame
<1> QED
  BY <1>11, <1>12, <1>13 DEF SstReadOk, N

\* What a commit changes of a read.
LEMMA CommitReadKept ==
    ASSUME TypeOK, Shapes, NEW u \in Tx, CommitApply(u), NEW t \in Tx
    PROVE  /\ rd'[t].ph = rd[t].ph
           /\ rd[t].ph # "none" => /\ rd'[t].todo = rd[t].todo /\ rd'[t].best = rd[t].best
                                   /\ rd[t].ideal \subseteq rd'[t].ideal
<1>1. /\ rd'[t].ph = rd[t].ph
      /\ rd[t].ph # "none" => rd'[t].todo = rd[t].todo /\ rd'[t].best = rd[t].best
  BY CommitReads DEF Shapes
<1>2. rd[t].ph # "none" => rd[t].ideal \subseteq rd'[t].ideal
  BY CommitReadFields
<1> QED
  BY <1>1, <1>2

\* Of the steps that store nothing, only its own change a read.
LEMMA OwnReads ==
    ASSUME TypeOK, Shapes, ReadInv, [TNext]_tvars, ~Stores, NEW t \in Tx
    PROVE  \/ rd'[t] = rd[t]
           \/ \E k \in Keys : ReadMem(t, k)
           \/ ReadSsts(t) \/ ReadVersion(t) \/ ReadReturn(t)
<1>s. RdShape /\ TableShapes /\ FlushShape
  BY DEF Shapes
<1>1. ASSUME NEW u \in Tx, NEW k \in Keys, ReadMem(u, k) PROVE u # t => rd'[t] = rd[t]
  <2>1. OtherReads(u)
    BY <1>s, <1>1, ReadMemFields
  <2> QED
    BY <2>1 DEF OtherReads
<1>2. ASSUME NEW u \in Tx, ReadSsts(u) PROVE u # t => rd'[t] = rd[t]
  <2>1. OtherReads(u)
    BY <1>s, <1>2, ReadSstsFields
  <2> QED
    BY <2>1 DEF OtherReads
<1>3. ASSUME NEW u \in Tx, ReadVersion(u) PROVE u # t => rd'[t] = rd[t]
  <2>1. OtherReads(u)
    BY <1>s, <1>3, ReadVersionFields
  <2> QED
    BY <2>1 DEF OtherReads
<1>4. ASSUME NEW u \in Tx, ReadReturn(u) PROVE u # t => rd'[t] = rd[t]
  BY <1>s, <1>4 DEF ReadReturn, RdShape
<1>5. ASSUME NEW u \in Tx,
             \/ \E k \in Keys, v \in Vals : StageWrite(u, k, v) \/ LogWrite(u, k, v)
             \/ CommitConflict(u) \/ CommitLog(u) \/ Abort(u)
      PROVE  rd' = rd
  BY <1>5, WriteFrame, EndFrame
<1>6. CASE (\E level \in Levels : Begin(level)) \/ FlushLock \/ FlushStep \/ UNCHANGED tvars
  BY <1>6, BeginFrame, FlushFrame, TvarsFrame
<1> QED
  BY <1>1, <1>2, <1>3, <1>4, <1>5, <1>6 DEF TNext, Stores

\* Every step keeps every read atomic.
LEMMA AtomicInvStep ==
    AllStage /\ TInv /\ TInv' /\ OneRecord /\ OneRecord' /\ AtomicInv /\ [TNext]_tvars
      => AtomicInv'
<1> SUFFICES ASSUME AllStage, TInv, TInv', OneRecord, OneRecord', AtomicInv, [TNext]_tvars,
                    NEW t \in Tx
             PROVE  /\ rd'[t].ph = "mem" => MemReadOk(t)'
                    /\ rd'[t].ph = "sst" => SstReadOk(t)'
  BY DEF AtomicInv
<1>s. TypeOK /\ Shapes /\ ReadInv /\ CtxInv /\ OpsInv /\ CtxShape /\ RdShape
      /\ TableShapes /\ FlushShape
  BY DEF TInv, IInv, Shapes
<1>i. (rd[t].ph = "mem" => MemReadOk(t)) /\ (rd[t].ph = "sst" => SstReadOk(t))
  BY DEF AtomicInv
<1>0. \A u \in Tx : ~ApplyWrite(u)
  <2> SUFFICES ASSUME NEW u \in Tx, ApplyWrite(u) PROVE FALSE
    OBVIOUS
  <2>1. ctx[u].pc = "writing"
    BY DEF ApplyWrite
  <2>2. ctx[u].level = "RU"
    BY <1>s, <2>1 DEF OpsInv, OpsOk
  <2> QED
    BY <1>s, <2>2, StagesAll DEF Strict
<1>1. ASSUME NEW u \in Tx, CommitApply(u)
      PROVE  /\ rd'[t].ph = "mem" => MemReadOk(t)'
             /\ rd'[t].ph = "sst" => SstReadOk(t)'
  <2>1. /\ rd'[t].ph = rd[t].ph
        /\ rd[t].ph # "none" => /\ rd'[t].todo = rd[t].todo /\ rd'[t].best = rd[t].best
                                /\ rd[t].ideal \subseteq rd'[t].ideal
    BY <1>s, <1>1, CommitReadKept
  <2>2. rd'[t].ph = "mem" => MemReadOk(t)'
    BY <1>i, <1>1, <2>1, MemReadCommit
  <2>3. rd'[t].ph = "sst" => SstReadOk(t)'
    BY <1>i, <2>1, SstReadKept
  <2> QED
    BY <2>2, <2>3
<1>2. ASSUME ~Stores
      PROVE  /\ rd'[t].ph = "mem" => MemReadOk(t)'
             /\ rd'[t].ph = "sst" => SstReadOk(t)'
  <2>1. ASSUME rd'[t] = rd[t]
        PROVE  /\ rd'[t].ph = "mem" => MemReadOk(t)'
               /\ rd'[t].ph = "sst" => SstReadOk(t)'
    <3>1. rd'[t].ph = "mem" => MemReadOk(t)'
      BY <1>i, <1>2, <2>1, MemReadQuiet
    <3>2. rd'[t].ph = "sst" => SstReadOk(t)'
      BY <1>i, <2>1, SstReadKept
    <3> QED
      BY <3>1, <3>2
  <2>2. ASSUME NEW k \in Keys, ReadMem(t, k)
        PROVE  rd'[t].ph = "mem" /\ MemReadOk(t)'
    BY <1>s, <2>2, ReadMemFields, ReadMemOk
  <2>3. ASSUME ReadSsts(t) PROVE rd'[t].ph = "sst" /\ SstReadOk(t)'
    <3>1. rd[t].ph = "mem" /\ rd'[t].ph = "sst"
      BY <1>s, <2>3, ReadSstsFields
    <3> QED
      BY <1>i, <2>3, <3>1, ReadSstsOk
  <2>4. ASSUME ReadVersion(t) PROVE rd'[t].ph = "sst" /\ SstReadOk(t)'
    <3>1. rd[t].ph = "sst" /\ rd'[t].ph = "sst"
      BY <1>s, <2>4, ReadVersionFields
    <3> QED
      BY <1>i, <2>4, <3>1, ReadVersionOk
  <2>5. ASSUME ReadReturn(t) PROVE rd'[t].ph = "none"
    BY <1>s, <2>5 DEF ReadReturn, RdShape, NoRead
  <2> QED
    BY <1>s, <1>2, <2>1, <2>2, <2>3, <2>4, <2>5, OwnReads
<1> QED
  BY <1>0, <1>1, <1>2 DEF Stores

\* The invariant of reads holds.
THEOREM AtomicInvariance ==
    ASSUME AllStage PROVE TSpec => [](TInv /\ OneRecord /\ AtomicInv)
<1>1. TInit => OneRecord /\ AtomicInv
  <2> SUFFICES ASSUME TInit PROVE OneRecord /\ AtomicInv
    OBVIOUS
  <2>1. DOMAIN AllTables = {1} /\ AllTables[1] = {}
    BY InitTables
  <2>2. \A t \in Tx : rd[t] = NoRead
    BY DEF TInit
  <2> QED
    BY <2>1, <2>2 DEF OneRecord, AllCommitted, AtomicInv, NoRead
<1>2. (TInv /\ OneRecord /\ AtomicInv) /\ [TNext]_tvars
        => (TInv /\ OneRecord /\ AtomicInv)'
  BY TNextInv, OneRecordStep, AtomicInvStep
<1> QED
  BY <1>1, <1>2, TInitInv, PTL DEF TSpec

\* LSMEngine::get searches the memtable and the SSTs under different locks:
\* when every writer stages its writes, what it returns is nevertheless the
\* newest committed version within the cap at one instant between its start and
\* its return, whatever is committed, frozen or flushed in between.
THEOREM ReadsAtomic == ASSUME AllStage PROVE TSpec => []AtomicRead
<1>1. TInv /\ AtomicInv => AtomicRead
  <2> SUFFICES ASSUME TInv, AtomicInv, NEW t \in Tx, rd[t].ph = "sst", rd[t].todo = <<>>
               PROVE  Shown(rd[t].best) \in rd[t].ideal
    BY DEF AtomicRead, Returning
  <2>1. rd[t].best \in Answers
    BY ReadParts DEF TInv, Shapes
  <2>2. UNION Range(rd[t].todo) = {}
    BY DEF Range
  <2>3. rd[t].best.ver <= rd[t].best.ver
    <3>1. rd[t].best.ver \in Nat
      BY <2>1, MaxIdAssumption DEF Answers, None, Tx
    <3> QED
      BY <3>1
  <2>4. TopOf(rd[t].best, rd[t].best, UNION Range(rd[t].todo))
    BY <2>2, <2>3 DEF TopOf
  <2> QED
    BY <2>1, <2>4 DEF AtomicInv, SstReadOk
<1> QED
  BY <1>1, AtomicInvariance, PTL

-----------------------------------------------------------------------------
(* The refinement: the five variables of TxnMap as Transactions sets them.  *)

View(k) == CommittedView(AllTables, committed, k, 0)
mStore == [k \in Keys |-> View(k)]
mStatus == [t \in Tx |-> CASE ctx[t].pc = "none" -> "idle"
                           [] ctx[t].pc \in {"committed", "aborted"} -> ctx[t].pc
                           [] OTHER -> "active"]
mValidates == [t \in Tx |-> ctx[t].level = "SER"]
mStaged == [t \in Tx |-> IF t \in activeTrans THEN ctx[t].temp ELSE NoContext.temp]
mSeen == [t \in Tx |-> IF t \in activeTrans THEN ctx[t].seen ELSE NoContext.seen]

\* A step that changes none of them is a stuttering step of the map.
LEMMA MapStutter ==
    ASSUME UNCHANGED <<mStore, mStatus, mValidates, mStaged, mSeen>>
    PROVE  UNCHANGED Map!mapVars
BY DEF Map!mapVars, mStore, mStatus, mValidates, mStaged, mSeen, View

\* new_tranc starts a transaction of the map.
LEMMA MapStart ==
    ASSUME NEW t \in Tx, mStatus[t] = "idle", mStatus' = [mStatus EXCEPT ![t] = "active"],
           NEW b \in BOOLEAN, mValidates' = [mValidates EXCEPT ![t] = b],
           UNCHANGED <<mStore, mStaged, mSeen>>
    PROVE  Map!MapNext
<1>1. Map!Start(t)
  BY DEF Map!Start, mStore, mStatus, mValidates, mStaged, mSeen, View
<1> QED
  BY <1>1 DEF Map!MapNext

\* put and remove stage a value in the map.
LEMMA MapStage ==
    ASSUME NEW t \in Tx, NEW k \in Keys, NEW v \in Vals, mStatus[t] = "active",
           mStaged' = [mStaged EXCEPT ![t][k] = v],
           UNCHANGED <<mStore, mStatus, mValidates, mSeen>>
    PROVE  Map!MapNext
<1>1. Map!Stage(t, k)
  BY DEF Map!Stage, mStore, mStatus, mValidates, mStaged, mSeen, View, Vals
<1> QED
  BY <1>1 DEF Map!MapNext

\* The first read of a key by a transaction with repeated reads observes it.
LEMMA MapObserve ==
    ASSUME NEW t \in Tx, NEW k \in Keys, mStatus[t] = "active", mSeen[t][k] = Unset,
           NEW ver \in {0} \cup Tx,
           mSeen' = [mSeen EXCEPT ![t][k] = IF ver = 0 THEN None
                                            ELSE [ver |-> ver, val |-> "val"]],
           UNCHANGED <<mStore, mStatus, mValidates, mStaged>>
    PROVE  Map!MapNext
<1>1. Map!Unseen[k] = Unset /\ Map!Missing = None
  BY DEF Map!Unseen, Map!Missing, Unset, None
<1>2. Map!Observe(t, k)
  BY <1>1 DEF Map!Observe, mStore, mStatus, mValidates, mStaged, mSeen, View
<1> QED
  BY <1>2 DEF Map!MapNext

\* abort and a conflict withdraw a transaction of the map.
LEMMA MapWithdraw ==
    ASSUME NEW t \in Tx, mStatus[t] = "active",
           mStatus' = [mStatus EXCEPT ![t] = "aborted"],
           mStaged' = [mStaged EXCEPT ![t] = NoContext.temp],
           mSeen' = [mSeen EXCEPT ![t] = NoContext.seen],
           UNCHANGED <<mStore, mValidates>>
    PROVE  Map!MapNext
<1>1. Map!Nothing = NoContext.temp /\ Map!Unseen = NoContext.seen
  BY DEF Map!Nothing, Map!Unseen, Unset, NoContext
<1> HIDE DEF NoContext
<1>2. Map!Withdraw(t)
  BY <1>1 DEF Map!Withdraw, Map!Finish, mStore, mStatus, mValidates, mStaged, mSeen, View
<1> QED
  BY <1>2 DEF Map!MapNext

\* commit publishes it.
LEMMA MapPublish ==
    ASSUME NEW t \in Tx, mStatus[t] = "active",
           mStatus' = [mStatus EXCEPT ![t] = "committed"],
           mStaged' = [mStaged EXCEPT ![t] = NoContext.temp],
           mSeen' = [mSeen EXCEPT ![t] = NoContext.seen],
           UNCHANGED mValidates,
           mValidates[t] => \A k \in Keys : mSeen[t][k] \in {Unset, mStore[k]},
           mStore' = [k \in Keys |-> CASE mStaged[t][k] = "unset" -> mStore[k]
                                       [] mStaged[t][k] = "del" -> None
                                       [] mStaged[t][k] = "val" -> [ver |-> t, val |-> "val"]]
    PROVE  Map!MapNext
<1>1. /\ Map!Nothing = NoContext.temp /\ Map!Unseen = NoContext.seen
      /\ Map!Missing = None /\ \A k \in Keys : Map!Unseen[k] = Unset
  BY DEF Map!Nothing, Map!Unseen, Map!Missing, None, Unset, NoContext
<1> HIDE DEF NoContext
<1>2. Map!Finish(t, "committed")
  BY <1>1 DEF Map!Finish, mStatus, mValidates, mStaged, mSeen
<1>3. Map!Publish(t)
  <2>1. mValidates[t] => \A k \in Keys : mSeen[t][k] \in {Map!Unseen[k], mStore[k]}
    BY <1>1
  <2>2. mStore' = [k \in Keys |-> CASE mStaged[t][k] = "unset" -> mStore[k]
                                    [] mStaged[t][k] = "del" -> Map!Missing
                                    [] mStaged[t][k] = "val" -> [ver |-> t, val |-> "val"]]
    BY DEF Map!Missing, None
  <2> QED
    BY <1>2, <2>1, <2>2 DEF Map!Publish, mStore, mValidates, mStaged, mSeen, View
<1> QED
  BY <1>3 DEF Map!MapNext

-----------------------------------------------------------------------------
(* The store of the map.                                                    *)

\* Tables whose records are unique and of the commits com.
UniqueIn(tables, com) ==
    /\ tables \in Tables
    /\ \A i \in DOMAIN tables : \A r \in tables[i] : r.ver \in com
    /\ \A i, j \in DOMAIN tables : \A r \in tables[i], s \in tables[j] :
          r.key = s.key /\ r.ver = s.ver => r = s

\* The tables of the engine are such.
LEMMA UniqueNow == TInv /\ OneRecord => UniqueIn(AllTables, committed)
<1> SUFFICES ASSUME TInv, OneRecord PROVE UniqueIn(AllTables, committed)
  OBVIOUS
<1>1. AllTables \in Tables
  BY AllTablesShape DEF TInv, Shapes
<1> QED
  BY <1>1 DEF UniqueIn, OneRecord, AllCommitted

\* There is a largest version among those of a key, or none at all.
LEMMA TopExists ==
    ASSUME NEW tables \in Tables, NEW k, NEW cap
    PROVE  \E a \in Answers : TopOf(a, None, From(tables, 1, k, cap))
<1> DEFINE V == From(tables, 1, k, cap)
           E(i) == Eligible(tables[i], k, cap, {})
           found == LookupAll(tables, k, cap, {})
<1>1. found \in Answers
  BY LookupType
<1>2. \A i \in DOMAIN tables : E(i) = Versions(tables[i], k, cap)
  BY DEF Eligible
<1>3. \/ (\A i \in DOMAIN tables : E(i) = {}) /\ found = None
      \/ \E i \in DOMAIN tables : \E r \in E(i) :
           /\ found = Result(r)
           /\ \A j \in DOMAIN tables : \A x \in E(j) : x.ver <= r.ver
  BY LookupAllFacts
<1>4. \A i \in DOMAIN tables : i \in Nat /\ i >= 1 /\ tables[i] \subseteq Recs
  <2>1. DOMAIN tables = 1..Len(tables) /\ Len(tables) \in Nat
    BY TableBasics
  <2>2. \A i \in DOMAIN tables : tables[i] \subseteq Recs
    BY TableBasics
  <2> QED
    BY <2>1, <2>2
<1>5. \A r : r \in V <=> \E i \in DOMAIN tables : r \in E(i)
  BY <1>2, <1>4, FromMembers
<1> HIDE DEF V, E, found
<1>6. CASE (\A i \in DOMAIN tables : E(i) = {}) /\ found = None
  <2>1. V = {}
    BY <1>5, <1>6
  <2>2. TopOf(None, None, V)
    BY <2>1 DEF TopOf, None
  <2> QED
    BY <1>1, <1>6, <2>2 DEF V
<1>7. CASE \E i \in DOMAIN tables : \E r \in E(i) :
           /\ found = Result(r)
           /\ \A j \in DOMAIN tables : \A x \in E(j) : x.ver <= r.ver
  <2>1. PICK r \in V : found = Result(r) /\ \A x \in V : x.ver <= r.ver
    BY <1>5, <1>7
  <2>2. r \in Recs
    BY <1>2, <1>4, <1>5 DEF Versions
  <2>3. found.ver = r.ver /\ None.ver <= r.ver
    BY <2>1, <2>2 DEF Result, None, Recs, Tx
  <2>4. TopOf(found, None, V)
    BY <2>1, <2>3 DEF TopOf
  <2> QED
    BY <1>1, <2>4 DEF V
<1> QED
  BY <1>3, <1>6, <1>7

\* The view of a key is Shown of the largest version, whatever the tables.
LEMMA ViewOfTop ==
    ASSUME NEW tables, NEW com, UniqueIn(tables, com), NEW k \in Keys, NEW cap,
           NEW a, TopOf(a, None, From(tables, 1, k, cap))
    PROVE  CommittedView(tables, com, k, cap) = Shown(a)
<1>1. DrawnFrom(None, From(tables, 1, k, cap))
  BY DEF DrawnFrom
<1>2. /\ tables \in Tables
      /\ \A i \in DOMAIN tables : \A r \in tables[i] : r.ver \in com
      /\ \A i, j \in DOMAIN tables : \A r \in tables[i], s \in tables[j] :
          r.key = s.key /\ r.ver = s.ver => r = s
  BY DEF UniqueIn
<1> QED
  BY <1>1, <1>2, ViewIsTop

\* Moving tables changes no view.
LEMMA ViewKept ==
    ASSUME TInv, TInv', OneRecord, OneRecord', [TNext]_tvars, ~Stores, NEW k \in Keys
    PROVE  View(k)' = View(k)
<1>s. /\ TypeOK /\ Shapes /\ LockInv /\ OpsInv
      /\ TableShapes /\ FlushShape /\ TableShapes' /\ FlushShape'
  BY DEF TInv, IInv, Shapes
<1>1. PICK d \in {0, 1} : TableMove(cur, d)
  BY <1>s, QuietMove
<1>2. AllTables[1] = cur /\ AllTables \in Tables
  BY <1>s, AllTablesAt DEF Layout
<1>3. From(AllTables', 1, k, 0) = From(AllTables, 1, k, 0)
  <2>1. 1 \in 1..(1 + d)
    OBVIOUS
  <2> QED
    BY <1>s, <1>1, <1>2, <2>1, CutWhole
<1>4. PICK a \in Answers : TopOf(a, None, From(AllTables, 1, k, 0))
  BY <1>2, TopExists
<1>5. UniqueIn(AllTables, committed)
  BY UniqueNow
<1>6. UniqueIn(AllTables, committed)'
  BY UniqueNow, PTL
<1>7. CommittedView(AllTables, committed, k, 0) = Shown(a)
  BY <1>4, <1>5, ViewOfTop
<1>8. CommittedView(AllTables', committed', k, 0) = Shown(a)
  <2>1. PICK X : X = AllTables'
    OBVIOUS
  <2>2. PICK com : com = committed'
    OBVIOUS
  <2>3. UniqueIn(X, com)
    BY <1>6, <2>1, <2>2 DEF UniqueIn
  <2>4. TopOf(a, None, From(X, 1, k, 0))
    BY <1>3, <1>4, <2>1
  <2>5. CommittedView(X, com, k, 0) = Shown(a)
    BY <2>3, <2>4, ViewOfTop
  <2> QED
    BY <2>1, <2>2, <2>5
<1>9. View(k)' = CommittedView(AllTables', committed', k, 0)
  BY DEF View
<1> QED
  BY <1>7, <1>8, <1>9 DEF View

\* What validation found still holds while a commit has the locks: no later
\* version of a key it writes, and no other version of a key it read.  A key
\* is read from the engine once.
RefInv ==
    \A t \in Tx :
        /\ ctx[t].pc = "logged" =>
             /\ \A i \in DOMAIN AllTables : \A r \in AllTables[i] :
                  r.key \in Writes(t) => r.ver < t
             /\ ctx[t].level = "SER" =>
                  \A k \in Keys : ctx[t].seen[k] \in {Unset, View(k)}
        /\ rd[t].ph # "none" => ctx[t].seen[rd[t].key] = Unset

\* A commit changes the views of the keys it writes to its own versions, and
\* no other.
LEMMA ViewCommitted ==
    ASSUME TInv, TInv', OneRecord, OneRecord', RefInv, [TNext]_tvars,
           NEW u \in Tx, CommitApply(u), NEW k \in Keys
    PROVE  View(k)' = CASE ctx[u].temp[k] = "unset" -> View(k)
                        [] ctx[u].temp[k] = "del" -> None
                        [] ctx[u].temp[k] = "val" -> [ver |-> u, val |-> "val"]
<1>s. /\ TypeOK /\ Shapes /\ LockInv /\ OpsInv /\ CtxInv /\ CtxShape
      /\ TableShapes /\ FlushShape /\ TableShapes' /\ FlushShape'
  BY DEF TInv, IInv, Shapes
<1> DEFINE X == <<Applied(u)>> \o Tail(AllTables)
           V == From(AllTables, 1, k, 0)
           W == From(AllTables', 1, k, 0)
           n == Rec(k, u, ctx[u].temp[k])
<1>1. PICK d \in {0, 1} : TableMove(Applied(u), d)
  BY <1>s, CommitMove
<1>2. /\ X \in Tables /\ DOMAIN X = DOMAIN AllTables /\ X[1] = Applied(u)
      /\ \A i \in DOMAIN X : i # 1 => X[i] = AllTables[i]
  BY <1>s, CommitTables
<1> HIDE DEF X
<1>3. W = From(X, 1, k, 0)
  <2>1. 1 \in 1..(1 + d)
    OBVIOUS
  <2> QED
    BY <1>s, <1>1, <1>2, <2>1, CutWhole
<1>4. ctx[u].pc = "logged" /\ u \notin committed /\ u \in Nat
  <2>1. ctx[u].pc = "logged"
    BY DEF CommitApply
  <2> QED
    BY <1>s, <2>1 DEF CtxInv, Tx
<1>5. /\ AllTables[1] = cur /\ AllTables \in Tables /\ 1 \in DOMAIN AllTables
      /\ \A i \in DOMAIN AllTables : i >= 1
  <2>1. Layout
    BY <1>s, AllTablesAt
  <2>2. AllTables[1] = cur /\ AllTables \in Tables
    BY <2>1 DEF Layout
  <2>3. /\ DOMAIN AllTables = 1..Len(AllTables) /\ Len(AllTables) >= 1
        /\ Len(AllTables) \in Nat
    BY <2>1 DEF Layout
  <2> QED
    BY <2>2, <2>3
<1>6. \A r : r \in Versions(Applied(u), k, 0) <=>
               r \in Versions(cur, k, 0) \/ (k \in Writes(u) /\ r = n)
  <2>0. \A r \in cur : r.ver # u
    BY <1>4, <1>5 DEF OneRecord, AllCommitted
  <2>1. \A r : r \in Applied(u) <=> \/ r \in cur
                                    \/ \E x \in Writes(u) : r = Rec(x, u, ctx[u].temp[x])
                                    \/ r = Rec("marker", u, "del")
    BY <2>0 DEF Applied
  <2>2. \A x : Rec(x, u, ctx[u].temp[x]).key = x
    BY DEF Rec
  <2>3. Rec("marker", u, "del").key # k
    BY KeysAssumption DEF Rec
  <2>4. \A r, S : r \in Versions(S, k, 0) <=> r \in S /\ r.key = k
    BY DEF Versions
  <2> QED
    BY <2>1, <2>2, <2>3, <2>4
<1>7. \A r : r \in W <=> r \in V \/ (k \in Writes(u) /\ r = n)
  <2>1. \A r : r \in W <=> \E i \in DOMAIN X : r \in Versions(X[i], k, 0)
    BY <1>2, <1>3, <1>5, FromMembers
  <2>2. \A r : r \in V <=> \E i \in DOMAIN AllTables : r \in Versions(AllTables[i], k, 0)
    BY <1>5, FromMembers
  <2> HIDE DEF V, W, n
  <2> QED
    BY <1>2, <1>5, <1>6, <2>1, <2>2
<1>8. UniqueIn(AllTables, committed) /\ UniqueIn(AllTables, committed)'
  BY UniqueNow, PTL
<1>9. ASSUME NEW a, TopOf(a, None, W) PROVE View(k)' = Shown(a)
  <2>1. PICK Y : Y = AllTables'
    OBVIOUS
  <2>2. PICK com : com = committed'
    OBVIOUS
  <2>3. UniqueIn(Y, com)
    BY <1>8, <2>1, <2>2 DEF UniqueIn
  <2>4. TopOf(a, None, From(Y, 1, k, 0))
    BY <1>9, <2>1
  <2>5. CommittedView(Y, com, k, 0) = Shown(a)
    BY <2>3, <2>4, ViewOfTop
  <2> QED
    BY <2>1, <2>2, <2>5 DEF View
<1>10. ctx[u].temp[k] \in {"unset", "val", "del"}
  BY <1>s DEF CtxShape, Contexts, Temps, Vals
<1>11. CASE ctx[u].temp[k] = "unset"
  <2>1. W = V
    <3>1. k \notin Writes(u)
      BY <1>11 DEF Writes
    <3> HIDE DEF V, W
    <3> QED
      BY <1>7, <3>1
  <2>2. PICK a \in Answers : TopOf(a, None, V)
    BY <1>5, TopExists
  <2>3. View(k)' = Shown(a)
    BY <1>9, <2>1, <2>2
  <2>4. View(k) = Shown(a)
    BY <1>8, <2>2, ViewOfTop DEF View
  <2> QED
    BY <1>11, <2>3, <2>4
<1>12. CASE ctx[u].temp[k] # "unset"
  <2>1. k \in Writes(u)
    BY <1>12 DEF Writes
  <2>2. n \in W /\ n.ver = u /\ n.val = ctx[u].temp[k]
    <3>1. n.ver = u /\ n.val = ctx[u].temp[k]
      BY DEF Rec
    <3> HIDE DEF W, V, n
    <3> QED
      BY <1>7, <2>1, <3>1
  <2>3. ASSUME NEW r \in V PROVE r.ver < u
    <3>1. PICK i \in DOMAIN AllTables : r \in Versions(AllTables[i], k, 0)
      BY FromMembers
    <3>2. r \in AllTables[i] /\ r.key = k
      BY <3>1 DEF Versions
    <3> QED
      BY <1>4, <2>1, <3>2 DEF RefInv
  <2>4. \A r \in V : r.ver \in Nat
    <3> SUFFICES ASSUME NEW r \in V PROVE r.ver \in Nat
      OBVIOUS
    <3>1. PICK i \in DOMAIN AllTables : r \in Versions(AllTables[i], k, 0)
      BY FromMembers
    <3>2. AllTables[i] \subseteq Recs
      BY <1>5, TableBasics
    <3>3. r \in Recs
      BY <3>1, <3>2 DEF Versions
    <3> QED
      BY <3>3 DEF Recs, Tx
  <2> HIDE DEF V, W, n
  <2>5. Result(n).ver = u /\ Result(n).val = ctx[u].temp[k]
    BY <2>2 DEF Result
  <2>6. TopOf(Result(n), None, W)
    <3>1. \A r \in W : r.ver <= u
      BY <1>4, <1>7, <2>2, <2>3, <2>4
    <3>2. None.ver <= u
      BY <1>4 DEF None
    <3> QED
      BY <2>2, <2>5, <3>1, <3>2 DEF TopOf
  <2>7. View(k)' = Shown(Result(n))
    BY <1>9, <2>6
  <2>8. Result(n) = [ver |-> u, val |-> ctx[u].temp[k]]
    BY <2>2 DEF Result
  <2>9. ctx[u].temp[k] = "del" => View(k)' = None
    BY <2>5, <2>7 DEF Shown
  <2>10. ctx[u].temp[k] = "val" => View(k)' = [ver |-> u, val |-> "val"]
    BY <2>5, <2>7, <2>8 DEF Shown
  <2> QED
    BY <1>10, <1>12, <2>9, <2>10
<1> QED
  BY <1>11, <1>12

-----------------------------------------------------------------------------
(* The invariant of the refinement.                                         *)

\* With no flush running latest_record answers with the largest version of all.
LEMMA LatestIsTop ==
    ASSUME TInv, OneRecord, flush.ph = "idle", NEW k \in Keys
    PROVE  TopOf(LatestRecord(k), None, From(AllTables, 1, k, 0))
<1>s. Shapes /\ TableShapes /\ FlushShape /\ CtxInv
  BY DEF TInv, Shapes
<1> DEFINE A == MemTables \o ssts
           E(i) == Eligible(A[i], k, 0, Skipped(FALSE))
           V == From(AllTables, 1, k, 0)
<1>1. MemTables \in Tables /\ A \in Tables /\ AllTables \in Tables
  BY <1>s, AllTablesShape
<1>2. A = AllTables
  <2>1. AllTables = (MemTables \o <<>>) \o ssts
    BY DEF AllTables
  <2>2. MemTables \o <<>> = MemTables
    BY <1>1 DEF Tables
  <2> QED
    BY <2>1, <2>2
<1>3. \A i \in DOMAIN A : i >= 1 /\ A[i] \subseteq Recs
  <2>1. DOMAIN A = 1..Len(A) /\ Len(A) \in Nat
    BY <1>1, TableBasics
  <2>2. \A i \in DOMAIN A : A[i] \subseteq Recs
    BY <1>1, TableBasics
  <2> HIDE DEF A
  <2> QED
    BY <2>1, <2>2
<1>4. LatestRecord(k) = LookupAll(A, k, 0, Skipped(FALSE))
  BY DEF LatestRecord
<1> HIDE DEF A
<1>5. ASSUME NEW i \in DOMAIN A PROVE E(i) = Versions(A[i], k, 0)
  <2>1. \A r \in A[i] : r.ver \notin Skipped(FALSE)
    <3> SUFFICES ASSUME NEW r \in A[i] PROVE r.ver \notin Skipped(FALSE)
      OBVIOUS
    <3>1. r.ver \in committed
      BY <1>2 DEF OneRecord, AllCommitted
    <3> QED
      BY <1>s, <3>1, NothingSkipped DEF Skipped, ShouldSkipRead
  <2>2. \A r \in Versions(A[i], k, 0) : r.ver \notin Skipped(FALSE)
    BY <2>1 DEF Versions
  <2> QED
    BY <2>2 DEF Eligible
<1>6. \A r : r \in V <=> \E i \in DOMAIN A : r \in E(i)
  <2>1. \A r : r \in V <=> \E i \in DOMAIN A : r \in Versions(A[i], k, 0)
    BY <1>2, <1>3, FromMembers
  <2> HIDE DEF E, V
  <2> QED
    BY <1>5, <2>1
<1>7. \/ (\A i \in DOMAIN A : E(i) = {}) /\ LatestRecord(k) = None
      \/ \E i \in DOMAIN A : \E r \in E(i) :
           /\ LatestRecord(k) = Result(r)
           /\ \A j \in DOMAIN A : \A x \in E(j) : x.ver <= r.ver
  BY <1>1, <1>4, LookupAllFacts
<1> HIDE DEF V, E
<1>8. CASE (\A i \in DOMAIN A : E(i) = {}) /\ LatestRecord(k) = None
  <2>1. V = {}
    BY <1>6, <1>8
  <2> QED
    BY <1>8, <2>1 DEF TopOf, None, V
<1>9. CASE \E i \in DOMAIN A : \E r \in E(i) :
           /\ LatestRecord(k) = Result(r)
           /\ \A j \in DOMAIN A : \A x \in E(j) : x.ver <= r.ver
  <2>1. PICK r \in V : LatestRecord(k) = Result(r) /\ \A x \in V : x.ver <= r.ver
    BY <1>6, <1>9
  <2>2. r \in Recs
    BY <1>3, <1>5, <1>6 DEF Versions
  <2>3. LatestRecord(k).ver = r.ver /\ None.ver <= r.ver
    BY <2>1, <2>2 DEF Result, None, Recs, Tx
  <2> QED
    BY <2>1, <2>3 DEF TopOf, V
<1> QED
  BY <1>7, <1>8, <1>9

\* Which steps change a context when every writer stages its writes.
LEMMA CtxChange ==
    ASSUME AllStage, TInv, [TNext]_tvars, NEW t \in Tx
    PROVE  \/ ctx'[t] = ctx[t]
           \/ \E level \in Levels : Begin(level) /\ t = nextTransactionId
           \/ \E k \in Keys, v \in Vals : StageWrite(t, k, v)
           \/ ReadReturn(t) \/ CommitConflict(t) \/ CommitLog(t) \/ CommitApply(t) \/ Abort(t)
<1>s. TypeOK /\ CtxShape /\ OpsInv
  BY DEF TInv, IInv, Shapes
<1>1. \A u \in Tx : Strict(u)
  BY <1>s, StagesAll
<1>2. ASSUME NEW level \in Levels, Begin(level) PROVE t # nextTransactionId => ctx'[t] = ctx[t]
  <2>1. Others(nextTransactionId)
    BY <1>s, <1>2, BeginFields
  <2> QED
    BY <2>1 DEF Others
<1>3. ASSUME NEW u \in Tx, NEW k \in Keys, NEW v \in Vals, StageWrite(u, k, v)
      PROVE  t # u => ctx'[t] = ctx[t]
  BY <1>s, <1>3, StageFields DEF Others
<1>4. ASSUME NEW u \in Tx, NEW k \in Keys, NEW v \in Vals, LogWrite(u, k, v) PROVE FALSE
  BY <1>s, <1>1, <1>4, LogWriteFields
<1>5. ASSUME NEW u \in Tx, ApplyWrite(u) PROVE FALSE
  <2>1. ctx[u].pc = "writing"
    BY <1>5 DEF ApplyWrite
  <2> QED
    BY <1>s, <1>1, <2>1 DEF OpsInv, OpsOk, Strict
<1>6. ASSUME NEW u \in Tx, ReadReturn(u) PROVE t # u => ctx'[t] = ctx[t]
  BY <1>s, <1>6, ReturnFields DEF Others
<1>7. ASSUME NEW u \in Tx, CommitConflict(u) PROVE t # u => ctx'[t] = ctx[t]
  BY <1>s, <1>7, ConflictFields DEF Others
<1>8. ASSUME NEW u \in Tx, CommitLog(u) PROVE t # u => ctx'[t] = ctx[t]
  <2>1. Others(u)
    BY <1>s, <1>8, CommitLogFields
  <2> QED
    BY <2>1 DEF Others
<1>9. ASSUME NEW u \in Tx, CommitApply(u) PROVE t # u => ctx'[t] = ctx[t]
  BY <1>s, <1>9, ApplyFields DEF Others
<1>10. ASSUME NEW u \in Tx, Abort(u) PROVE t # u => ctx'[t] = ctx[t]
  BY <1>s, <1>10, AbortFields DEF Others
<1>11. ASSUME NEW u \in Tx,
              (\E k \in Keys : ReadMem(u, k)) \/ ReadSsts(u) \/ ReadVersion(u)
       PROVE  ctx' = ctx
  BY <1>11, ReadFrame
<1>12. CASE FlushLock \/ FlushStep \/ UNCHANGED tvars
  BY <1>12, FlushFrame, TvarsFrame
<1> QED
  BY <1>2, <1>3, <1>4, <1>5, <1>6, <1>7, <1>8, <1>9, <1>10, <1>11, <1>12 DEF TNext

\* While a commit has the locks nothing else moves the tables.
LEMMA LoggedQuiet ==
    ASSUME TInv, [TNext]_tvars, NEW t \in Tx, ctx[t].pc = "logged", ~CommitApply(t)
    PROVE  ~Stores /\ UNCHANGED <<cur, frozen, ssts, flush>>
<1>s. LockInv
  BY DEF TInv
<1>1. flush.ph = "idle" /\ \A u \in Tx : ctx[u].pc = "logged" => u = t
  BY <1>s DEF LockInv
<1>2. ~CurFree
  BY DEF CurFree
<1>3. ~Stores
  BY <1>1, <1>2 DEF Stores, ApplyWrite, CommitApply
<1>4. ~FlushLock /\ ~FlushStep
  BY <1>1, <1>2 DEF FlushLock, SstsFree, FlushStep, FlushNothing, FlushPick, FlushFails,
                    FlushBuilt, FlushRegister, FlushReport
<1>5. ASSUME NEW u \in Tx,
             \/ \E k \in Keys, v \in Vals : StageWrite(u, k, v) \/ LogWrite(u, k, v)
             \/ (\E k \in Keys : ReadMem(u, k))
             \/ ReadSsts(u) \/ ReadVersion(u) \/ ReadReturn(u)
             \/ CommitConflict(u) \/ CommitLog(u) \/ Abort(u)
      PROVE  UNCHANGED <<cur, frozen, ssts, flush>>
  BY <1>5, WriteFrame, ReadFrame, EndFrame
<1>6. CASE (\E level \in Levels : Begin(level)) \/ UNCHANGED tvars
  BY <1>3, <1>6, BeginFrame, TvarsFrame
<1> QED
  BY <1>3, <1>4, <1>5, <1>6 DEF TNext, Stores

\* Commit keeps its locks from validation until it has applied its writes, so
\* what validation found stays true, and a read is of a key not read before.
LEMMA LoggedKept ==
    ASSUME AllStage, TInv, TInv', OneRecord, OneRecord', RefInv, [TNext]_tvars,
           NEW t \in Tx, ctx'[t] = ctx[t], ctx[t].pc = "logged"
    PROVE  /\ \A i \in DOMAIN AllTables' : \A r \in AllTables'[i] :
                r.key \in Writes(t)' => r.ver < t
           /\ ctx'[t].level = "SER" =>
                \A k \in Keys : ctx'[t].seen[k] \in {Unset, View(k)'}
<1>s. CtxShape /\ CtxInv /\ CtxInv'
  BY DEF TInv, Shapes
<1>1. ~CommitApply(t)
  <2>1. CommitApply(t) => ctx'[t].pc = "committed"
    BY <1>s, ApplyFields
  <2> QED
    BY <2>1
<1>2. ~Stores /\ UNCHANGED <<cur, frozen, ssts, flush>>
  BY <1>1, LoggedQuiet
<1>3. AllTables' = AllTables
  BY <1>2 DEF AllTables, MemTables
<1>4. Writes(t)' = Writes(t)
  BY DEF Writes
<1>5. \A k \in Keys : View(k)' = View(k)
  BY <1>2, ViewKept
<1>6. /\ \A i \in DOMAIN AllTables : \A r \in AllTables[i] :
             r.key \in Writes(t) => r.ver < t
      /\ ctx[t].level = "SER" => \A k \in Keys : ctx[t].seen[k] \in {Unset, View(k)}
  BY DEF RefInv
<1> QED
  BY <1>3, <1>4, <1>5, <1>6

\* The validation of commit: no later version of a key it writes exists, and,
\* for SERIALIZABLE, what it read is what the map holds now.
LEMMA Validated ==
    ASSUME AllStage, TInv, TInv', OneRecord, OneRecord', [TNext]_tvars,
           NEW t \in Tx, CommitLog(t)
    PROVE  /\ \A i \in DOMAIN AllTables' : \A r \in AllTables'[i] :
                r.key \in Writes(t)' => r.ver < t
           /\ ctx'[t].level = "SER" =>
                \A k \in Keys : ctx'[t].seen[k] \in {Unset, View(k)'}
<1>s. CtxShape /\ CtxInv /\ TableShapes /\ FlushShape
  BY DEF TInv, Shapes
<1>1. /\ CommitReady(t) /\ ctx'[t].level = ctx[t].level
      /\ ctx'[t].temp = ctx[t].temp /\ ctx'[t].seen = ctx[t].seen
  BY <1>s, CommitLogFields
<1>2. UNCHANGED <<cur, frozen, ssts, flush>>
  BY EndFrame
<1>3. AllTables' = AllTables
  BY <1>2 DEF AllTables, MemTables
<1>4. Writes(t)' = Writes(t)
  BY <1>1 DEF Writes
<1>5. flush.ph = "idle" /\ ctx[t].pc = "open" /\ CurFree
  BY <1>1 DEF CommitReady, Endable, Usable, SstsShareable, FrozenFree
<1>6. ~Stores
  <2>1. \A u \in Tx : ~CommitApply(u)
    BY <1>5 DEF CurFree, CommitApply
  <2>2. \A u \in Tx : ~ApplyWrite(u)
    <3> SUFFICES ASSUME NEW u \in Tx, ApplyWrite(u) PROVE FALSE
      OBVIOUS
    <3>1. ctx[u].pc = "writing"
      BY DEF ApplyWrite
    <3>2. ctx[u].level = "RU"
      BY <3>1 DEF TInv, OpsInv, OpsOk
    <3> QED
      BY <1>s, <3>2, StagesAll DEF Strict
  <2> QED
    BY <2>1, <2>2 DEF Stores
<1>7. \A k \in Keys : View(k)' = View(k)
  BY <1>6, ViewKept
<1>8. ASSUME NEW i \in DOMAIN AllTables, NEW r \in AllTables[i], r.key \in Writes(t)
      PROVE  r.ver < t
  <2>1. PICK k \in Keys : k = r.key
    BY <1>8 DEF Writes
  <2>2. TopOf(LatestRecord(k), None, From(AllTables, 1, k, 0))
    BY <1>5, LatestIsTop
  <2>3. ~(LatestRecord(k).ver > t)
    BY <1>8, <2>1 DEF CommitLog, WriteConflict
  <2>4. AllTables \in Tables /\ i >= 1
    <3>1. Layout
      BY <1>s, AllTablesAt
    <3>2. DOMAIN AllTables = 1..Len(AllTables) /\ Len(AllTables) \in Nat
      BY <3>1 DEF Layout
    <3> QED
      BY <3>1, <3>2 DEF Layout
  <2>5. r \in From(AllTables, 1, k, 0)
    <3>1. r \in Versions(AllTables[i], k, 0)
      BY <2>1 DEF Versions
    <3> QED
      BY <2>4, <3>1, FromMembers
  <2>6. r.ver <= LatestRecord(k).ver
    BY <2>2, <2>5 DEF TopOf
  <2>7. LatestRecord(k).ver \in Nat
    <3>1. LatestRecord(k) = None \/ \E x \in From(AllTables, 1, k, 0) : LatestRecord(k) = Result(x)
      BY <2>2 DEF TopOf
    <3>2. \A x \in From(AllTables, 1, k, 0) : x \in Recs
      <4>1. AllTables \in Tables
        BY <2>4
      <4>2. \A n \in DOMAIN AllTables : AllTables[n] \subseteq Recs
        BY <4>1, TableBasics
      <4> QED
        BY <4>2, FromMembers DEF Versions
    <3>3. \A x \in Recs : Result(x).ver \in Nat
      BY DEF Recs, Tx, Result
    <3>4. None.ver \in Nat
      BY DEF None
    <3> QED
      BY <3>1, <3>2, <3>3, <3>4
  <2>8. r.ver \in committed /\ t \notin committed
    BY <1>s, <1>5 DEF OneRecord, AllCommitted, CtxInv
  <2>9. r.ver \in Nat /\ t \in Nat
    <3>1. r.ver \in Tx
      BY <1>s, <2>8 DEF CtxInv
    <3> QED
      BY <3>1 DEF Tx
  <2>10. r.ver # t
    BY <2>8
  <2> QED
    BY <2>3, <2>6, <2>7, <2>9, <2>10
<1>9. ASSUME ctx[t].level = "SER", NEW k \in Keys
      PROVE  ctx[t].seen[k] \in {Unset, View(k)}
  <2>1. TopOf(LatestRecord(k), None, From(AllTables, 1, k, 0))
    BY <1>5, LatestIsTop
  <2>2. View(k) = Shown(LatestRecord(k))
    BY <2>1, UniqueNow, ViewOfTop DEF View
  <2>3. ctx[t].seen[k] # Unset => Shown(LatestRecord(k)) = ctx[t].seen[k]
    BY <1>9 DEF CommitLog, ReadConflict, Seen
  <2> QED
    BY <2>2, <2>3
<1> QED
  BY <1>1, <1>3, <1>4, <1>7, <1>8, <1>9
\* A read in progress is of a key its context has not read before.
LEMMA ReadUnseen ==
    ASSUME AllStage, TInv, TInv', RefInv, [TNext]_tvars, NEW t \in Tx, rd'[t].ph # "none"
    PROVE  ctx'[t].seen[rd'[t].key] = Unset
<1>s. /\ TypeOK /\ Shapes /\ CtxShape /\ RdShape /\ CtxInv /\ LockInv /\ ReadInv /\ OpsInv
      /\ TableShapes /\ FlushShape
  BY DEF TInv, IInv, Shapes
<1>1. ASSUME NEW k \in Keys, ReadMem(t, k) PROVE ctx'[t].seen[rd'[t].key] = Unset
  <2>1. ctx[t].seen[k] = Unset
    BY <1>1 DEF ReadMem
  <2>2. rd'[t].key = k /\ ctx' = ctx
    BY <1>s, <1>1, ReadMemFields, ReadFrame
  <2> QED
    BY <2>1, <2>2
<1>2. ~ReadReturn(t)
  <2>1. ReadReturn(t) => rd'[t] = NoRead
    BY <1>s DEF ReadReturn, RdShape
  <2> QED
    BY <2>1 DEF NoRead
<1>3. ASSUME \A k \in Keys : ~ReadMem(t, k)
      PROVE  rd[t].ph # "none" /\ rd'[t].key = rd[t].key
  <2>1. CASE \E u \in Tx : CommitApply(u)
    BY <1>s, <2>1, CommitReads
  <2>2. CASE \A u \in Tx : ~CommitApply(u)
    <3>1. ~Stores
      <4> SUFFICES ASSUME NEW u \in Tx, ApplyWrite(u) PROVE FALSE
        BY <2>2 DEF Stores
      <4>1. ctx[u].pc = "writing"
        BY DEF ApplyWrite
      <4>2. ctx[u].level = "RU"
        BY <1>s, <4>1 DEF OpsInv, OpsOk
      <4> QED
        BY <1>s, <4>2, StagesAll DEF Strict
    <3>2. \/ rd'[t] = rd[t] \/ ReadSsts(t) \/ ReadVersion(t)
      BY <1>s, <1>2, <1>3, <3>1, OwnReads
    <3>3. ReadSsts(t) => rd[t].ph = "mem" /\ rd'[t].key = rd[t].key
      BY <1>s, ReadSstsFields
    <3>4. ReadVersion(t) => rd[t].ph = "sst" /\ rd'[t].key = rd[t].key
      BY <1>s, ReadVersionFields
    <3> QED
      BY <3>2, <3>3, <3>4
  <2> QED
    BY <2>1, <2>2
<1>4. ASSUME rd[t].ph # "none", rd'[t].key = rd[t].key
      PROVE  ctx'[t].seen[rd'[t].key] = Unset
  <2>1. ctx[t].pc = "open" /\ ~Usable(t) /\ ctx[t].seen[rd[t].key] = Unset
    BY <1>s, <1>4 DEF LockInv, Usable, RefInv
  <2>2. ctx'[t].seen = ctx[t].seen
    <3>1. ASSUME NEW level \in Levels, Begin(level), t = nextTransactionId PROVE FALSE
      <4>1. t >= nextTransactionId
        BY <3>1 DEF Tx
      <4> QED
        BY <1>s, <2>1, <4>1 DEF CtxInv
    <3>2. ASSUME NEW k \in Keys, NEW v \in Vals, StageWrite(t, k, v) PROVE FALSE
      BY <2>1, <3>2 DEF StageWrite, CanWrite
    <3>3. ~CommitConflict(t) /\ ~CommitLog(t) /\ ~Abort(t)
      BY <2>1 DEF CommitConflict, CommitLog, Abort, CommitReady, Endable
    <3>4. ~CommitApply(t)
      BY <2>1 DEF CommitApply
    <3> QED
      BY <1>2, <3>1, <3>2, <3>3, <3>4, CtxChange
  <2> QED
    BY <1>4, <2>1, <2>2
<1> QED
  BY <1>1, <1>3, <1>4

\* The invariant of the refinement is preserved.
LEMMA RefInvStep ==
    AllStage /\ TInv /\ TInv' /\ OneRecord /\ OneRecord' /\ RefInv /\ [TNext]_tvars => RefInv'
<1> SUFFICES ASSUME AllStage, TInv, TInv', OneRecord, OneRecord', RefInv, [TNext]_tvars,
                    NEW t \in Tx
             PROVE  /\ ctx'[t].pc = "logged" =>
                         /\ \A i \in DOMAIN AllTables' : \A r \in AllTables'[i] :
                              r.key \in Writes(t)' => r.ver < t
                         /\ ctx'[t].level = "SER" =>
                              \A k \in Keys : ctx'[t].seen[k] \in {Unset, View(k)'}
                    /\ rd'[t].ph # "none" => ctx'[t].seen[rd'[t].key] = Unset
  BY DEF RefInv
<1>s. TypeOK /\ CtxShape
  BY DEF TInv, IInv, Shapes
<1>1. ASSUME ctx'[t].pc = "logged" PROVE ctx'[t] = ctx[t] \/ CommitLog(t)
  <2>1. \A level \in Levels : Begin(level) /\ t = nextTransactionId => ctx'[t].pc = "open"
    BY <1>s, BeginFields
  <2>2. \A k \in Keys, v \in Vals : StageWrite(t, k, v) => ctx'[t].pc = "open"
    BY <1>s, StageFields
  <2>3. ReadReturn(t) => ctx'[t].pc = "open"
    <3> SUFFICES ASSUME ReadReturn(t) PROVE ctx'[t].pc = "open"
      OBVIOUS
    <3>1. ctx[t].pc = "open"
      BY DEF ReadReturn, TInv, LockInv
    <3> QED
      BY <1>s, <3>1, ReturnFields
  <2>4. CommitConflict(t) \/ Abort(t) => ctx'[t].pc = "aborted"
    BY <1>s, ConflictFields, AbortFields
  <2>5. CommitApply(t) => ctx'[t].pc = "committed"
    BY <1>s, ApplyFields
  <2> QED
    BY <1>1, <2>1, <2>2, <2>3, <2>4, <2>5, CtxChange
<1>2. rd'[t].ph # "none" => ctx'[t].seen[rd'[t].key] = Unset
  BY ReadUnseen
<1>3. ASSUME ctx'[t].pc = "logged"
      PROVE  /\ \A i \in DOMAIN AllTables' : \A r \in AllTables'[i] :
                  r.key \in Writes(t)' => r.ver < t
             /\ ctx'[t].level = "SER" =>
                  \A k \in Keys : ctx'[t].seen[k] \in {Unset, View(k)'}
  BY <1>1, <1>3, LoggedKept, Validated
<1> QED
  BY <1>2, <1>3
-----------------------------------------------------------------------------
(* Every step is a step of the map.                                         *)

InProgress(t) == ctx[t].pc \in {"open", "writing", "logged"}

\* The variables of the map, transaction by transaction.
MapParts ==
    /\ \A t \in Tx :
         /\ ctx[t].pc = "none" => mStatus[t] = "idle"
         /\ ctx[t].pc \in {"committed", "aborted"} => mStatus[t] = ctx[t].pc
         /\ InProgress(t) => /\ mStatus[t] = "active" /\ mStaged[t] = ctx[t].temp
                          /\ mSeen[t] = ctx[t].seen
         /\ ~InProgress(t) => mStaged[t] = NoContext.temp /\ mSeen[t] = NoContext.seen
         /\ mValidates[t] = (ctx[t].level = "SER")
    /\ mStatus = [t \in Tx |-> mStatus[t]] /\ mValidates = [t \in Tx |-> mValidates[t]]
    /\ mStaged = [t \in Tx |-> mStaged[t]] /\ mSeen = [t \in Tx |-> mSeen[t]]

\* They follow the program counters, since contexts and manager agree.
LEMMA MapPartsNow == TInv => MapParts
<1> SUFFICES ASSUME TInv PROVE MapParts
  OBVIOUS
<1>1. \A t \in Tx : t \in activeTrans <=> InProgress(t)
  BY DEF TInv, CtxInv, InProgress
<1>2. ASSUME NEW t \in Tx
      PROVE  /\ ctx[t].pc = "none" => mStatus[t] = "idle"
             /\ ctx[t].pc \in {"committed", "aborted"} => mStatus[t] = ctx[t].pc
             /\ InProgress(t) => mStatus[t] = "active"
             /\ mValidates[t] = (ctx[t].level = "SER")
  BY DEF mStatus, mValidates, InProgress
<1> HIDE DEF NoContext
<1>3. ASSUME NEW t \in Tx
      PROVE  /\ InProgress(t) => mStaged[t] = ctx[t].temp /\ mSeen[t] = ctx[t].seen
             /\ ~InProgress(t) => mStaged[t] = NoContext.temp /\ mSeen[t] = NoContext.seen
  BY <1>1 DEF mStaged, mSeen
<1>4. /\ mStatus = [t \in Tx |-> mStatus[t]] /\ mValidates = [t \in Tx |-> mValidates[t]]
      /\ mStaged = [t \in Tx |-> mStaged[t]] /\ mSeen = [t \in Tx |-> mSeen[t]]
  BY DEF mStatus, mValidates, mStaged, mSeen
<1> QED
  BY <1>2, <1>3, <1>4 DEF MapParts

\* What a step that touches one context does to the map.
LEMMA OneContext ==
    ASSUME TInv, TInv', NEW t \in Tx, Others(t), NEW a, NEW b, NEW c, NEW d,
           mStatus'[t] = a, mValidates'[t] = b, mStaged'[t] = c, mSeen'[t] = d
    PROVE  /\ mStatus' = [mStatus EXCEPT ![t] = a]
           /\ mValidates' = [mValidates EXCEPT ![t] = b]
           /\ mStaged' = [mStaged EXCEPT ![t] = c]
           /\ mSeen' = [mSeen EXCEPT ![t] = d]
           /\ a = mStatus[t] => mStatus' = mStatus
           /\ b = mValidates[t] => mValidates' = mValidates
           /\ c = mStaged[t] => mStaged' = mStaged
           /\ d = mSeen[t] => mSeen' = mSeen
<1>p. MapParts /\ MapParts'
  BY MapPartsNow, PTL
<1>1. \A u \in Tx : u # t => ctx'[u] = ctx[u]
  BY DEF Others
<1>2. ASSUME NEW u \in Tx, u # t
      PROVE  /\ mStatus'[u] = mStatus[u] /\ mValidates'[u] = mValidates[u]
             /\ mStaged'[u] = mStaged[u] /\ mSeen'[u] = mSeen[u]
  <2>1. u \in activeTrans' <=> u \in activeTrans
    BY <1>1, <1>2 DEF TInv, CtxInv
  <2>2. ctx'[u] = ctx[u]
    BY <1>1, <1>2
  <2> HIDE DEF NoContext
  <2> QED
    BY <2>1, <2>2 DEF mStatus, mValidates, mStaged, mSeen
<1>3. /\ mStatus = [x \in Tx |-> mStatus[x]] /\ mValidates = [x \in Tx |-> mValidates[x]]
      /\ mStaged = [x \in Tx |-> mStaged[x]] /\ mSeen = [x \in Tx |-> mSeen[x]]
      /\ mStatus' = [x \in Tx |-> mStatus'[x]] /\ mValidates' = [x \in Tx |-> mValidates'[x]]
      /\ mStaged' = [x \in Tx |-> mStaged'[x]] /\ mSeen' = [x \in Tx |-> mSeen'[x]]
  BY <1>p DEF MapParts
<1>4. ASSUME NEW f, NEW g, NEW x, f = [u \in Tx |-> f[u]], g = [u \in Tx |-> g[u]],
             \A u \in Tx : u # t => g[u] = f[u], g[t] = x
      PROVE  g = [f EXCEPT ![t] = x] /\ (x = f[t] => g = f)
  BY <1>4
<1>5. mStatus' = [mStatus EXCEPT ![t] = a] /\ (a = mStatus[t] => mStatus' = mStatus)
  BY <1>2, <1>3, <1>4
<1>6. mValidates' = [mValidates EXCEPT ![t] = b] /\ (b = mValidates[t] => mValidates' = mValidates)
  BY <1>2, <1>3, <1>4
<1>7. mStaged' = [mStaged EXCEPT ![t] = c] /\ (c = mStaged[t] => mStaged' = mStaged)
  BY <1>2, <1>3, <1>4
<1>8. mSeen' = [mSeen EXCEPT ![t] = d] /\ (d = mSeen[t] => mSeen' = mSeen)
  BY <1>2, <1>3, <1>4
<1> QED
  BY <1>5, <1>6, <1>7, <1>8
\* A step that stores nothing leaves the store of the map alone.
LEMMA StoreKept ==
    ASSUME TInv, TInv', OneRecord, OneRecord', [TNext]_tvars, ~Stores
    PROVE  mStore' = mStore
<1>1. \A k \in Keys : View(k)' = View(k)
  BY ViewKept
<1>2. mStore' = [k \in Keys |-> View(k)']
  BY DEF mStore
<1> QED
  BY <1>1, <1>2 DEF mStore

\* What the hypotheses of every step below give.
Both == AllStage /\ TInv /\ TInv' /\ OneRecord /\ OneRecord' /\ RefInv /\ [TNext]_tvars

\* new_tranc.
LEMMA BeginMaps ==
    ASSUME Both, NEW level \in Levels, Begin(level), UNCHANGED mStore PROVE Map!MapNext
<1>s. TInv /\ TInv' /\ TypeOK /\ CtxShape /\ CtxInv
  BY DEF Both, TInv, IInv, Shapes
<1>1. PICK t \in Tx : t = nextTransactionId /\ Others(t) /\ ctx'[t].pc = "open"
                      /\ ctx'[t].level = level /\ ctx'[t].temp = NoContext.temp
                      /\ ctx'[t].seen = NoContext.seen
  BY <1>s, BeginFields
<1>2. ctx[t].pc = "none"
  <2>1. t >= nextTransactionId
    BY <1>1 DEF Tx
  <2> QED
    BY <1>s, <2>1 DEF CtxInv
<1>p. MapParts /\ MapParts'
  BY <1>s, MapPartsNow, PTL
<1> HIDE DEF NoContext
<1>3. mStatus[t] = "idle" /\ mStaged[t] = NoContext.temp /\ mSeen[t] = NoContext.seen
  BY <1>p, <1>2 DEF MapParts, InProgress
<1>4. /\ mStatus'[t] = "active" /\ mStaged'[t] = NoContext.temp /\ mSeen'[t] = NoContext.seen
      /\ mValidates'[t] = (level = "SER")
  BY <1>p, <1>1 DEF MapParts, InProgress
<1>5. /\ mStatus' = [mStatus EXCEPT ![t] = "active"] /\ mStaged' = mStaged /\ mSeen' = mSeen
      /\ mValidates' = [mValidates EXCEPT ![t] = (level = "SER")]
  BY <1>s, <1>1, <1>3, <1>4, OneContext
<1>6. (level = "SER") \in BOOLEAN
  OBVIOUS
<1> QED
  BY <1>3, <1>5, <1>6, MapStart

\* put and remove.
LEMMA StageMaps ==
    ASSUME Both, NEW t \in Tx, NEW k \in Keys, NEW v \in Vals, StageWrite(t, k, v),
           UNCHANGED mStore
    PROVE  Map!MapNext
<1>s. TInv /\ TInv' /\ TypeOK /\ CtxShape /\ CtxInv
  BY DEF Both, TInv, IInv, Shapes
<1>1. /\ Others(t) /\ ctx[t].pc = "open" /\ ctx'[t].pc = "open"
      /\ ctx'[t].level = ctx[t].level /\ ctx'[t].seen = ctx[t].seen
      /\ ctx'[t].temp = [ctx[t].temp EXCEPT ![k] = v]
  BY <1>s, StageFields
<1>p. MapParts /\ MapParts'
  BY <1>s, MapPartsNow, PTL
<1>2. /\ mStatus[t] = "active" /\ mStaged[t] = ctx[t].temp /\ mSeen[t] = ctx[t].seen
      /\ mValidates[t] = (ctx[t].level = "SER")
  BY <1>p, <1>1 DEF MapParts, InProgress
<1>3. /\ mStatus'[t] = mStatus[t] /\ mStaged'[t] = [mStaged[t] EXCEPT ![k] = v]
      /\ mSeen'[t] = mSeen[t] /\ mValidates'[t] = mValidates[t]
  BY <1>p, <1>1, <1>2 DEF MapParts, InProgress
<1>4. /\ mStatus' = mStatus /\ mSeen' = mSeen /\ mValidates' = mValidates
      /\ mStaged' = [mStaged EXCEPT ![t] = [mStaged[t] EXCEPT ![k] = v]]
  BY <1>s, <1>1, <1>3, OneContext
<1>5. mStaged' = [mStaged EXCEPT ![t][k] = v]
  BY <1>4
<1> QED
  BY <1>2, <1>4, <1>5, MapStage

\* get: only a level with repeated reads keeps what it saw.
LEMMA ReturnMaps ==
    ASSUME Both, NEW t \in Tx, ReadReturn(t), UNCHANGED mStore
    PROVE  Map!MapNext \/ UNCHANGED Map!mapVars
<1>s. TInv /\ TInv' /\ TypeOK /\ CtxShape /\ RdShape /\ CtxInv /\ LockInv /\ RefInv
  BY DEF Both, TInv, IInv, Shapes
<1>1. rd[t].ph # "none"
  BY DEF ReadReturn
<1>2. /\ Others(t) /\ ctx'[t].pc = ctx[t].pc /\ ctx'[t].level = ctx[t].level
      /\ ctx'[t].temp = ctx[t].temp
      /\ ctx'[t].seen = IF Cap(t) = 0 THEN ctx[t].seen
                        ELSE [ctx[t].seen EXCEPT ![rd[t].key] = Shown(rd[t].best)]
  BY <1>s, ReturnFields
<1>3. ctx[t].pc = "open" /\ ctx[t].seen[rd[t].key] = Unset
  BY <1>s, <1>1 DEF LockInv, RefInv
<1>p. MapParts /\ MapParts'
  BY <1>s, MapPartsNow, PTL
<1>4. /\ mStatus[t] = "active" /\ mStaged[t] = ctx[t].temp /\ mSeen[t] = ctx[t].seen
      /\ mValidates[t] = (ctx[t].level = "SER")
  BY <1>p, <1>3 DEF MapParts, InProgress
<1>5. /\ mStatus'[t] = mStatus[t] /\ mStaged'[t] = mStaged[t]
      /\ mSeen'[t] = ctx'[t].seen /\ mValidates'[t] = mValidates[t]
  BY <1>p, <1>2, <1>3, <1>4 DEF MapParts, InProgress
<1>6. CASE Cap(t) = 0
  <2>1. mSeen'[t] = mSeen[t]
    BY <1>2, <1>4, <1>5, <1>6
  <2>2. UNCHANGED <<mStatus, mValidates, mStaged, mSeen>>
    BY <1>s, <1>2, <1>5, <2>1, OneContext
  <2> QED
    BY <2>2, MapStutter
<1>7. CASE Cap(t) # 0
  <2>1. PICK k \in Keys : k = rd[t].key
    BY <1>s, <1>1, ReadParts
  <2>2. PICK a : a = Shown(rd[t].best)
    OBVIOUS
  <2>3. PICK ver \in {0} \cup Tx : a = IF ver = 0 THEN None ELSE [ver |-> ver, val |-> "val"]
    <3>1. rd[t].best \in Answers
      BY <1>s, <1>1, ReadParts
    <3>2. PICK r : r = rd[t].best
      OBVIOUS
    <3>3. CASE r = None \/ r.val = "del"
      <4>1. a = None
        BY <2>2, <3>2, <3>3 DEF Shown, None
      <4> QED
        BY <4>1
    <3>4. CASE r # None /\ r.val # "del"
      <4>1. r \in [ver : Tx, val : Vals]
        BY <3>1, <3>2, <3>4 DEF Answers
      <4>2. r.ver \in Tx /\ r.val = "val" /\ r = [ver |-> r.ver, val |-> r.val]
        BY <3>4, <4>1 DEF Vals
      <4>3. r.ver # 0
        BY <4>2 DEF Tx
      <4>4. a = r
        BY <2>2, <3>2, <3>4 DEF Shown
      <4>5. PICK w \in Tx : w = r.ver
        BY <4>2
      <4>6. a = [ver |-> w, val |-> "val"] /\ w # 0
        BY <4>2, <4>3, <4>4, <4>5
      <4> QED
        BY <4>6
    <3> QED
      BY <3>3, <3>4
  <2>4. mSeen'[t] = [mSeen[t] EXCEPT ![k] = a]
    BY <1>2, <1>4, <1>5, <1>7, <2>1, <2>2
  <2>5. /\ UNCHANGED <<mStatus, mValidates, mStaged>>
        /\ mSeen' = [mSeen EXCEPT ![t] = [mSeen[t] EXCEPT ![k] = a]]
    BY <1>s, <1>2, <1>5, <2>4, OneContext
  <2>6. mSeen' = [mSeen EXCEPT ![t][k] = a]
    BY <2>5
  <2>7. mSeen[t][k] = Unset
    BY <1>3, <1>4, <2>1
  <2> QED
    BY <1>4, <2>3, <2>5, <2>6, <2>7, MapObserve
<1> QED
  BY <1>6, <1>7

\* abort, and a commit that finds a conflict.
LEMMA WithdrawMaps ==
    ASSUME Both, NEW t \in Tx, CommitConflict(t) \/ Abort(t), UNCHANGED mStore
    PROVE  Map!MapNext
<1>s. TInv /\ TInv' /\ TypeOK /\ CtxShape /\ CtxInv
  BY DEF Both, TInv, IInv, Shapes
<1>1. /\ Others(t) /\ Endable(t) /\ ctx'[t].pc = "aborted" /\ ctx'[t].level = ctx[t].level
  BY <1>s, ConflictFields, AbortFields
<1>2. ctx[t].pc = "open"
  BY <1>1 DEF Endable, Usable
<1>p. MapParts /\ MapParts'
  BY <1>s, MapPartsNow, PTL
<1> HIDE DEF NoContext
<1>3. mStatus[t] = "active"
  BY <1>p, <1>2 DEF MapParts, InProgress
<1>4. /\ mStatus'[t] = "aborted" /\ mStaged'[t] = NoContext.temp
      /\ mSeen'[t] = NoContext.seen /\ mValidates'[t] = mValidates[t]
  BY <1>p, <1>1 DEF MapParts, InProgress
<1>5. /\ mStatus' = [mStatus EXCEPT ![t] = "aborted"]
      /\ mStaged' = [mStaged EXCEPT ![t] = NoContext.temp]
      /\ mSeen' = [mSeen EXCEPT ![t] = NoContext.seen] /\ mValidates' = mValidates
  BY <1>s, <1>1, <1>4, OneContext
<1> QED
  BY <1>3, <1>5, MapWithdraw

\* The first half of a commit, which only writes the log.
LEMMA LogMaps ==
    ASSUME Both, NEW t \in Tx, CommitLog(t), UNCHANGED mStore
    PROVE  UNCHANGED Map!mapVars
<1>s. TInv /\ TInv' /\ TypeOK /\ CtxShape /\ CtxInv
  BY DEF Both, TInv, IInv, Shapes
<1>1. /\ Others(t) /\ CommitReady(t) /\ ctx'[t].level = ctx[t].level
      /\ ctx'[t].temp = ctx[t].temp /\ ctx'[t].seen = ctx[t].seen
      /\ ctx'[t].pc = "logged" \/ ctx'[t].pc = ctx[t].pc
  BY <1>s, CommitLogFields
<1>2. ctx[t].pc = "open"
  BY <1>1 DEF CommitReady, Endable, Usable
<1>p. MapParts /\ MapParts'
  BY <1>s, MapPartsNow, PTL
<1>3. /\ mStatus'[t] = mStatus[t] /\ mStaged'[t] = mStaged[t]
      /\ mSeen'[t] = mSeen[t] /\ mValidates'[t] = mValidates[t]
  BY <1>p, <1>1, <1>2 DEF MapParts, InProgress
<1>4. UNCHANGED <<mStatus, mValidates, mStaged, mSeen>>
  BY <1>s, <1>1, <1>3, OneContext
<1> QED
  BY <1>4, MapStutter

\* The second half: the writes appear in the map at once.
LEMMA PublishMaps ==
    ASSUME Both, NEW t \in Tx, CommitApply(t) PROVE Map!MapNext
<1>s. TInv /\ TInv' /\ TypeOK /\ CtxShape /\ CtxInv /\ RefInv
  BY DEF Both, TInv, IInv, Shapes
<1>1. /\ Others(t) /\ ctx[t].pc = "logged" /\ ctx'[t].pc = "committed"
      /\ ctx'[t].level = ctx[t].level
  BY <1>s, ApplyFields
<1>p. MapParts /\ MapParts'
  BY <1>s, MapPartsNow, PTL
<1> HIDE DEF NoContext
<1>2. /\ mStatus[t] = "active" /\ mStaged[t] = ctx[t].temp /\ mSeen[t] = ctx[t].seen
      /\ mValidates[t] = (ctx[t].level = "SER")
  BY <1>p, <1>1 DEF MapParts, InProgress
<1>3. /\ mStatus'[t] = "committed" /\ mStaged'[t] = NoContext.temp
      /\ mSeen'[t] = NoContext.seen /\ mValidates'[t] = mValidates[t]
  BY <1>p, <1>1 DEF MapParts, InProgress
<1>4. /\ mStatus' = [mStatus EXCEPT ![t] = "committed"]
      /\ mStaged' = [mStaged EXCEPT ![t] = NoContext.temp]
      /\ mSeen' = [mSeen EXCEPT ![t] = NoContext.seen] /\ mValidates' = mValidates
  BY <1>s, <1>1, <1>3, OneContext
<1>5. mValidates[t] => \A k \in Keys : mSeen[t][k] \in {Unset, mStore[k]}
  <2>1. ctx[t].level = "SER" => \A k \in Keys : ctx[t].seen[k] \in {Unset, View(k)}
    BY <1>s, <1>1 DEF RefInv
  <2>2. \A k \in Keys : mStore[k] = View(k)
    BY DEF mStore
  <2> QED
    BY <1>2, <2>1, <2>2
<1>6. mStore' = [k \in Keys |-> CASE mStaged[t][k] = "unset" -> mStore[k]
                                  [] mStaged[t][k] = "del" -> None
                                  [] mStaged[t][k] = "val" -> [ver |-> t, val |-> "val"]]
  <2>1. \A k \in Keys : View(k)' = CASE ctx[t].temp[k] = "unset" -> View(k)
                                     [] ctx[t].temp[k] = "del" -> None
                                     [] ctx[t].temp[k] = "val" -> [ver |-> t, val |-> "val"]
    BY ViewCommitted DEF Both
  <2>2. \A k \in Keys : mStore[k] = View(k)
    BY DEF mStore
  <2>3. mStore' = [k \in Keys |-> View(k)']
    BY DEF mStore
  <2> QED
    BY <1>2, <2>1, <2>2, <2>3
<1> QED
  BY <1>2, <1>4, <1>5, <1>6, MapPublish
\* Every step of contexts, memtable, SSTs and manager is a step of the map, or
\* leaves the map alone.
LEMMA MapStep == Both => [Map!MapNext]_(Map!mapVars)
<1> SUFFICES ASSUME Both PROVE Map!MapNext \/ UNCHANGED Map!mapVars
  OBVIOUS
<1>s. /\ AllStage /\ TInv /\ TInv' /\ OneRecord /\ OneRecord' /\ [TNext]_tvars
      /\ TypeOK /\ CtxShape /\ OpsInv /\ CtxInv /\ CtxInv'
  BY DEF Both, TInv, IInv, Shapes
<1>0. \A u \in Tx : ~ApplyWrite(u)
  <2> SUFFICES ASSUME NEW u \in Tx, ApplyWrite(u) PROVE FALSE
    OBVIOUS
  <2>1. ctx[u].pc = "writing"
    BY DEF ApplyWrite
  <2>2. ctx[u].level = "RU"
    BY <1>s, <2>1 DEF OpsInv, OpsOk
  <2> QED
    BY <1>s, <2>2, StagesAll DEF Strict
<1>1. ASSUME NEW t \in Tx, CommitApply(t) PROVE Map!MapNext
  BY <1>1, PublishMaps
<1>2. ASSUME ~Stores PROVE Map!MapNext \/ UNCHANGED Map!mapVars
  <2>1. UNCHANGED mStore
    BY <1>s, <1>2, StoreKept
  <2>2. ASSUME NEW level \in Levels, Begin(level) PROVE Map!MapNext
    BY <2>1, <2>2, BeginMaps
  <2>3. ASSUME NEW t \in Tx, NEW k \in Keys, NEW v \in Vals, StageWrite(t, k, v)
        PROVE  Map!MapNext
    BY <2>1, <2>3, StageMaps
  <2>4. ASSUME NEW t \in Tx, ReadReturn(t) PROVE Map!MapNext \/ UNCHANGED Map!mapVars
    BY <2>1, <2>4, ReturnMaps
  <2>5. ASSUME NEW t \in Tx, CommitConflict(t) \/ Abort(t) PROVE Map!MapNext
    BY <2>1, <2>5, WithdrawMaps
  <2>6. ASSUME NEW t \in Tx, CommitLog(t) PROVE UNCHANGED Map!mapVars
    BY <2>1, <2>6, LogMaps
  <2>7. ASSUME ctx' = ctx PROVE UNCHANGED Map!mapVars
    <3>1. \A t \in Tx : t \in activeTrans' <=> t \in activeTrans
      BY <1>s, <2>7 DEF CtxInv
    <3>2. UNCHANGED <<mStatus, mValidates>>
      BY <2>7 DEF mStatus, mValidates
    <3>3. UNCHANGED <<mStaged, mSeen>>
      <4> HIDE DEF NoContext
      <4> QED
        BY <2>7, <3>1 DEF mStaged, mSeen
    <3> QED
      BY <2>1, <3>2, <3>3, MapStutter
  <2>8. ASSUME NEW t \in Tx, NEW k \in Keys, NEW v \in Vals, LogWrite(t, k, v) PROVE FALSE
    BY <1>s, <2>8, StagesAll, LogWriteFields
  <2>9. ASSUME NEW t \in Tx,
               (\E k \in Keys : ReadMem(t, k)) \/ ReadSsts(t) \/ ReadVersion(t)
        PROVE  ctx' = ctx
    BY <2>9, ReadFrame
  <2>10. FlushLock \/ FlushStep \/ UNCHANGED tvars => ctx' = ctx
    BY FlushFrame, TvarsFrame
  <2>11. CASE UNCHANGED tvars
    BY <2>7, <2>10, <2>11
  <2>12. CASE TNext
    BY <1>0, <1>2, <2>2, <2>3, <2>4, <2>5, <2>6, <2>7, <2>8, <2>9, <2>10, <2>12 DEF TNext, Stores
  <2> QED
    BY <1>s, <2>11, <2>12
<1> QED
  BY <1>0, <1>1, <1>2 DEF Stores

\* A new engine is an empty map.
LEMMA MapStarts == TInit => Map!MapInit /\ RefInv
<1> SUFFICES ASSUME TInit PROVE Map!MapInit /\ RefInv
  OBVIOUS
<1>1. /\ ctx = [t \in Tx |-> NoContext] /\ rd = [t \in Tx |-> NoRead] /\ activeTrans = {}
      /\ committed = {}
  BY DEF TInit
<1>2. AllTables = <<{}>>
  BY InitTables
<1>3. RefInv
  BY <1>1 DEF RefInv, NoRead, NoContext
<1>4. ASSUME NEW k \in Keys PROVE View(k) = None
  <2>1. TInv
    BY TInitInv
  <2>2. DOMAIN AllTables = {1} /\ AllTables[1] = {}
    BY <1>2
  <2>3. From(AllTables, 1, k, 0) = {}
    BY <2>2 DEF From, Versions
  <2>4. OneRecord
    BY <2>2 DEF OneRecord, AllCommitted
  <2>5. TopOf(None, None, From(AllTables, 1, k, 0))
    BY <2>3 DEF TopOf, None
  <2>6. UniqueIn(AllTables, committed)
    BY <2>1, <2>4, UniqueNow
  <2>7. View(k) = Shown(None)
    BY <2>5, <2>6, ViewOfTop DEF View
  <2> QED
    BY <2>7 DEF Shown, None
<1>5. mStore = [k \in Keys |-> Map!Missing]
  BY <1>4 DEF mStore, Map!Missing, None
<1>6. mStatus = [t \in Tx |-> "idle"] /\ mValidates = [t \in Tx |-> FALSE]
  BY <1>1 DEF mStatus, mValidates, NoContext
<1>7. mStaged = [t \in Tx |-> Map!Nothing] /\ mSeen = [t \in Tx |-> Map!Unseen]
  BY <1>1 DEF mStaged, mSeen, NoContext, Unset, Map!Nothing, Map!Unseen
<1>8. Map!MapInit
  BY <1>5, <1>6, <1>7 DEF Map!MapInit, mStore, mStatus, mValidates, mStaged, mSeen, View
<1> QED
  BY <1>3, <1>8

\* commit, abort, get, put and flush together: when every writer stages its
\* writes, contexts, memtable, SSTs and manager behave as one map that changes
\* at each commit by all its writes at once, and a SERIALIZABLE transaction
\* commits only if the keys it read are unchanged.
THEOREM MapRefinement == ASSUME AllStage PROVE TSpec => ImplementsTxnMap
<1>1. TInit => Map!MapInit /\ RefInv
  BY MapStarts
<1>2. TInv /\ TInv' /\ OneRecord /\ OneRecord' /\ RefInv /\ [TNext]_tvars => RefInv'
  BY RefInvStep
<1>3. TInv /\ TInv' /\ OneRecord /\ OneRecord' /\ RefInv /\ [TNext]_tvars
        => [Map!MapNext]_(Map!mapVars)
  BY MapStep DEF Both
<1>4. TSpec => [](TInv /\ OneRecord)
  BY AtomicInvariance, PTL
<1> QED
  BY <1>1, <1>2, <1>3, <1>4, PTL DEF TSpec, ImplementsTxnMap, Map!MapSpec
=============================================================================
