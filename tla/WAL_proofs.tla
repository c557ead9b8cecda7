----------------------------- MODULE WAL_proofs -----------------------------
(***************************************************************************)
(* The safety of the write-ahead log, for every buffer size, file size     *)
(* limit and number of records, whatever file operation fails and wherever *)
(* the process dies.                                                       *)
(***************************************************************************)
EXTENDS WAL, ProofLemmas

-----------------------------------------------------------------------------
(* The invariant.                                                           *)

LogRecs == [n : Nat, tx : Txs]
LogFiles == [recs : Seq(LogRecs), torn : BOOLEAN]
CleanerPcs == {"none", "lock", "check", "enter", "asleep", "timeout", "clean", "scan", "exited"}

FilesShape == DOMAIN files \subseteq 0..MaxSeq /\ files \in [DOMAIN files -> LogFiles]
WShapes ==
    /\ FilesShape
    /\ active \in Nat /\ buffer \in Seq(LogRecs) /\ writeFailed \in BOOLEAN
    /\ checkpoint \in Nat /\ highest \in Nat /\ checkpoint <= highest
    /\ mutex \in {"free", "cleaner"}
    /\ owner \in {"closed", "using", "notify", "join", "flush"}
    /\ cleaner \in [pc : CleanerPcs, todo : SUBSET Nat]
    /\ logged \in Nat /\ acked \subseteq LogRecs

\* The log takes records: it is open and no file operation has failed.
Usable == owner # "closed" /\ ~writeFailed

\* The active file of a usable log is the newest and intact.
ActiveNewest ==
    Usable => /\ active \in DOMAIN files /\ ~files[active].torn
              /\ \A s \in DOMAIN files : s <= active
              /\ buffer = <<>> \/ Len(buffer) < BufferSize

Increasing(b) == \A i, j \in DOMAIN b : i < j => b[i].n < b[j].n

\* No record is numbered above the calls made.
Issued(n) == \A s \in DOMAIN files : \A i \in DOMAIN files[s].recs : files[s].recs[i].n <= n

\* b may be written: it goes on where the files end.
Batch(b, n) ==
    /\ b \in Seq(LogRecs) /\ Increasing(b)
    /\ \A j \in DOMAIN b : b[j].n <= n
    /\ \A s \in DOMAIN files : \A i \in DOMAIN files[s].recs, j \in DOMAIN b :
         files[s].recs[i].n < b[j].n

\* The cleaner looks at older files only, and keeps the lock meanwhile.
CleanerScans ==
    cleaner.pc = "scan" => mutex = "cleaner" /\ \A s \in cleaner.todo : s < active

WInv ==
    /\ WShapes /\ ActiveNewest /\ LogOrdered /\ Issued(logged)
    /\ Usable => Batch(buffer, logged)
    /\ CleanerScans /\ AckedKept

-----------------------------------------------------------------------------
(* Writing a batch.                                                         *)

\* Where a batch goes: the active file, or a new one above every other.
LEMMA TargetFacts ==
    ASSUME WInv, Usable, Rotates => active < MaxSeq
    PROVE  /\ Target \in 0..MaxSeq /\ active <= Target
           /\ \A s \in DOMAIN files : s \in Nat /\ s <= Target
           /\ Rotates => Target \notin DOMAIN files /\ Target = active + 1
           /\ ~Rotates => Target \in DOMAIN files /\ Target = active
<1>1. /\ active \in Nat /\ active \in DOMAIN files /\ DOMAIN files \subseteq 0..MaxSeq
      /\ \A s \in DOMAIN files : s <= active
  BY DEF WInv, WShapes, FilesShape, ActiveNewest
<1>2. MaxSeq \in Nat
  BY SizesAssumption
<1>3. CASE Rotates
  <2>1. Target = active + 1
    BY <1>3 DEF Target
  <2> QED
    BY <1>1, <1>2, <1>3, <2>1
<1>4. CASE ~Rotates
  <2>1. Target = active
    BY <1>4 DEF Target
  <2> QED
    BY <1>1, <1>2, <1>4, <2>1
<1> QED
  BY <1>3, <1>4

\* The records of a file before the batch.
Before(s) == IF Rotates THEN <<>> ELSE files[s].recs

\* What the directory holds after a batch.
LEMMA WrittenFacts ==
    ASSUME WInv, Usable, Rotates => active < MaxSeq, NEW b \in Seq(LogRecs),
           NEW torn \in BOOLEAN, files' = Written(b, torn)
    PROVE  /\ DOMAIN files' = DOMAIN files \cup {Target} /\ FilesShape'
           /\ \A s \in DOMAIN files : s # Target => files'[s] = files[s]
           /\ files'[Target] = [recs |-> Before(Target) \o b, torn |-> torn]
           /\ Before(Target) \in Seq(LogRecs)
           /\ ~Rotates => Before(Target) = files[Target].recs
           /\ Rotates => Before(Target) = <<>>
<1>t. /\ Target \in 0..MaxSeq /\ (~Rotates => Target \in DOMAIN files)
  BY TargetFacts
<1>f. DOMAIN files \subseteq 0..MaxSeq /\ files \in [DOMAIN files -> LogFiles]
  BY DEF WInv, WShapes, FilesShape
<1>1. files' = [s \in DOMAIN files \cup {Target} |->
                  IF s # Target THEN files[s]
                  ELSE [recs |-> Before(s) \o b, torn |-> torn]]
  BY DEF Written, Before
<1>2. Before(Target) \in Seq(LogRecs)
  <2>1. CASE Rotates
    BY <2>1 DEF Before
  <2>2. CASE ~Rotates
    <3>1. files[Target] \in LogFiles
      BY <1>t, <1>f, <2>2
    <3> QED
      BY <2>2, <3>1 DEF Before, LogFiles
  <2> QED
    BY <2>1, <2>2
<1>3. Before(Target) \o b \in Seq(LogRecs)
  BY <1>2, ConcatFacts
<1>4. /\ DOMAIN files' = DOMAIN files \cup {Target}
      /\ \A s \in DOMAIN files : s # Target => files'[s] = files[s]
      /\ files'[Target] = [recs |-> Before(Target) \o b, torn |-> torn]
  BY <1>1
<1>5. FilesShape'
  <2>1. files'[Target] \in LogFiles
    BY <1>3, <1>4 DEF LogFiles
  <2>2. \A s \in DOMAIN files' : files'[s] \in LogFiles
    BY <1>f, <1>4, <2>1
  <2>3. files' = [s \in DOMAIN files' |-> files'[s]]
    BY <1>1
  <2>4. files' \in [DOMAIN files' -> LogFiles]
    BY <2>2, <2>3
  <2>5. DOMAIN files' \subseteq 0..MaxSeq
    BY <1>f, <1>t, <1>4
  <2> QED
    BY <2>4, <2>5 DEF FilesShape
<1>6. (~Rotates => Before(Target) = files[Target].recs) /\ (Rotates => Before(Target) = <<>>)
  BY DEF Before
<1> QED
  BY <1>2, <1>4, <1>5, <1>6

\* A record of the directory after a batch is an old one in its old place, or
\* one of the batch behind the old ones.
LEMMA WrittenRecords ==
    ASSUME WInv, Usable, Rotates => active < MaxSeq, NEW b \in Seq(LogRecs),
           NEW torn \in BOOLEAN, files' = Written(b, torn)
    PROVE  \E m \in Nat :
           /\ Target \in DOMAIN files => DOMAIN files[Target].recs = 1..m
           /\ \A s \in DOMAIN files' : \A i \in DOMAIN files'[s].recs :
                \/ /\ s \in DOMAIN files /\ i \in DOMAIN files[s].recs
                   /\ files'[s].recs[i] = files[s].recs[i]
                \/ /\ s = Target /\ i \in Nat /\ i > m /\ i - m \in DOMAIN b
                   /\ files'[s].recs[i] = b[i - m]
           /\ \A s \in DOMAIN files : \A i \in DOMAIN files[s].recs :
                /\ s \in DOMAIN files' /\ i \in DOMAIN files'[s].recs
                /\ files'[s].recs[i] = files[s].recs[i]
           /\ \A j \in DOMAIN b : /\ Target \in DOMAIN files'
                                  /\ m + j \in DOMAIN files'[Target].recs
                                  /\ files'[Target].recs[m + j] = b[j]
<1> DEFINE B == Before(Target)
           m == Len(B)
<1>t. (Rotates => Target \notin DOMAIN files) /\ (~Rotates => Target \in DOMAIN files)
  BY TargetFacts
<1>1. /\ DOMAIN files' = DOMAIN files \cup {Target}
      /\ \A s \in DOMAIN files : s # Target => files'[s] = files[s]
      /\ files'[Target] = [recs |-> B \o b, torn |-> torn]
      /\ B \in Seq(LogRecs)
      /\ ~Rotates => B = files[Target].recs
      /\ Rotates => B = <<>>
  BY WrittenFacts
<1>2. /\ m \in Nat /\ DOMAIN B = 1..m /\ Len(b) \in Nat /\ DOMAIN b = 1..Len(b)
  BY <1>1, SeqBasics
<1> HIDE DEF B
<1>3. /\ DOMAIN (B \o b) = 1..(m + Len(b))
      /\ \A i \in DOMAIN B : (B \o b)[i] = B[i]
      /\ \A j \in DOMAIN b : (B \o b)[m + j] = b[j]
  <2>1. B \o b \in Seq(LogRecs) /\ Len(B \o b) = m + Len(b)
    BY <1>1, ConcatFacts
  <2>2. DOMAIN (B \o b) = 1..Len(B \o b)
    BY <2>1, SeqBasics
  <2> QED
    BY <1>1, <2>1, <2>2, ConcatFacts
<1>4. files'[Target].recs = B \o b
  BY <1>1
<1> HIDE DEF m
<1>5. Target \in DOMAIN files => DOMAIN files[Target].recs = 1..m
  BY <1>t, <1>1, <1>2
<1>6. ASSUME NEW s \in DOMAIN files', NEW i \in DOMAIN files'[s].recs
      PROVE  \/ /\ s \in DOMAIN files /\ i \in DOMAIN files[s].recs
                /\ files'[s].recs[i] = files[s].recs[i]
             \/ /\ s = Target /\ i \in Nat /\ i > m /\ i - m \in DOMAIN b
                /\ files'[s].recs[i] = b[i - m]
  <2>1. CASE s # Target
    BY <1>1, <1>6, <2>1
  <2>2. CASE s = Target
    <3>1. i \in 1..(m + Len(b)) /\ files'[s].recs[i] = (B \o b)[i]
      BY <1>3, <1>4, <1>6, <2>2
    <3>2. CASE i <= m
      <4>1. i \in 1..m
        BY <1>2, <3>1, <3>2
      <4>2. B[i] = (B \o b)[i]
        BY <1>2, <1>3, <4>1
      <4>3. ~Rotates
        <5>1. Rotates => DOMAIN B = {}
          BY <1>1
        <5> QED
          BY <1>2, <4>1, <5>1
      <4> QED
        BY <1>1, <1>2, <1>t, <2>2, <3>1, <4>1, <4>2, <4>3
    <3>3. CASE i > m
      <4>1. PICK j \in DOMAIN b : j = i - m
        BY <1>2, <3>1, <3>3
      <4>2. m + j = i
        BY <1>2, <3>1, <4>1
      <4>3. (B \o b)[i] = b[j]
        BY <1>3, <4>2
      <4>4. i \in Nat
        BY <3>1
      <4>5. i - m \in DOMAIN b /\ files'[s].recs[i] = b[i - m]
        BY <3>1, <4>1, <4>3
      <4> QED
        BY <2>2, <3>3, <4>4, <4>5
    <3> QED
      BY <1>2, <3>1, <3>2, <3>3
  <2> QED
    BY <2>1, <2>2
<1>7. ASSUME NEW s \in DOMAIN files, NEW i \in DOMAIN files[s].recs
      PROVE  /\ s \in DOMAIN files' /\ i \in DOMAIN files'[s].recs
             /\ files'[s].recs[i] = files[s].recs[i]
  <2>1. CASE s # Target
    BY <1>1, <1>7, <2>1
  <2>2. CASE s = Target
    <3>1. ~Rotates /\ B = files[s].recs
      BY <1>1, <1>t, <1>7, <2>2
    <3>2. i \in 1..m
      BY <1>2, <1>7, <3>1
    <3>3. i \in 1..(m + Len(b))
      BY <1>2, <3>2
    <3> QED
      BY <1>1, <1>2, <1>3, <1>4, <2>2, <3>1, <3>2, <3>3
  <2> QED
    BY <2>1, <2>2
<1>8. ASSUME NEW j \in DOMAIN b
      PROVE  /\ Target \in DOMAIN files' /\ m + j \in DOMAIN files'[Target].recs
             /\ files'[Target].recs[m + j] = b[j]
  <2>1. m + j \in 1..(m + Len(b))
    BY <1>2, <1>8
  <2> QED
    BY <1>1, <1>3, <1>4, <1>8, <2>1
<1> QED
  BY <1>2, <1>5, <1>6, <1>7, <1>8

\* The number of a stored record is a natural number.
LEMMA StoredNumber ==
    ASSUME FilesShape, NEW s \in DOMAIN files, NEW i \in DOMAIN files[s].recs
    PROVE  files[s].recs[i].n \in Nat
<1>1. files[s].recs \in Seq(LogRecs)
  BY DEF FilesShape, LogFiles
<1>2. files[s].recs[i] \in LogRecs
  BY <1>1, SeqBasics
<1> QED
  BY <1>2 DEF LogRecs

\* A later call only raises the bound on the numbers.
LEMMA IssuedMore ==
    ASSUME WInv, NEW n \in Nat, n >= logged PROVE Issued(n)
<1> SUFFICES ASSUME NEW s \in DOMAIN files, NEW i \in DOMAIN files[s].recs
             PROVE  files[s].recs[i].n <= n
  BY DEF Issued
<1>1. files[s].recs[i].n <= logged /\ logged \in Nat
  BY DEF WInv, Issued, WShapes
<1>2. files[s].recs[i].n \in Nat
  BY StoredNumber DEF WInv, WShapes
<1> QED
  BY <1>1, <1>2

\* A batch that goes on where the files end keeps the order, and loses nothing.
LEMMA BatchWritten ==
    ASSUME WInv, Usable, Rotates => active < MaxSeq, NEW b, NEW n \in Nat, n >= logged,
           Batch(b, n), NEW torn \in BOOLEAN, files' = Written(b, torn)
    PROVE  /\ FilesShape' /\ LogOrdered' /\ Issued(n)'
           /\ Target \in DOMAIN files' /\ files'[Target].torn = torn
           /\ \A s \in DOMAIN files' : s <= Target
           /\ \A s \in DOMAIN files : s \in DOMAIN files' /\ Range(files[s].recs) \subseteq Range(files'[s].recs)
           /\ Range(b) \subseteq Range(files'[Target].recs)
<1>b. /\ b \in Seq(LogRecs) /\ \A i, j \in DOMAIN b : i < j => b[i].n < b[j].n
      /\ \A j \in DOMAIN b : b[j].n <= n
      /\ \A s \in DOMAIN files : \A i \in DOMAIN files[s].recs, j \in DOMAIN b :
           files[s].recs[i].n < b[j].n
  BY DEF Batch, Increasing
<1>t. /\ \A s \in DOMAIN files : s \in Nat /\ s <= Target
      /\ Target \in Nat
  BY TargetFacts
<1>f. /\ DOMAIN files' = DOMAIN files \cup {Target} /\ FilesShape'
      /\ files'[Target].torn = torn
  <2>1. /\ DOMAIN files' = DOMAIN files \cup {Target} /\ FilesShape'
        /\ files'[Target] = [recs |-> Before(Target) \o b, torn |-> torn]
    BY <1>b, WrittenFacts
  <2> QED
    BY <2>1
<1>1. PICK m \in Nat :
        /\ Target \in DOMAIN files => DOMAIN files[Target].recs = 1..m
        /\ \A s \in DOMAIN files' : \A i \in DOMAIN files'[s].recs :
             \/ /\ s \in DOMAIN files /\ i \in DOMAIN files[s].recs
                /\ files'[s].recs[i] = files[s].recs[i]
             \/ /\ s = Target /\ i \in Nat /\ i > m /\ i - m \in DOMAIN b
                /\ files'[s].recs[i] = b[i - m]
        /\ \A s \in DOMAIN files : \A i \in DOMAIN files[s].recs :
             /\ s \in DOMAIN files' /\ i \in DOMAIN files'[s].recs
             /\ files'[s].recs[i] = files[s].recs[i]
        /\ \A j \in DOMAIN b : /\ Target \in DOMAIN files'
                               /\ m + j \in DOMAIN files'[Target].recs
                               /\ files'[Target].recs[m + j] = b[j]
  BY <1>b, WrittenRecords
<1>2. ASSUME NEW s \in DOMAIN files', NEW u \in DOMAIN files',
             NEW i \in DOMAIN files'[s].recs, NEW j \in DOMAIN files'[u].recs,
             s < u \/ (s = u /\ i < j)
      PROVE  files'[s].recs[i].n < files'[u].recs[j].n
  <2> DEFINE Old(x, p) == /\ x \in DOMAIN files /\ p \in DOMAIN files[x].recs
                          /\ files'[x].recs[p] = files[x].recs[p]
             New(x, p) == /\ x = Target /\ p \in Nat /\ p > m /\ p - m \in DOMAIN b
                          /\ files'[x].recs[p] = b[p - m]
  <2>1. (Old(s, i) \/ New(s, i)) /\ (Old(u, j) \/ New(u, j))
    BY <1>1
  <2>2. ASSUME Old(s, i), Old(u, j) PROVE files'[s].recs[i].n < files'[u].recs[j].n
    BY <1>2, <2>2 DEF WInv, LogOrdered
  <2>3. ASSUME Old(s, i), New(u, j) PROVE files'[s].recs[i].n < files'[u].recs[j].n
    BY <1>b, <2>3
  <2>4. ASSUME New(s, i), New(u, j) PROVE files'[s].recs[i].n < files'[u].recs[j].n
    <3>1. i < j
      BY <1>2, <1>t, <2>4
    <3>2. PICK p \in DOMAIN b : p = i - m
      BY <2>4
    <3>3. PICK q \in DOMAIN b : q = j - m
      BY <2>4
    <3>4. p < q
      BY <2>4, <3>1, <3>2, <3>3
    <3>5. b[p].n < b[q].n
      BY <1>b, <3>4
    <3> QED
      BY <2>4, <3>2, <3>3, <3>5
  <2>5. ASSUME New(s, i), Old(u, j) PROVE FALSE
    <3>1. u <= Target /\ u \in Nat /\ s = Target
      BY <1>t, <2>5
    <3>2. s = u /\ i < j
      BY <1>2, <1>t, <3>1
    <3>3. j \in 1..m /\ i > m /\ i \in Nat
      BY <1>1, <2>5, <3>2
    <3> QED
      BY <3>2, <3>3
  <2> QED
    BY <2>1, <2>2, <2>3, <2>4, <2>5
<1>3. ASSUME NEW s \in DOMAIN files', NEW i \in DOMAIN files'[s].recs
      PROVE  files'[s].recs[i].n <= n
  <2>1. Issued(n)
    BY IssuedMore
  <2>2. s \in DOMAIN files /\ i \in DOMAIN files[s].recs => files[s].recs[i].n <= n
    BY <2>1 DEF Issued
  <2> QED
    BY <1>1, <1>b, <2>2
<1>4. LogOrdered'
  BY <1>2 DEF LogOrdered
<1>5. Issued(n)'
  BY <1>3 DEF Issued
<1>6. \A s \in DOMAIN files' : s <= Target
  BY <1>f, <1>t
<1>7. ASSUME NEW s \in DOMAIN files
      PROVE  s \in DOMAIN files' /\ Range(files[s].recs) \subseteq Range(files'[s].recs)
  <2>1. s \in DOMAIN files'
    BY <1>f
  <2> QED
    BY <1>1, <1>7, <2>1 DEF Range
<1>8. Range(b) \subseteq Range(files'[Target].recs)
  BY <1>1 DEF Range
<1> QED
  BY <1>f, <1>4, <1>5, <1>6, <1>7, <1>8

\* Part of a batch, as a failed append leaves it.
LEMMA BatchPrefix ==
    ASSUME NEW b, NEW n \in Nat, Batch(b, n), NEW k \in 0..Len(b)
    PROVE  Batch(SubSeq(b, 1, k), n)
<1> DEFINE p == SubSeq(b, 0 + 1, k)
<1>1. b \in Seq(LogRecs) /\ Len(b) \in Nat /\ DOMAIN b = 1..Len(b)
  BY SeqBasics DEF Batch
<1>2. /\ p \in Seq(LogRecs) /\ Len(p) = IF 0 < k THEN k - 0 ELSE 0
      /\ \A i \in 1..(k - 0) : p[i] = b[0 + i]
  BY <1>1, CutFacts
<1>3. DOMAIN p = 1..Len(p) /\ Len(p) \in Nat
  BY <1>2, SeqBasics
<1>4. SubSeq(b, 1, k) = p
  OBVIOUS
<1> HIDE DEF p
<1>5. DOMAIN p = 1..k
  BY <1>1, <1>2, <1>3
<1>6. \A i \in DOMAIN p : i \in DOMAIN b /\ p[i] = b[i]
  BY <1>1, <1>2, <1>5
<1>7. Batch(p, n)
  BY <1>2, <1>6 DEF Batch, Increasing
<1> QED
  BY <1>4, <1>7

\* log, flush and the last flush of the destructor.
LEMMA LogCallStep ==
    ASSUME WInv, owner # "closed", NEW b, NEW n \in Nat, n >= logged,
           ~writeFailed => Batch(b, n), NEW force \in BOOLEAN, LogCall(b, force),
           logged' = n, UNCHANGED <<mutex, cleaner, highest>>,
           owner' \in {"closed", "using", "notify", "join", "flush"}
    PROVE  WInv'
<1>s. WShapes /\ CleanerScans /\ AckedKept /\ LogOrdered /\ FilesShape
  BY DEF WInv, WShapes
<1>1. ~writeFailed /\ mutex = "free" /\ UNCHANGED checkpoint
  BY DEF LogCall, LogKeeps, LogWrites, LogFails, Accepts
<1>2. Usable /\ Batch(b, n) /\ b \in Seq(LogRecs)
  BY <1>1 DEF Usable, Batch
<1>3. ActiveNewest /\ active \in DOMAIN files /\ \A s \in DOMAIN files : s <= active
  BY <1>2 DEF WInv, ActiveNewest
<1>4. CleanerScans'
  BY <1>s, <1>1 DEF CleanerScans
<1>5. BufferSize \in Nat /\ Len(b) \in Nat
  BY <1>2, SizesAssumption, SeqBasics
<1>6. CASE LogKeeps(b, force)
  <2>1. /\ buffer' = b /\ UNCHANGED <<files, active, writeFailed, checkpoint, acked>>
        /\ ~Due(b, force)
    BY <1>6 DEF LogKeeps
  <2>2. WShapes'
    BY <1>s, <1>2, <2>1 DEF WShapes, FilesShape
  <2>3. b = <<>> \/ Len(b) < BufferSize
    BY <1>5, <2>1 DEF Due
  <2>4. ActiveNewest'
    BY <1>2, <1>3, <2>1, <2>3 DEF ActiveNewest, Usable
  <2>5. Batch(b, n)'
    BY <1>2, <2>1 DEF Batch, Increasing
  <2>6. LogOrdered' /\ AckedKept'
    BY <1>s, <2>1 DEF LogOrdered, AckedKept
  <2>7. Issued(n)'
    BY <2>1, IssuedMore DEF Issued
  <2> QED
    BY <1>4, <2>1, <2>2, <2>4, <2>5, <2>6, <2>7 DEF WInv
<1>7. CASE LogWrites(b, force)
  <2>1. /\ Rotates => active < MaxSeq
        /\ files' = Written(b, FALSE) /\ active' = Target /\ buffer' = <<>>
        /\ acked' = acked \cup Range(b) /\ UNCHANGED writeFailed
    BY <1>7 DEF LogWrites
  <2>2. /\ FilesShape' /\ LogOrdered' /\ Issued(n)'
        /\ Target \in DOMAIN files' /\ files'[Target].torn = FALSE
        /\ \A s \in DOMAIN files' : s <= Target
        /\ \A s \in DOMAIN files :
             s \in DOMAIN files' /\ Range(files[s].recs) \subseteq Range(files'[s].recs)
        /\ Range(b) \subseteq Range(files'[Target].recs)
    BY <1>2, <2>1, BatchWritten
  <2>3. Target \in Nat
    BY <1>2, <2>1, TargetFacts
  <2>4. WShapes'
    <3>1. Range(b) \subseteq LogRecs
      BY <1>2, SeqBasics DEF Range
    <3> QED
      BY <1>s, <1>1, <2>1, <2>2, <2>3, <3>1 DEF WShapes
  <2>5. ActiveNewest'
    BY <2>1, <2>2 DEF ActiveNewest
  <2>6. Batch(<<>>, n)'
    BY DEF Batch, Increasing
  <2>7. AckedKept'
    BY <1>s, <2>1, <2>2 DEF AckedKept
  <2> QED
    BY <1>4, <2>1, <2>2, <2>4, <2>5, <2>6, <2>7 DEF WInv
<1>8. CASE LogFails(b, force)
  <2>1. /\ AppendFails(b) \/ RotateFails
        /\ writeFailed' = TRUE /\ buffer' = b /\ UNCHANGED acked
    BY <1>8 DEF LogFails
  <2>2. ~Usable'
    BY <2>1 DEF Usable
  <2>3. ASSUME FilesShape', LogOrdered', Issued(n)', active' \in Nat,
               \A s \in DOMAIN files :
                 s \in DOMAIN files' /\ Range(files[s].recs) \subseteq Range(files'[s].recs)
        PROVE  WInv'
    <3>1. WShapes'
      BY <1>s, <1>1, <1>2, <2>1, <2>3 DEF WShapes
    <3>2. AckedKept'
      BY <1>s, <2>1, <2>3 DEF AckedKept
    <3>3. ActiveNewest'
      BY <2>2 DEF ActiveNewest
    <3> QED
      BY <1>4, <2>2, <2>3, <3>1, <3>2, <3>3 DEF WInv
  <2>4. ASSUME UNCHANGED files, UNCHANGED active PROVE WInv'
    <3>1. Issued(n)'
      BY <2>4, IssuedMore DEF Issued
    <3>2. FilesShape' /\ LogOrdered' /\ active' \in Nat
      BY <1>s, <2>4 DEF FilesShape, LogOrdered, WShapes
    <3> QED
      BY <2>3, <2>4, <3>1, <3>2
  <2>5. ASSUME NEW recs, Batch(recs, n), NEW torn \in BOOLEAN, Rotates => active < MaxSeq,
               files' = Written(recs, torn), active' \in {active, Target}
        PROVE  WInv'
    <3>1. /\ FilesShape' /\ LogOrdered' /\ Issued(n)'
          /\ \A s \in DOMAIN files :
               s \in DOMAIN files' /\ Range(files[s].recs) \subseteq Range(files'[s].recs)
      BY <1>2, <2>5, BatchWritten
    <3>2. active' \in Nat
      BY <1>s, <1>2, <2>5, TargetFacts DEF WShapes
    <3> QED
      BY <2>3, <3>1, <3>2
  <2>6. CASE AppendFails(b)
    <3>1. PICK k \in 0..Len(b), torn \in BOOLEAN : files' = Written(SubSeq(b, 1, k), torn)
      BY <2>6 DEF AppendFails
    <3>2. (Rotates => active < MaxSeq) /\ active' = Target
      BY <2>6 DEF AppendFails
    <3>3. Batch(SubSeq(b, 1, k), n)
      BY <1>2, BatchPrefix
    <3> QED
      BY <2>5, <3>1, <3>2, <3>3
  <2>7. CASE RotateFails
    <3>1. active' = active /\ (UNCHANGED files \/ (active < MaxSeq /\ files' = Written(<<>>, FALSE)))
      BY <2>7 DEF RotateFails
    <3>2. Batch(<<>>, n)
      BY DEF Batch, Increasing
    <3> QED
      BY <2>4, <2>5, <3>1, <3>2
  <2> QED
    BY <2>1, <2>6, <2>7
<1> QED
  BY <1>6, <1>7, <1>8 DEF LogCall

-----------------------------------------------------------------------------
(* The other steps.                                                         *)

\* A step of the threads that touches neither files nor buffer nor history.
LEMMA ThreadStep ==
    ASSUME WInv, UNCHANGED <<files, active, buffer, writeFailed, checkpoint>>,
           UNCHANGED <<logged, acked, highest>>,
           mutex' \in {"free", "cleaner"}, cleaner' \in [pc : CleanerPcs, todo : SUBSET Nat],
           owner' \in {"closed", "using", "notify", "join", "flush"},
           owner' # "closed" => owner # "closed", CleanerScans'
    PROVE  WInv'
<1>1. WShapes'
  BY DEF WInv, WShapes, FilesShape
<1>2. Usable' => Usable
  BY DEF Usable
<1>3. ActiveNewest'
  BY <1>2 DEF WInv, ActiveNewest
<1>4. LogOrdered' /\ AckedKept' /\ Issued(logged)'
  BY DEF WInv, LogOrdered, AckedKept, Issued
<1>5. Usable' => Batch(buffer, logged)'
  BY <1>2 DEF WInv, Batch, Increasing
<1> QED
  BY <1>1, <1>3, <1>4, <1>5 DEF WInv

\* highest only grows, to cover the checkpoint.
LEMMA HighestGrows ==
    ASSUME NEW a \in Nat, NEW c \in Nat
    PROVE  Max({a, c}) \in Nat /\ a <= Max({a, c}) /\ c <= Max({a, c})
<1>1. a + c \in Nat /\ {a, c} \subseteq 0..(a + c) /\ {a, c} # {}
  OBVIOUS
<1>2. Max({a, c}) \in {a, c} /\ \A y \in {a, c} : y <= Max({a, c})
  BY <1>1, MaxBounded
<1> QED
  BY <1>2

\* A record whose transaction no checkpoint covers stays uncovered only longer.
LEMMA AckedStay ==
    ASSUME WInv, highest' \in Nat, highest <= highest', UNCHANGED acked,
           \A r \in acked : r.tx > highest =>
              \A s \in DOMAIN files : r \in Range(files[s].recs) =>
                s \in DOMAIN files' /\ files'[s] = files[s]
    PROVE  AckedKept'
<1> SUFFICES ASSUME NEW r \in acked, r.tx > highest'
             PROVE  \E s \in DOMAIN files' : r \in Range(files'[s].recs)
  BY DEF AckedKept
<1>1. r \in LogRecs /\ highest \in Nat
  BY DEF WInv, WShapes
<1>2. r.tx \in Nat
  BY <1>1, TxsAssumption DEF LogRecs
<1>3. r.tx > highest
  BY <1>1, <1>2
<1>4. PICK s \in DOMAIN files : r \in Range(files[s].recs)
  BY <1>3 DEF WInv, AckedKept
<1> QED
  BY <1>3, <1>4

\* The constructor numbers its file above every other.
LEMMA NextSeqFacts ==
    ASSUME FilesShape, MaxSeq \notin DOMAIN files
    PROVE  NextSeq \in 0..MaxSeq /\ \A s \in DOMAIN files : s \in Nat /\ s < NextSeq
<1>1. MaxSeq \in Nat /\ DOMAIN files \subseteq 0..MaxSeq
  BY SizesAssumption DEF FilesShape
<1>2. CASE DOMAIN files = {}
  BY <1>1, <1>2 DEF NextSeq
<1>3. CASE DOMAIN files # {}
  <2>1. PICK m : m = Max(DOMAIN files)
    OBVIOUS
  <2>2. m \in DOMAIN files /\ \A s \in DOMAIN files : s <= m
    BY <1>1, <1>3, <2>1, MaxBounded
  <2>3. NextSeq = m + 1
    BY <1>3, <2>1 DEF NextSeq
  <2> QED
    BY <1>1, <2>2, <2>3
<1> QED
  BY <1>2, <1>3

\* Opening the log.
LEMMA OpenStep ==
    ASSUME WInv, NEW c \in Txs \cup {0}, NEW cleans \in BOOLEAN, Open(c, cleans)
    PROVE  WInv'
<1>s. WShapes /\ FilesShape /\ LogOrdered /\ Issued(logged)
  BY DEF WInv, WShapes
<1>1. /\ MaxSeq \notin DOMAIN files
      /\ files' = [s \in DOMAIN files \cup {NextSeq} |->
                     IF s = NextSeq THEN EmptyFile ELSE files[s]]
      /\ active' = NextSeq /\ buffer' = <<>> /\ writeFailed' = FALSE
      /\ checkpoint' = c /\ highest' = Max({highest, c})
      /\ mutex' = "free" /\ owner' = "using" /\ UNCHANGED <<logged, acked>>
      /\ cleaner' = IF cleans THEN [NoThread EXCEPT !.pc = "lock"] ELSE NoThread
  BY DEF Open
<1>2. NextSeq \in 0..MaxSeq /\ \A s \in DOMAIN files : s \in Nat /\ s < NextSeq
  BY <1>s, <1>1, NextSeqFacts
<1>3. NextSeq \notin DOMAIN files /\ NextSeq \in Nat
  BY <1>2
<1>4. /\ DOMAIN files' = DOMAIN files \cup {NextSeq}
      /\ \A s \in DOMAIN files : files'[s] = files[s]
      /\ files'[NextSeq] = EmptyFile
  BY <1>1, <1>3
<1>5. EmptyFile \in LogFiles /\ DOMAIN EmptyFile.recs = {} /\ EmptyFile.torn = FALSE
  BY DEF EmptyFile, LogFiles
<1>6. FilesShape'
  <2>1. \A s \in DOMAIN files' : files'[s] \in LogFiles
    BY <1>s, <1>4, <1>5 DEF FilesShape
  <2>2. files' = [s \in DOMAIN files' |-> files'[s]]
    BY <1>1
  <2>3. DOMAIN files' \subseteq 0..MaxSeq
    BY <1>s, <1>2, <1>4 DEF FilesShape
  <2>4. files' \in [DOMAIN files' -> LogFiles]
    BY <2>1, <2>2
  <2> QED
    BY <2>3, <2>4 DEF FilesShape
<1>7. highest' \in Nat /\ highest <= highest' /\ checkpoint' <= highest' /\ checkpoint' \in Nat
  <2>1. c \in Nat /\ highest \in Nat
    BY <1>s, TxsAssumption DEF WShapes
  <2> QED
    BY <1>1, <2>1, HighestGrows
<1>8. cleaner' \in [pc : CleanerPcs, todo : SUBSET Nat] /\ cleaner'.pc # "scan"
  <2>1. NoThread \in [pc : CleanerPcs, todo : SUBSET Nat] /\ NoThread.pc = "none"
    BY DEF NoThread, CleanerPcs
  <2>2. /\ [NoThread EXCEPT !.pc = "lock"] \in [pc : CleanerPcs, todo : SUBSET Nat]
        /\ [NoThread EXCEPT !.pc = "lock"].pc = "lock"
    BY <2>1 DEF CleanerPcs
  <2> QED
    BY <1>1, <2>1, <2>2
<1>9. WShapes'
  <2>1. /\ active' \in Nat /\ buffer' \in Seq(LogRecs) /\ writeFailed' \in BOOLEAN
    <3>1. active' = NextSeq /\ buffer' = <<>>
      BY <1>1
    <3>2. writeFailed' = FALSE
      BY <1>1
    <3>3. active' \in Nat /\ buffer' \in Seq(LogRecs)
      BY <1>3, <3>1
    <3> QED
      BY <3>2, <3>3
  <2>2. /\ mutex' \in {"free", "cleaner"}
        /\ owner' \in {"closed", "using", "notify", "join", "flush"}
    BY <1>1
  <2>3. logged' \in Nat /\ acked' \subseteq LogRecs
    BY <1>s, <1>1 DEF WShapes
  <2> QED
    BY <1>6, <1>7, <1>8, <2>1, <2>2, <2>3 DEF WShapes
<1>10. ActiveNewest'
  BY <1>1, <1>2, <1>4, <1>5 DEF ActiveNewest
<1>11. ASSUME NEW s \in DOMAIN files', NEW i \in DOMAIN files'[s].recs
       PROVE  s \in DOMAIN files /\ files'[s] = files[s]
  BY <1>4, <1>5, <1>11
<1>12. LogOrdered'
  BY <1>s, <1>11 DEF LogOrdered
<1>13. Issued(logged)'
  BY <1>s, <1>1, <1>11 DEF Issued
<1>14. Batch(buffer, logged)'
  BY <1>1 DEF Batch, Increasing
<1>15. AckedKept'
  BY <1>1, <1>4, <1>7, AckedStay
<1>16. CleanerScans'
  BY <1>8 DEF CleanerScans
<1> QED
  BY <1>9, <1>10, <1>12, <1>13, <1>14, <1>15, <1>16 DEF WInv

\* set_checkpoint_tranc_id.
LEMMA CheckpointStep ==
    ASSUME WInv, NEW c \in Txs, SetCheckpoint(c) PROVE WInv'
<1>1. /\ checkpoint' = c /\ highest' = Max({highest, c})
      /\ UNCHANGED <<files, active, buffer, writeFailed, mutex, cleaner, owner>>
      /\ UNCHANGED <<logged, acked>>
  BY DEF SetCheckpoint, threads
<1>2. highest' \in Nat /\ highest <= highest' /\ checkpoint' <= highest' /\ checkpoint' \in Nat
  <2>1. c \in Nat /\ highest \in Nat
    BY TxsAssumption DEF WInv, WShapes
  <2> QED
    BY <1>1, <2>1, HighestGrows
<1>3. AckedKept'
  BY <1>1, <1>2, AckedStay
<1>4. WShapes'
  BY <1>1, <1>2 DEF WInv, WShapes, FilesShape
<1>5. ActiveNewest' /\ LogOrdered' /\ Issued(logged)' /\ CleanerScans'
  <2>1. ActiveNewest'
    BY <1>1 DEF WInv, ActiveNewest, Usable
  <2>2. LogOrdered'
    BY <1>1 DEF WInv, LogOrdered
  <2>3. Issued(logged)'
    BY <1>1 DEF WInv, Issued
  <2>4. CleanerScans'
    BY <1>1 DEF WInv, CleanerScans
  <2> QED
    BY <2>1, <2>2, <2>3, <2>4
<1>6. Usable' => Batch(buffer, logged)'
  BY <1>1 DEF WInv, Usable, Batch, Increasing
<1> QED
  BY <1>3, <1>4, <1>5, <1>6 DEF WInv

\* The cleaner removes a file whose records the checkpoint covers.
LEMMA CleanStep ==
    ASSUME WInv, NEW s, CleanFile(s) PROVE WInv'
<1>s. WShapes /\ FilesShape /\ LogOrdered /\ Issued(logged) /\ CleanerScans
  BY DEF WInv, WShapes
<1>1. /\ cleaner.pc = "scan" /\ s \in cleaner.todo
      /\ \/ Deletable(s) /\ files' = [x \in DOMAIN files \ {s} |-> files[x]]
         \/ UNCHANGED files
      /\ cleaner' = [cleaner EXCEPT !.todo = @ \ {s}]
      /\ UNCHANGED <<active, buffer, writeFailed, checkpoint, mutex, owner>>
      /\ UNCHANGED <<logged, acked, highest>>
  BY DEF CleanFile, At, memory, history
<1>2. cleaner' \in [pc : CleanerPcs, todo : SUBSET Nat] /\ cleaner'.todo \subseteq cleaner.todo
      /\ cleaner'.pc = "scan"
  BY <1>s, <1>1 DEF WShapes
<1>3. CleanerScans'
  BY <1>s, <1>1, <1>2 DEF CleanerScans
<1>4. CASE UNCHANGED files
  BY <1>s, <1>1, <1>2, <1>3, <1>4, ThreadStep DEF WShapes
<1>5. CASE Deletable(s) /\ files' = [x \in DOMAIN files \ {s} |-> files[x]]
  <2>1. /\ DOMAIN files' = DOMAIN files \ {s}
        /\ \A x \in DOMAIN files' : x \in DOMAIN files /\ files'[x] = files[x]
    BY <1>5
  <2>2. s < active
    BY <1>s, <1>1 DEF CleanerScans
  <2>3. FilesShape'
    <3>1. files' \in [DOMAIN files' -> LogFiles]
      BY <1>s, <1>5, <2>1 DEF FilesShape
    <3> QED
      BY <1>s, <2>1, <3>1 DEF FilesShape
  <2>4. WShapes'
    BY <1>s, <1>1, <1>2, <2>3 DEF WShapes
  <2>5. ActiveNewest'
    <3>1. active \in Nat /\ active # s
      BY <1>s, <2>2 DEF WShapes
    <3> QED
      BY <1>1, <2>1, <3>1 DEF WInv, ActiveNewest, Usable
  <2>6. LogOrdered' /\ Issued(logged)'
    BY <1>s, <1>1, <2>1 DEF LogOrdered, Issued
  <2>7. Usable' => Batch(buffer, logged)'
    BY <1>1, <2>1 DEF WInv, Usable, Batch, Increasing
  <2>8. AckedKept'
    <3>1. highest' \in Nat /\ highest <= highest' /\ checkpoint \in Nat /\ checkpoint <= highest
      BY <1>s, <1>1 DEF WShapes
    <3>2. ASSUME NEW r \in acked, r.tx > highest, NEW x \in DOMAIN files,
                 r \in Range(files[x].recs)
          PROVE  x \in DOMAIN files' /\ files'[x] = files[x]
      <4>1. r \in LogRecs
        BY <1>s DEF WShapes
      <4>2. r.tx \in Nat
        BY <4>1, TxsAssumption DEF LogRecs
      <4>3. ~(r.tx <= checkpoint)
        BY <1>s, <3>1, <3>2, <4>2 DEF WShapes
      <4>4. x # s
        BY <1>5, <3>2, <4>3 DEF Deletable
      <4> QED
        BY <2>1, <4>4
    <3> QED
      BY <1>1, <3>1, <3>2, AckedStay
  <2> QED
    BY <1>3, <2>4, <2>5, <2>6, <2>7, <2>8 DEF WInv
<1> QED
  BY <1>1, <1>4, <1>5

-----------------------------------------------------------------------------
(* The theorems.                                                            *)

\* The steps of the cleaner that only take, keep or release the lock.
LEMMA CleanerQuiet ==
    ASSUME WInv, \/ CleanerLock \/ CleanerCheck \/ CleanerSleep \/ CleanerRelock
                 \/ CleanBegin \/ CleanEnd \/ CleanerTimeout \/ CleanerSpurious
    PROVE  WInv'
<1>s. /\ cleaner \in [pc : CleanerPcs, todo : SUBSET Nat] /\ CleanerScans
      /\ mutex \in {"free", "cleaner"}
      /\ owner \in {"closed", "using", "notify", "join", "flush"}
  BY DEF WInv, WShapes
<1>1. /\ UNCHANGED <<files, active, buffer, writeFailed, checkpoint, owner>>
      /\ UNCHANGED <<logged, acked, highest>>
  BY DEF CleanerLock, CleanerCheck, CleanerSleep, CleanerRelock, CleanBegin, CleanEnd,
         CleanerTimeout, CleanerSpurious, cleanerLocal, memory, history
<1>2. mutex' \in {"free", "cleaner"}
  BY <1>s DEF CleanerLock, CleanerCheck, CleanerSleep, CleanerRelock, CleanBegin, CleanEnd,
              CleanerTimeout, CleanerSpurious
<1>3. ASSUME NEW pc \in CleanerPcs, pc # "scan", Go(pc)
      PROVE  cleaner' \in [pc : CleanerPcs, todo : SUBSET Nat] /\ CleanerScans'
  BY <1>s, <1>3 DEF Go, CleanerScans
<1>4. CASE ~CleanBegin
  <2>1. \E pc \in CleanerPcs : pc # "scan" /\ Go(pc)
    BY <1>4 DEF CleanerLock, CleanerCheck, CleanerSleep, CleanerRelock, CleanEnd,
                CleanerTimeout, CleanerSpurious, CleanerPcs
  <2> QED
    BY <1>s, <1>1, <1>2, <1>3, <2>1, ThreadStep
<1>5. CASE CleanBegin
  <2>1. /\ cleaner' = [pc |-> "scan", todo |-> {s \in DOMAIN files : s < active}]
        /\ mutex' = "cleaner"
    BY <1>5 DEF CleanBegin
  <2>2. {s \in DOMAIN files : s < active} \subseteq Nat
    BY DEF WInv, WShapes, FilesShape
  <2>3. cleaner' \in [pc : CleanerPcs, todo : SUBSET Nat]
    BY <2>1, <2>2 DEF CleanerPcs
  <2>4. CleanerScans'
    BY <1>1, <2>1 DEF CleanerScans
  <2> QED
    BY <1>s, <1>1, <1>2, <2>3, <2>4, ThreadStep
<1> QED
  BY <1>4, <1>5

\* The steps of the destructor that touch no file, and a crash.
LEMMA StopQuiet ==
    ASSUME WInv, StopSet \/ StopNotify \/ StopJoin \/ Crash PROVE WInv'
<1>s. /\ cleaner \in [pc : CleanerPcs, todo : SUBSET Nat] /\ CleanerScans
      /\ mutex \in {"free", "cleaner"}
  BY DEF WInv, WShapes
<1>1. /\ UNCHANGED <<files, active, buffer, writeFailed, checkpoint>>
      /\ UNCHANGED <<logged, acked, highest>>
  BY DEF StopSet, StopNotify, StopJoin, Crash, memory, history
<1>2. /\ owner' \in {"closed", "using", "notify", "join", "flush"}
      /\ owner' # "closed" => owner # "closed"
  BY DEF StopSet, StopNotify, StopJoin, Crash
<1>3. mutex' \in {"free", "cleaner"}
  BY <1>s DEF StopSet, StopNotify, StopJoin, Crash, threads
<1>4. CASE StopSet \/ StopJoin
  <2>1. UNCHANGED <<mutex, cleaner>>
    BY <1>4 DEF StopSet, StopJoin, threads
  <2>2. CleanerScans'
    BY <1>s, <1>1, <2>1 DEF CleanerScans
  <2> QED
    BY <1>s, <1>1, <1>2, <1>3, <2>1, <2>2, ThreadStep
<1>5. CASE StopNotify
  <2>1. /\ cleaner' = IF At("asleep") THEN [cleaner EXCEPT !.pc = "lock"] ELSE cleaner
        /\ UNCHANGED mutex
    BY <1>5 DEF StopNotify
  <2>2. cleaner' \in [pc : CleanerPcs, todo : SUBSET Nat]
    BY <1>s, <2>1 DEF CleanerPcs
  <2>3. cleaner'.pc = "scan" => cleaner' = cleaner
    BY <1>s, <2>1
  <2>4. CleanerScans'
    BY <1>s, <1>1, <2>1, <2>3 DEF CleanerScans
  <2> QED
    BY <1>s, <1>1, <1>2, <1>3, <2>2, <2>4, ThreadStep
<1>6. CASE Crash
  <2>1. cleaner' = NoThread
    BY <1>6 DEF Crash
  <2>2. cleaner' \in [pc : CleanerPcs, todo : SUBSET Nat] /\ cleaner'.pc = "none"
    BY <2>1 DEF NoThread, CleanerPcs
  <2>3. CleanerScans'
    BY <2>2 DEF CleanerScans
  <2> QED
    BY <1>1, <1>2, <1>3, <2>2, <2>3, ThreadStep
<1> QED
  BY <1>4, <1>5, <1>6

\* log appends its record to the buffer and may write all of it.
LEMMA LogStep ==
    ASSUME WInv, NEW t \in Txs, NEW force \in BOOLEAN, Log(t, force) PROVE WInv'
<1> DEFINE r == [n |-> logged + 1, tx |-> t]
<1>s. /\ logged \in Nat /\ buffer \in Seq(LogRecs) /\ FilesShape
      /\ owner \in {"closed", "using", "notify", "join", "flush"}
  BY DEF WInv, WShapes
<1>1. /\ owner # "closed" /\ owner' = owner /\ logged' = logged + 1
      /\ LogCall(Append(buffer, r), force) /\ UNCHANGED <<mutex, cleaner, highest>>
  BY DEF Log, threads
<1>2. PICK n \in Nat : n = logged + 1
  BY <1>s
<1>3. r \in LogRecs /\ r.n = n
  BY <1>2 DEF LogRecs
<1>4. PICK b : b = Append(buffer, r)
  OBVIOUS
<1> HIDE DEF r
<1>5. ~writeFailed => Batch(b, n)
  <2> SUFFICES ASSUME ~writeFailed PROVE Batch(b, n)
    OBVIOUS
  <2>1. Batch(buffer, logged)
    BY <1>1 DEF WInv, Usable
  <2>2. /\ b \in Seq(LogRecs) /\ Len(b) = Len(buffer) + 1 /\ b[Len(buffer) + 1] = r
        /\ \A i \in DOMAIN buffer : b[i] = buffer[i]
    BY <1>s, <1>3, <1>4, AppendFacts
  <2>3. /\ DOMAIN b = 1..Len(b) /\ Len(buffer) \in Nat /\ DOMAIN buffer = 1..Len(buffer)
    BY <1>s, <2>2, SeqBasics
  <2>4. ASSUME NEW j \in DOMAIN b PROVE j \in DOMAIN buffer \/ j = Len(buffer) + 1
    BY <2>2, <2>3, <2>4
  <2>5. \A j \in DOMAIN buffer : buffer[j].n \in Nat
    <3>1. \A j \in DOMAIN buffer : buffer[j] \in LogRecs
      BY <1>s, SeqBasics
    <3> QED
      BY <3>1 DEF LogRecs
  <2>6. Increasing(b)
    <3> SUFFICES ASSUME NEW i \in DOMAIN b, NEW j \in DOMAIN b, i < j PROVE b[i].n < b[j].n
      BY DEF Increasing
    <3>1. i \in DOMAIN buffer
      BY <2>2, <2>3
    <3>2. CASE j \in DOMAIN buffer
      BY <2>1, <2>2, <3>1, <3>2 DEF Batch, Increasing
    <3>3. CASE j = Len(buffer) + 1
      <4>1. b[i].n <= logged /\ b[i].n \in Nat /\ b[j].n = n
        BY <1>3, <2>1, <2>2, <2>5, <3>1, <3>3 DEF Batch
      <4> QED
        BY <1>s, <1>2, <4>1
    <3> QED
      BY <2>4, <3>2, <3>3
  <2>7. ASSUME NEW j \in DOMAIN b PROVE b[j].n <= n
    <3>1. CASE j \in DOMAIN buffer
      <4>1. b[j].n <= logged /\ b[j].n \in Nat
        BY <2>1, <2>2, <2>5, <3>1 DEF Batch
      <4> QED
        BY <1>s, <1>2, <4>1
    <3>2. CASE j = Len(buffer) + 1
      BY <1>2, <1>3, <2>2, <3>2
    <3> QED
      BY <2>4, <3>1, <3>2
  <2>8. ASSUME NEW s \in DOMAIN files, NEW i \in DOMAIN files[s].recs, NEW j \in DOMAIN b
        PROVE  files[s].recs[i].n < b[j].n
    <3>1. CASE j \in DOMAIN buffer
      BY <2>1, <2>2, <3>1 DEF Batch
    <3>2. CASE j = Len(buffer) + 1
      <4>1. files[s].recs[i].n <= logged
        BY DEF WInv, Issued
      <4>2. files[s].recs[i].n \in Nat
        BY <1>s, StoredNumber
      <4>3. b[j].n = n
        BY <1>3, <2>2, <3>2
      <4> QED
        BY <1>s, <1>2, <4>1, <4>2, <4>3
    <3> QED
      BY <2>4, <3>1, <3>2
  <2> QED
    BY <2>2, <2>6, <2>7, <2>8 DEF Batch
<1>6. n >= logged
  BY <1>s, <1>2
<1> QED
  BY <1>s, <1>1, <1>2, <1>4, <1>5, <1>6, LogCallStep

\* Every step preserves the invariant.
LEMMA WInvStep == WInv /\ [WNext]_wvars => WInv'
<1> SUFFICES ASSUME WInv, [WNext]_wvars PROVE WInv'
  OBVIOUS
<1>s. /\ cleaner \in [pc : CleanerPcs, todo : SUBSET Nat] /\ CleanerScans
      /\ mutex \in {"free", "cleaner"} /\ logged \in Nat
      /\ owner \in {"closed", "using", "notify", "join", "flush"}
  BY DEF WInv, WShapes
<1>0. ASSUME UNCHANGED <<files, active, buffer, writeFailed, checkpoint, mutex, cleaner>>,
             UNCHANGED <<owner, logged, acked, highest>>
      PROVE  WInv'
  <2>1. CleanerScans'
    BY <1>s, <1>0 DEF CleanerScans
  <2> QED
    BY <1>s, <1>0, <2>1, ThreadStep
<1>1. CASE \E c \in Txs \cup {0}, cleans \in BOOLEAN : Open(c, cleans)
  BY <1>1, OpenStep
<1>2. CASE OpenExhausted \/ UNCHANGED wvars
  <2>1. /\ UNCHANGED <<files, active, buffer, writeFailed, checkpoint, mutex, cleaner>>
        /\ UNCHANGED <<owner, logged, acked, highest>>
    BY <1>2 DEF OpenExhausted, wvars, memory, threads, history
  <2> QED
    BY <1>0, <2>1
<1>3. CASE \E t \in Txs, force \in BOOLEAN : Log(t, force)
  BY <1>3, LogStep
<1>4. CASE Flush \/ StopFlush
  <2>1. /\ owner # "closed" /\ logged' = logged /\ UNCHANGED <<mutex, cleaner, highest>>
        /\ owner' \in {"closed", "using", "notify", "join", "flush"}
    BY <1>s, <1>4 DEF Flush, StopFlush, threads
  <2>2. PICK b : b = buffer
    OBVIOUS
  <2>3. PICK n \in Nat : n = logged
    BY <1>s
  <2>4. ~writeFailed => Batch(b, n)
    BY <2>1, <2>2, <2>3 DEF WInv, Usable
  <2>5. CASE LogCall(buffer, TRUE)
    <3>1. LogCall(b, TRUE)
      BY <2>2, <2>5
    <3>2. TRUE \in BOOLEAN
      OBVIOUS
    <3>3. n >= logged /\ logged' = n
      BY <1>s, <2>1, <2>3
    <3> QED
      BY <2>1, <2>3, <2>4, <3>1, <3>2, <3>3, LogCallStep
  <2>6. CASE ~LogCall(buffer, TRUE)
    <3>1. UNCHANGED <<files, active, buffer, writeFailed, checkpoint, acked>> /\ owner' = "closed"
      BY <1>4, <2>6 DEF Flush, StopFlush, memory
    <3>2. CleanerScans'
      BY <1>s, <2>1, <3>1 DEF CleanerScans
    <3> QED
      BY <1>s, <2>1, <3>1, <3>2, ThreadStep
  <2> QED
    BY <2>5, <2>6
<1>5. CASE \E c \in Txs : SetCheckpoint(c)
  BY <1>5, CheckpointStep
<1>6. CASE CleanerStep \/ CleanerTimeout \/ CleanerSpurious
  BY <1>6, CleanerQuiet, CleanStep DEF CleanerStep
<1>7. CASE StopSet \/ StopNotify \/ StopJoin \/ Crash
  BY <1>7, StopQuiet
<1> QED
  BY <1>1, <1>2, <1>3, <1>4, <1>5, <1>6, <1>7 DEF WNext, StopStep

\* The invariant holds of the log, whatever fails and wherever it crashes.
THEOREM WalInvariance == WSpec => []WInv
<1>1. WInit => WInv
  <2> SUFFICES ASSUME WInit PROVE WInv
    OBVIOUS
  <2>1. DOMAIN files = {} /\ files \in [DOMAIN files -> LogFiles]
    BY DEF WInit
  <2>2. WShapes
    <3>1. /\ active = 0 /\ buffer = <<>> /\ checkpoint = 0 /\ highest = 0 /\ logged = 0
          /\ mutex = "free" /\ owner = "closed" /\ acked = {} /\ cleaner = NoThread
      BY DEF WInit
    <3>2. writeFailed \in BOOLEAN
      BY DEF WInit
    <3>3. cleaner \in [pc : CleanerPcs, todo : SUBSET Nat]
      BY <3>1 DEF NoThread, CleanerPcs
    <3>4. FilesShape
      BY <2>1 DEF FilesShape
    <3>5. /\ active \in Nat /\ buffer \in Seq(LogRecs) /\ checkpoint <= highest
          /\ checkpoint \in Nat /\ highest \in Nat /\ logged \in Nat /\ acked \subseteq LogRecs
      BY <3>1
    <3>6. /\ mutex \in {"free", "cleaner"}
          /\ owner \in {"closed", "using", "notify", "join", "flush"}
      BY <3>1
    <3> QED
      BY <3>2, <3>3, <3>4, <3>5, <3>6 DEF WShapes
  <2>3. ~Usable /\ cleaner.pc = "none" /\ acked = {}
    BY DEF WInit, Usable, NoThread
  <2> QED
    BY <2>1, <2>2, <2>3 DEF WInv, ActiveNewest, LogOrdered, Issued, CleanerScans, AckedKept
<1> QED
  BY <1>1, WInvStep, PTL DEF WSpec

\* reset_file and the constructor: the active file of a usable log is the
\* newest of the directory and intact, and less than a full buffer waits.
THEOREM WalTypeCorrect == WSpec => []WTypeOK
<1>1. WInv => WTypeOK
  <2> SUFFICES ASSUME WInv PROVE WTypeOK
    OBVIOUS
  <2>1. DOMAIN files \subseteq 0..MaxSeq /\ mutex \in {"free", "cleaner"}
    BY DEF WInv, WShapes, FilesShape
  <2>2. ASSUME Usable
        PROVE  /\ active = Max(DOMAIN files) /\ ~files[active].torn
               /\ buffer = <<>> \/ Len(buffer) < BufferSize
    <3>1. /\ active \in DOMAIN files /\ ~files[active].torn
          /\ \A s \in DOMAIN files : s <= active
          /\ buffer = <<>> \/ Len(buffer) < BufferSize
      BY <2>2 DEF WInv, ActiveNewest
    <3>2. Max(DOMAIN files) \in DOMAIN files /\ active <= Max(DOMAIN files)
      BY <2>1, <3>1, SizesAssumption, MaxBounded
    <3>3. PICK m \in DOMAIN files : m = Max(DOMAIN files)
      BY <3>2
    <3>4. m <= active /\ active <= m /\ m \in Nat /\ active \in Nat
      BY <2>1, <3>1, <3>2, <3>3
    <3> QED
      BY <3>1, <3>3, <3>4
  <2> QED
    BY <2>1, <2>2 DEF WTypeOK, Usable
<1> QED
  BY <1>1, WalInvariance, PTL

\* log and reset_file across failures, rotations and restarts: read in the
\* order of their numbers, the files hold every record at most once and in the
\* order of the calls, although a failed batch stays in the buffer.
THEOREM WalOrdered == WSpec => []LogOrdered
<1>1. WInv => LogOrdered
  BY DEF WInv
<1> QED
  BY <1>1, WalInvariance, PTL

\* log against cleanWALFile, reset_file and the constructor: a record whose
\* write was reported and whose transaction no checkpoint ever covered is in a
\* file, whatever was rotated, cleaned, closed or crashed since.
THEOREM WalKeeps == WSpec => []AckedKept
<1>1. WInv => AckedKept
  BY DEF WInv
<1> QED
  BY <1>1, WalInvariance, PTL
=============================================================================
