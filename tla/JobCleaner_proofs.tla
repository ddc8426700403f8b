-------------------------- MODULE JobCleaner_proofs --------------------------
(***************************************************************************)
(* The newest iterations survive every cleaner: RecentIterationsAreKept    *)
(* for every number of instances, every retention and every length of the  *)
(* history.  The argument rests on one fact about everything a cleaner or  *)
(* a worker has written down, however long ago: a stored iteration is at   *)
(* least as far (Reached), and deletions never undo that.                  *)
(*                                                                         *)
(* A sweep leaves nothing of what was outdated as it began: until it ends, *)
(* whatever of that is still stored lies within its boundary, and later in *)
(* its list (TailIsInSight).                                               *)
(***************************************************************************)
EXTENDS JobCleaner, TLAPS

\* Some stored iteration is n or newer.
Reached(n) == \E m \in stored : n <= m

\* A worker that found or holds an iteration is not ahead of the store.
CopyIsReached(q) == worker[q] \in {"Read", "Hold"} => copy[q] # 0 /\ Reached(copy[q])

\* Nor is a report that waits in a channel.
ReportsAreReached(q) == \A k \in 1 .. Len(channel[q]) : Reached(channel[q][k])

\* Whatever a cleaner is about to delete is a whole window behind a stored iteration.
DeletionsAreOutdated(q) ==
    /\ deleting[q] # 0 => Reached(deleting[q] + Retention)
    /\ sweep[q] = "List" => Reached(boundary[q] + Retention)
    /\ listed[q] # {} => \E m \in stored : \A i \in listed[q] : i + Retention <= m

NotesAreReached ==
    \A q \in Instances : CopyIsReached(q) /\ ReportsAreReached(q) /\ DeletionsAreOutdated(q)

Inv == TypeOK /\ RecentIterationsAreKept /\ NotesAreReached

\* A step after which the store is as far as before.
Advances == \A y \in stored : \E z \in stored' : y <= z

-----------------------------------------------------------------------------
(* Facts about the store *)

\* The window is behind the iteration it is measured from, by exactly its width.
LEMMA BoundaryIsBehind ==
    ASSUME NEW n \in Iterations
    PROVE  /\ RetentionBoundary(n) \in 0 .. LastIteration
           /\ RetentionBoundary(n) # 0 => RetentionBoundary(n) + Retention = n
  BY CleanerAssumption DEF RetentionBoundary, Iterations

\* Creating the iteration after one that is reached, or the first, opens no gap in the window
\* and takes nothing back.
LEMMA CreationKeeps ==
    ASSUME stored \subseteq Iterations, RecentIterationsAreKept,
           NEW n, Create(n),
           n = 1 \/ \E c \in Nat : n = c + 1 /\ Reached(c)
    PROVE  /\ stored' \subseteq Iterations
           /\ RecentIterationsAreKept'
           /\ Advances
           /\ n \in stored'
  <1> USE CleanerAssumption
  <1>1. n \in Iterations /\ stored' = stored \cup {n}
    BY DEF Create
  <1>2. stored' \subseteq Iterations /\ n \in stored' /\ Advances
    BY <1>1 DEF Advances, Iterations
  <1>3. ASSUME NEW top \in stored', NEW i \in 1 .. top, \A k \in stored' : k < i + Retention
        PROVE  i \in stored'
    <2>1. CASE top \in stored
      BY <1>1, <1>3, <2>1 DEF RecentIterationsAreKept
    <2>2. CASE top = n /\ i = n
      BY <1>1, <2>2
    <2>3. CASE top = n /\ i # n
      <3>1. PICK c \in Nat : n = c + 1 /\ Reached(c)
        BY <2>3, <1>3 DEF Iterations
      <3>2. PICK m \in stored : c <= m
        BY <3>1 DEF Reached
      <3>3. i \in 1 .. m
        BY <1>1, <2>3, <3>1, <3>2 DEF Iterations
      <3>4. QED
        BY <1>1, <1>3, <3>3 DEF RecentIterationsAreKept
    <2>4. QED
      BY <1>1, <2>1, <2>2, <2>3
  <1>4. RecentIterationsAreKept'
    BY <1>3 DEF RecentIterationsAreKept
  <1>5. QED
    BY <1>2, <1>4

\* Deleting iterations that are all a window behind one stored iteration takes none of the
\* recent ones and leaves every iteration reached that was.
LEMMA DeletionKeeps ==
    ASSUME stored \subseteq Iterations, RecentIterationsAreKept,
           NEW D, stored' = stored \ D,
           NEW m \in stored, \A d \in D : d \in Nat /\ d + Retention <= m
    PROVE  /\ stored' \subseteq Iterations
           /\ RecentIterationsAreKept'
           /\ Advances
           /\ m \in stored'
  <1> USE CleanerAssumption
  <1>1. m \in stored'
    BY DEF Iterations
  <1>2. ASSUME NEW y \in stored
        PROVE  \E z \in stored' : y <= z
    <2>1. CASE y \in D
      BY <1>1, <2>1 DEF Iterations
    <2>2. CASE y \notin D
      BY <2>2 DEF Iterations
    <2>3. QED
      BY <2>1, <2>2
  <1>3. ASSUME NEW top \in stored', NEW i \in 1 .. top, \A k \in stored' : k < i + Retention
        PROVE  i \in stored'
    <2>1. m < i + Retention
      BY <1>1, <1>3
    <2>2. i \in Nat /\ m \in Nat
      BY DEF Iterations
    <2>3. ASSUME NEW k \in stored PROVE k < i + Retention
      <3>1. CASE k \in D
        BY <2>1, <2>2, <3>1
      <3>2. CASE k \notin D
        BY <1>3, <3>2
      <3>3. QED
        BY <3>1, <3>2
    <2>4. i \in stored
      BY <1>3, <2>3 DEF RecentIterationsAreKept
    <2>5. i \notin D
      BY <2>1, <2>2
    <2>6. QED
      BY <2>4, <2>5
  <1>4. RecentIterationsAreKept'
    BY <1>3 DEF RecentIterationsAreKept
  <1>5. Advances
    BY <1>2 DEF Advances
  <1>6. QED
    BY <1>1, <1>4, <1>5

-----------------------------------------------------------------------------
(* The steps *)

\* What is written down stays reached while the store advances and nothing new is noted.
LEMMA CopyStaysReached ==
    ASSUME TypeOK, TypeOK', Advances, NEW q \in Instances, CopyIsReached(q),
           worker'[q] = "Idle" \/ (worker'[q] = worker[q] /\ copy'[q] = copy[q])
    PROVE  CopyIsReached(q)'
  BY CleanerAssumption DEF TypeOK, Advances, CopyIsReached, Reached, Iterations

LEMMA ReportsStayReached ==
    ASSUME TypeOK, TypeOK', Advances, NEW q \in Instances, ReportsAreReached(q),
           channel'[q] = <<>> \/ channel'[q] = channel[q]
    PROVE  ReportsAreReached(q)'
  <1>1. \A k \in 1 .. Len(channel[q]) : channel[q][k] \in Iterations
    BY DEF TypeOK
  <1>2. ASSUME NEW k \in 1 .. Len(channel[q]) PROVE \E z \in stored' : channel[q][k] <= z
    <2>1. PICK m \in stored : channel[q][k] <= m
      BY DEF ReportsAreReached, Reached
    <2>2. PICK z \in stored' : m <= z
      BY DEF Advances
    <2>3. channel[q][k] \in Nat /\ m \in Nat /\ z \in Nat
      BY <1>1 DEF TypeOK, Iterations
    <2>4. QED
      BY <2>1, <2>2, <2>3
  <1>3. QED
    BY <1>2 DEF ReportsAreReached, Reached

LEMMA DeletionsStayOutdated ==
    ASSUME TypeOK, TypeOK', Advances, NEW q \in Instances, DeletionsAreOutdated(q),
           deleting'[q] = 0 \/ deleting'[q] = deleting[q],
           sweep'[q] = "List" => sweep[q] = "List" /\ boundary'[q] = boundary[q],
           listed'[q] = {} \/ listed'[q] = listed[q]
    PROVE  DeletionsAreOutdated(q)'
  <1> USE CleanerAssumption
  <1>1. deleting'[q] # 0 => Reached(deleting[q] + Retention)'
    BY DEF TypeOK, Advances, DeletionsAreOutdated, Reached, Iterations
  <1>2. sweep'[q] = "List" => Reached(boundary[q] + Retention)'
    BY DEF TypeOK, Advances, DeletionsAreOutdated, Reached, Iterations
  <1>3. listed'[q] # {} => \E m \in stored' : \A i \in listed[q] : i + Retention <= m
    <2>1. CASE listed'[q] # {}
      <3>1. PICK m \in stored : \A i \in listed[q] : i + Retention <= m
        BY <2>1 DEF DeletionsAreOutdated
      <3>2. PICK z \in stored' : m <= z
        BY DEF Advances
      <3>3. \A i \in listed[q] : i \in Nat
        BY DEF TypeOK, Iterations
      <3>4. m \in Nat /\ z \in Nat
        BY DEF TypeOK, Iterations
      <3>5. \A i \in listed[q] : i + Retention <= z
        BY <3>1, <3>2, <3>3, <3>4
      <3>6. QED
        BY <3>5
    <2>2. QED
      BY <2>1
  <1>4. QED
    BY <1>1, <1>2, <1>3 DEF DeletionsAreOutdated, Reached

-----------------------------------------------------------------------------
(* Types *)

LEMMA TypeInit == Init => TypeOK
  BY CleanerAssumption DEF Init, TypeOK, Iterations

\* The parts of TypeOK that a kind of step writes.
WorkerTypeOK ==
    /\ worker \in [Instances -> {"Idle", "Read", "Create", "Hold"}]
    /\ copy \in [Instances -> 0 .. LastIteration]
StoreTypeOK ==
    /\ stored \subseteq Iterations
    /\ tail \in [Instances -> SUBSET Iterations]
    /\ revived \in SUBSET Iterations
SweepTypeOK ==
    /\ sweep \in [Instances -> {"Find", "List", "Delete", "Done", "Failed"}]
    /\ boundary \in [Instances -> 0 .. LastIteration]
    /\ listed \in [Instances -> SUBSET Iterations]
ReportTypeOK ==
    /\ channel \in [Instances -> Seq(Iterations)]
    /\ deleting \in [Instances -> 0 .. LastIteration]
    /\ lost \in SUBSET Iterations

LEMMA TypeParts ==
    /\ TypeOK => WorkerTypeOK /\ StoreTypeOK /\ SweepTypeOK /\ ReportTypeOK
    /\ WorkerTypeOK' /\ StoreTypeOK' /\ SweepTypeOK' /\ ReportTypeOK' => TypeOK'
  BY DEF TypeOK, WorkerTypeOK, StoreTypeOK, SweepTypeOK, ReportTypeOK

LEMMA HoldType ==
    ASSUME WorkerTypeOK, NEW p \in Instances, NEW n \in 0 .. LastIteration,
           NEW place \in {"Idle", "Read", "Create", "Hold"}, Hold(p, place, n)
    PROVE  WorkerTypeOK'
  BY DEF WorkerTypeOK, Hold

LEMMA CreateType ==
    ASSUME StoreTypeOK, NEW n, Create(n)
    PROVE  StoreTypeOK' /\ n \in Iterations
  BY DEF StoreTypeOK, Create

LEMMA SweepAtType ==
    ASSUME SweepTypeOK, NEW p \in Instances, NEW b \in 0 .. LastIteration,
           NEW iterations \in SUBSET Iterations,
           NEW place \in {"Find", "List", "Delete", "Done", "Failed"},
           SweepAt(p, place, b, iterations)
    PROVE  SweepTypeOK'
  BY DEF SweepTypeOK, SweepAt

LEMMA EndSweepType ==
    ASSUME SweepTypeOK, tail \in [Instances -> SUBSET Iterations], NEW p \in Instances,
           NEW how \in {"Find", "Done", "Failed"}, EndSweep(p, how)
    PROVE  SweepTypeOK' /\ tail' \in [Instances -> SUBSET Iterations]
  <1>1. SweepAt(p, how, 0, {}) /\ 0 \in 0 .. LastIteration
    BY CleanerAssumption DEF EndSweep
  <1>2. SweepTypeOK'
    BY <1>1, SweepAtType
  <1>3. QED
    BY <1>2 DEF EndSweep

LEMMA WorkerTypeStep ==
    ASSUME TypeOK, NEW p \in Instances, WorkerSteps(p)
    PROVE  TypeOK'
  <1> USE CleanerAssumption, TypeParts
  <1>0. 0 \in 0 .. LastIteration /\ stored \subseteq 0 .. LastIteration
        /\ 1 \in 0 .. LastIteration /\ copy[p] \in 0 .. LastIteration
    BY DEF TypeOK, Iterations
  <1>1. CASE FindJobMeta(p)
    <2>1. WorkerTypeOK'
      BY <1>0, <1>1, HoldType DEF FindJobMeta
    <2>2. QED
      BY <1>1, <2>1 DEF FindJobMeta, cleaner, StoreTypeOK, SweepTypeOK, ReportTypeOK
  <1>2. CASE ReadJob(p)
    <2>1. WorkerTypeOK'
      BY <1>0, <1>2, HoldType DEF ReadJob
    <2>2. QED
      BY <1>2, <2>1 DEF ReadJob, cleaner, StoreTypeOK, SweepTypeOK, ReportTypeOK
  <1>3. CASE Rest(p)
    <2>1. WorkerTypeOK'
      BY <1>0, <1>3, HoldType DEF Rest
    <2>2. QED
      BY <1>3, <2>1 DEF Rest, cleaner, StoreTypeOK, SweepTypeOK, ReportTypeOK
  <1>4. CASE CreateNewJob(p)
    <2>1. WorkerTypeOK'
      BY <1>0, <1>4, HoldType DEF CreateNewJob
    <2>2. StoreTypeOK'
      <3>1. CASE Create(1)
        BY <3>1, CreateType
      <3>2. CASE UNCHANGED <<stored, tail, revived>>
        BY <3>2 DEF StoreTypeOK
      <3>3. QED
        BY <1>4, <3>1, <3>2 DEF CreateNewJob
    <2>3. QED
      BY <1>4, <2>1, <2>2 DEF CreateNewJob, cleaner, SweepTypeOK, ReportTypeOK
  <1>5. CASE StartNewIteration(p)
    <2>1. StoreTypeOK' /\ copy[p] + 1 \in Iterations
      BY <1>5, CreateType DEF StartNewIteration
    <2>2. copy[p] + 1 \in 0 .. LastIteration
      BY <2>1 DEF Iterations
    <2>3. WorkerTypeOK'
      BY <1>5, <2>2, HoldType DEF StartNewIteration
    <2>4. RetentionBoundary(copy[p] + 1) \in 0 .. LastIteration
      BY <2>1, BoundaryIsBehind
    <2>5. channel' \in [Instances -> Seq(Iterations)] /\ lost' \in SUBSET Iterations
      <3>1. CASE channel' = [channel EXCEPT ![p] = Append(@, copy[p] + 1)] /\ UNCHANGED lost
        <4>1. Append(channel[p], copy[p] + 1) \in Seq(Iterations)
          BY <2>1 DEF ReportTypeOK
        <4>2. QED
          BY <3>1, <4>1 DEF ReportTypeOK
      <3>2. CASE lost' = lost \cup ({RetentionBoundary(copy[p] + 1)} \ {0}) /\ UNCHANGED channel
        BY <3>2, <2>4 DEF ReportTypeOK, Iterations
      <3>3. QED
        BY <1>5, <3>1, <3>2 DEF StartNewIteration, Report, Reported
    <2>6. QED
      BY <1>5, <2>1, <2>3, <2>5 DEF StartNewIteration, cleaner, SweepTypeOK, ReportTypeOK
  <1>6. CASE FindIterationStarted(p)
    <2>1. WorkerTypeOK'
      BY <1>0, <1>6, HoldType DEF FindIterationStarted
    <2>2. StoreTypeOK' /\ lost' \in SUBSET Iterations
      <3>1. CASE UNCHANGED <<stored, tail, lost, revived>>
        BY <3>1 DEF StoreTypeOK, ReportTypeOK
      <3>2. CASE Create(copy[p] + 1) /\ lost' = lost \cup ({RetentionBoundary(copy[p] + 1)} \ {0})
        <4>1. StoreTypeOK' /\ copy[p] + 1 \in Iterations
          BY <3>2, CreateType
        <4>2. RetentionBoundary(copy[p] + 1) \in 0 .. LastIteration
          BY <4>1, BoundaryIsBehind
        <4>3. QED
          BY <3>2, <4>1, <4>2 DEF ReportTypeOK, Iterations
      <3>3. QED
        BY <1>6, <3>1, <3>2 DEF FindIterationStarted
    <2>3. QED
      BY <1>6, <2>1, <2>2 DEF FindIterationStarted, cleaner, SweepTypeOK, ReportTypeOK
  <1>7. QED
    BY <1>1, <1>2, <1>3, <1>4, <1>5, <1>6 DEF WorkerSteps

LEMMA CleanerTypeStep ==
    ASSUME TypeOK, NEW p \in Instances, Sweep(p) \/ Messages(p) \/ Restart(p)
    PROVE  TypeOK'
  <1> USE CleanerAssumption, TypeParts
  <1>0. /\ 0 \in 0 .. LastIteration
        /\ tail \in [Instances -> SUBSET Iterations]
        /\ stored \subseteq Iterations
    BY DEF TypeOK
  <1>1. CASE SweepFind(p)
    <2>1. SweepTypeOK' /\ tail' \in [Instances -> SUBSET Iterations]
      <3>1. CASE EndSweep(p, "Done")
        BY <1>0, <3>1, EndSweepType
      <3>2. ASSUME NEW n \in stored, SweepAt(p, "List", RetentionBoundary(n), {}),
                   tail' = [tail EXCEPT ![p] = {i \in stored : IsOutdated(i)}]
            PROVE  SweepTypeOK' /\ tail' \in [Instances -> SUBSET Iterations]
        <4>1. RetentionBoundary(n) \in 0 .. LastIteration
          BY <1>0, <3>2, BoundaryIsBehind
        <4>2. SweepTypeOK'
          BY <3>2, <4>1, SweepAtType
        <4>3. {i \in stored : IsOutdated(i)} \in SUBSET Iterations
          BY <1>0
        <4>4. QED
          BY <1>0, <3>2, <4>2, <4>3
      <3>3. QED
        BY <1>1, <3>1, <3>2 DEF SweepFind
    <2>2. QED
      BY <1>1, <2>1 DEF SweepFind, workers, WorkerTypeOK, StoreTypeOK, ReportTypeOK
  <1>2. CASE SweepList(p)
    <2>1. OutdatedIterations(boundary[p]) \in SUBSET Iterations
      BY <1>0 DEF OutdatedIterations
    <2>2. SweepTypeOK' /\ tail' \in [Instances -> SUBSET Iterations]
      BY <1>0, <1>2, <2>1, SweepAtType, EndSweepType DEF SweepList
    <2>3. QED
      BY <1>2, <2>2 DEF SweepList, workers, WorkerTypeOK, StoreTypeOK, ReportTypeOK
  <1>3. CASE SweepDelete(p)
    <2>1. stored' \subseteq Iterations
      BY <1>0, <1>3 DEF SweepDelete
    <2>2. SweepTypeOK' /\ tail' \in [Instances -> SUBSET Iterations]
      <3>1. CASE EndSweep(p, "Done")
        BY <1>0, <3>1, EndSweepType
      <3>2. CASE UNCHANGED <<sweep, boundary, listed, tail>>
        BY <1>0, <3>2 DEF SweepTypeOK
      <3>3. QED
        BY <1>3, <3>1, <3>2 DEF SweepDelete
    <2>3. QED
      BY <1>3, <2>1, <2>2 DEF SweepDelete, workers, WorkerTypeOK, StoreTypeOK, ReportTypeOK
  <1>4. CASE SweepFails(p)
    <2>1. SweepTypeOK' /\ tail' \in [Instances -> SUBSET Iterations]
      BY <1>0, <1>4, EndSweepType DEF SweepFails
    <2>2. QED
      BY <1>4, <2>1 DEF SweepFails, workers, WorkerTypeOK, StoreTypeOK, ReportTypeOK
  <1>5. CASE ReceiveReport(p)
    <2>1. Head(channel[p]) \in Iterations /\ Tail(channel[p]) \in Seq(Iterations)
      BY <1>5 DEF ReceiveReport, ReportTypeOK
    <2>2. RetentionBoundary(Head(channel[p])) \in 0 .. LastIteration
      BY <2>1, BoundaryIsBehind
    <2>3. ReportTypeOK'
      BY <1>5, <2>1, <2>2 DEF ReceiveReport, ReportTypeOK
    <2>4. QED
      BY <1>5, <2>3 DEF ReceiveReport, WorkerTypeOK, StoreTypeOK, SweepTypeOK
  <1>6. CASE DeleteReported(p)
    <2>1. ReportTypeOK' /\ StoreTypeOK'
      BY <1>0, <1>6 DEF DeleteReported, workers, ReportTypeOK, StoreTypeOK
    <2>2. QED
      BY <1>6, <2>1 DEF DeleteReported, workers, WorkerTypeOK, SweepTypeOK
  <1>7. CASE DeleteReportedFails(p)
    <2>1. ReportTypeOK'
      BY <1>0, <1>7 DEF DeleteReportedFails, workers, ReportTypeOK, Iterations
    <2>2. QED
      BY <1>7, <2>1 DEF DeleteReportedFails, workers, WorkerTypeOK, StoreTypeOK, SweepTypeOK
  <1>8. CASE Restart(p)
    <2>1. ASSUME NEW k \in DOMAIN channel[p]
          PROVE  RetentionBoundary(channel[p][k]) \in 0 .. LastIteration
      <3>1. channel[p][k] \in Iterations
        BY DEF ReportTypeOK
      <3>2. QED
        BY <3>1, BoundaryIsBehind
    <2>2. Pending(p) \subseteq Iterations
      BY <2>1 DEF Pending, Iterations, ReportTypeOK
    <2>3. ReportTypeOK'
      BY <1>8, <2>2 DEF Restart, ReportTypeOK
    <2>4. WorkerTypeOK'
      BY <1>0, <1>8, HoldType DEF Restart
    <2>5. SweepTypeOK' /\ tail' \in [Instances -> SUBSET Iterations]
      BY <1>0, <1>8, EndSweepType DEF Restart
    <2>6. QED
      BY <1>0, <1>8, <2>3, <2>4, <2>5 DEF Restart, StoreTypeOK
  <1>9. QED
    BY <1>1, <1>2, <1>3, <1>4, <1>5, <1>6, <1>7, <1>8 DEF Sweep, Messages

-----------------------------------------------------------------------------
(* The window and the notes *)

Step(p) == WorkerSteps(p) \/ Sweep(p) \/ Messages(p) \/ Restart(p)

\* A step that leaves the store alone.
LEMMA SameStoreKeeps ==
    ASSUME TypeOK, RecentIterationsAreKept, UNCHANGED stored
    PROVE  RecentIterationsAreKept' /\ Advances
  BY CleanerAssumption DEF TypeOK, RecentIterationsAreKept, Advances, Iterations

\* No step takes a recent iteration away or the store back.
LEMMA StoreStep ==
    ASSUME Inv, NEW p \in Instances, Step(p)
    PROVE  RecentIterationsAreKept' /\ Advances
  <1> USE CleanerAssumption
  <1>0. /\ TypeOK /\ RecentIterationsAreKept /\ stored \subseteq Iterations
        /\ CopyIsReached(p) /\ DeletionsAreOutdated(p) /\ copy[p] \in Nat
    BY DEF Inv, NotesAreReached, TypeOK
  <1>1. CASE UNCHANGED stored
    BY <1>0, <1>1, SameStoreKeeps
  <1>2. CASE Create(1)
    BY <1>0, <1>2, CreationKeeps
  <1>3. CASE worker[p] = "Hold" /\ Create(copy[p] + 1)
    <2>1. Reached(copy[p])
      BY <1>0, <1>3 DEF CopyIsReached
    <2>2. \E c \in Nat : copy[p] + 1 = c + 1 /\ Reached(c)
      BY <1>0, <2>1
    <2>3. QED
      BY <1>0, <1>3, <2>2, CreationKeeps
  <1>4. CASE SweepDelete(p)
    <2>1. PICK D \in SUBSET listed[p] : stored' = stored \ D
      <3>1. CASE stored' = stored \ listed[p]
        BY <3>1
      <3>2. CASE \E batch \in SUBSET listed[p] : stored' = stored \ batch
        BY <3>2
      <3>3. QED
        BY <1>4, <3>1, <3>2 DEF SweepDelete
    <2>2. CASE listed[p] = {}
      <3>1. UNCHANGED stored
        BY <2>1, <2>2
      <3>2. QED
        BY <1>1, <3>1
    <2>3. CASE listed[p] # {}
      <3>1. PICK m \in stored : \A i \in listed[p] : i + Retention <= m
        BY <1>0, <2>3 DEF DeletionsAreOutdated
      <3>2. \A d \in D : d \in Nat /\ d + Retention <= m
        BY <1>0, <2>1, <3>1 DEF TypeOK, Iterations
      <3>3. QED
        BY <1>0, <2>1, <3>2, DeletionKeeps
    <2>4. QED
      BY <2>2, <2>3
  <1>5. CASE DeleteReported(p)
    <2>1. deleting[p] \in Nat /\ deleting[p] # 0 /\ stored' = stored \ {deleting[p]}
      BY <1>0, <1>5 DEF DeleteReported, TypeOK
    <2>2. PICK m \in stored : deleting[p] + Retention <= m
      BY <1>0, <2>1 DEF DeletionsAreOutdated, Reached
    <2>3. PICK D : D = {deleting[p]}
      OBVIOUS
    <2>4. stored' = stored \ D /\ \A d \in D : d \in Nat /\ d + Retention <= m
      BY <2>1, <2>2, <2>3
    <2>5. QED
      BY <1>0, <2>4, DeletionKeeps
  <1>6. QED
    BY <1>1, <1>2, <1>3, <1>4, <1>5
       DEF Step, WorkerSteps, Sweep, Messages, FindJobMeta, ReadJob, Rest, CreateNewJob,
           StartNewIteration, FindIterationStarted, SweepFind, SweepList, SweepFails,
           ReceiveReport, DeleteReportedFails, Restart

\* Every worker still holds what the store has reached.
LEMMA CopyStep ==
    ASSUME Inv, TypeOK', Advances, NEW p \in Instances, Step(p), NEW q \in Instances
    PROVE  CopyIsReached(q)'
  <1> USE CleanerAssumption
  <1>0. /\ TypeOK /\ CopyIsReached(q) /\ stored \subseteq Iterations
        /\ worker \in [Instances -> {"Idle", "Read", "Create", "Hold"}]
        /\ copy \in [Instances -> 0 .. LastIteration]
    BY DEF Inv, NotesAreReached, TypeOK
  <1>1. CASE worker'[q] = "Idle" \/ (worker'[q] = worker[q] /\ copy'[q] = copy[q])
    BY <1>0, <1>1, CopyStaysReached
  <1>2. CASE worker'[q] = "Create"
    BY <1>2 DEF CopyIsReached
  <1>3. ASSUME NEW n \in stored', copy'[q] = n
        PROVE  CopyIsReached(q)'
    BY <1>3 DEF CopyIsReached, Reached, TypeOK, Iterations
  <1>4. CASE FindJobMeta(p)
    <2>1. stored' = stored
      BY <1>4 DEF FindJobMeta
    <2>2. QED
      BY <1>0, <1>1, <1>2, <1>3, <1>4, <2>1 DEF FindJobMeta, Hold
  <1>5. CASE ReadJob(p)
    <2>1. stored' = stored
      BY <1>5 DEF ReadJob
    <2>2. QED
      BY <1>0, <1>1, <1>2, <1>3, <1>5, <2>1 DEF ReadJob, Hold
  <1>6. CASE Rest(p) \/ FindIterationStarted(p) \/ Restart(p)
    BY <1>0, <1>1, <1>6 DEF Rest, FindIterationStarted, Restart, Hold
  <1>7. CASE CreateNewJob(p)
    <2>1. CASE Hold(p, "Idle", 0)
      BY <1>0, <1>1, <2>1 DEF Hold
    <2>2. CASE Create(1) /\ Hold(p, "Hold", 1)
      BY <1>0, <1>1, <1>3, <2>2 DEF Create, Hold
    <2>3. QED
      BY <1>7, <2>1, <2>2 DEF CreateNewJob
  <1>8. CASE StartNewIteration(p)
    BY <1>0, <1>1, <1>3, <1>8 DEF StartNewIteration, Create, Hold
  <1>9. CASE UNCHANGED <<worker, copy>>
    BY <1>1, <1>9
  <1>10. QED
    BY <1>4, <1>5, <1>6, <1>7, <1>8, <1>9
       DEF Step, WorkerSteps, Sweep, Messages, SweepFind, SweepList, SweepDelete, SweepFails,
           ReceiveReport, DeleteReported, DeleteReportedFails, workers

\* So does every channel.
LEMMA ReportStep ==
    ASSUME Inv, TypeOK', Advances, NEW p \in Instances, Step(p), NEW q \in Instances
    PROVE  ReportsAreReached(q)'
  <1> USE CleanerAssumption
  <1>0. /\ TypeOK /\ ReportsAreReached(q) /\ stored \subseteq Iterations
        /\ channel \in [Instances -> Seq(Iterations)] /\ stored' \subseteq Iterations
    BY DEF Inv, NotesAreReached, TypeOK
  <1>1. CASE channel'[q] = <<>> \/ channel'[q] = channel[q]
    BY <1>0, <1>1, ReportsStayReached
  <1>2. CASE StartNewIteration(p) /\ q = p /\ channel'[q] # channel[q]
    <2>1. channel'[q] = Append(channel[q], copy[p] + 1) /\ copy[p] + 1 \in stored'
      BY <1>0, <1>2 DEF StartNewIteration, Report, Reported, Create
    <2>2. ASSUME NEW k \in 1 .. Len(channel'[q])
          PROVE  \E z \in stored' : channel'[q][k] <= z
      <3>1. CASE k = Len(channel[q]) + 1
        <4>1. channel'[q][k] = copy[p] + 1
          BY <1>0, <2>1, <3>1
        <4>2. copy[p] + 1 <= copy[p] + 1
          BY <1>0, <2>1 DEF TypeOK, Iterations
        <4>3. QED
          BY <2>1, <4>1, <4>2
      <3>2. CASE k # Len(channel[q]) + 1
        <4>1. k \in 1 .. Len(channel[q]) /\ channel'[q][k] = channel[q][k]
          BY <1>0, <2>1, <2>2, <3>2
        <4>2. PICK m \in stored : channel[q][k] <= m
          BY <1>0, <4>1 DEF ReportsAreReached, Reached
        <4>3. PICK z \in stored' : m <= z
          BY DEF Advances
        <4>4. channel[q][k] \in Nat /\ m \in Nat /\ z \in Nat
          BY <1>0, <4>1 DEF Iterations
        <4>5. channel[q][k] <= z
          BY <4>2, <4>3, <4>4
        <4>6. QED
          BY <4>1, <4>5
      <3>3. QED
        BY <3>1, <3>2
    <2>3. QED
      BY <2>2 DEF ReportsAreReached, Reached
  <1>3. CASE ReceiveReport(p) /\ q = p
    <2>1. channel[q] # <<>> /\ channel'[q] = Tail(channel[q]) /\ stored' = stored
      BY <1>0, <1>3 DEF ReceiveReport
    <2>2. ASSUME NEW k \in 1 .. Len(channel'[q])
          PROVE  Reached(channel'[q][k])
      <3>1. k + 1 \in 1 .. Len(channel[q]) /\ channel'[q][k] = channel[q][k + 1]
        BY <1>0, <2>1, <2>2
      <3>2. QED
        BY <1>0, <3>1 DEF ReportsAreReached
    <2>3. QED
      BY <2>1, <2>2 DEF ReportsAreReached, Reached
  <1>4. CASE Restart(p)
    BY <1>0, <1>1, <1>4 DEF Restart
  <1>5. CASE UNCHANGED channel
    BY <1>1, <1>5
  <1>6. CASE StartNewIteration(p) /\ q # p
    BY <1>0, <1>1, <1>6 DEF StartNewIteration, Report
  <1>7. CASE ReceiveReport(p) /\ q # p
    BY <1>0, <1>1, <1>7 DEF ReceiveReport
  <1>8. CASE StartNewIteration(p) /\ channel'[q] = channel[q]
    BY <1>1, <1>8
  <1>9. QED
    BY <1>2, <1>3, <1>4, <1>5, <1>6, <1>7, <1>8
       DEF Step, WorkerSteps, Sweep, Messages, FindJobMeta, ReadJob, Rest, CreateNewJob,
           FindIterationStarted, SweepFind, SweepList, SweepDelete, SweepFails,
           DeleteReported, DeleteReportedFails, workers

\* What a cleaner comes to delete it took from a report or from the store, which are reached.
LEMMA CleanerStep ==
    ASSUME Inv, TypeOK', Advances, NEW p \in Instances, Step(p), NEW q \in Instances
    PROVE  DeletionsAreOutdated(q)'
  <1> USE CleanerAssumption
  <1>0. /\ TypeOK /\ DeletionsAreOutdated(q) /\ ReportsAreReached(q) /\ stored \subseteq Iterations
        /\ deleting \in [Instances -> 0 .. LastIteration]
        /\ sweep \in [Instances -> {"Find", "List", "Delete", "Done", "Failed"}]
        /\ boundary \in [Instances -> 0 .. LastIteration]
        /\ listed \in [Instances -> SUBSET Iterations]
    BY DEF Inv, NotesAreReached, TypeOK
  <1>1. CASE /\ deleting'[q] = 0 \/ deleting'[q] = deleting[q]
             /\ sweep'[q] = "List" => sweep[q] = "List" /\ boundary'[q] = boundary[q]
             /\ listed'[q] = {} \/ listed'[q] = listed[q]
    BY <1>0, <1>1, DeletionsStayOutdated
  <1>2. CASE ReceiveReport(p) /\ q = p
    <2>1. channel[q] # <<>> /\ channel[q] \in Seq(Iterations)
      BY <1>0, <1>2 DEF ReceiveReport, TypeOK
    <2>2. Head(channel[q]) \in Iterations /\ Reached(Head(channel[q]))
      BY <1>0, <2>1 DEF ReportsAreReached
    <2>3. deleting'[q] = RetentionBoundary(Head(channel[q]))
      BY <1>0, <1>2 DEF ReceiveReport
    <2>4. deleting'[q] # 0 => Reached(deleting'[q] + Retention)
      BY <2>2, <2>3, BoundaryIsBehind
    <2>5. UNCHANGED <<stored, sweep, boundary, listed>>
      BY <1>2 DEF ReceiveReport
    <2>6. QED
      BY <1>0, <2>4, <2>5 DEF DeletionsAreOutdated, Reached
  <1>3. CASE SweepFind(p) /\ q = p /\ sweep'[q] = "List"
    <2>1. PICK n \in stored : /\ RetentionBoundary(n) # 0
                              /\ SweepAt(p, "List", RetentionBoundary(n), {})
      BY <1>0, <1>3 DEF SweepFind, EndSweep, SweepAt
    <2>2. RetentionBoundary(n) + Retention = n /\ n \in Nat
      BY <1>0, <2>1, BoundaryIsBehind DEF Iterations
    <2>3. boundary'[q] = RetentionBoundary(n) /\ listed'[q] = {}
      BY <1>0, <1>3, <2>1 DEF SweepAt
    <2>4. Reached(boundary'[q] + Retention)
      BY <2>1, <2>2, <2>3 DEF Reached
    <2>5. UNCHANGED <<stored, deleting>>
      BY <1>3 DEF SweepFind
    <2>6. QED
      BY <1>0, <2>3, <2>4, <2>5 DEF DeletionsAreOutdated, Reached
  <1>4. CASE SweepList(p) /\ q = p /\ listed'[q] # {}
    <2>1. /\ listed'[q] = OutdatedIterations(boundary[q])
          /\ sweep'[q] = "Delete" /\ sweep[q] = "List"
      BY <1>0, <1>4 DEF SweepList, SweepAt, EndSweep
    <2>2. PICK m \in stored : boundary[q] + Retention <= m
      BY <1>0, <2>1 DEF DeletionsAreOutdated, Reached
    <2>3. boundary[q] \in Nat /\ m \in Nat /\ stored \subseteq Nat
      BY <1>0 DEF Iterations
    <2>4. ASSUME NEW i \in listed'[q] PROVE i + Retention <= m
      <3>1. i \in Nat /\ i <= boundary[q]
        BY <2>1, <2>3 DEF OutdatedIterations
      <3>2. QED
        BY <2>2, <2>3, <3>1
    <2>5. UNCHANGED <<stored, deleting>>
      BY <1>4 DEF SweepList
    <2>6. QED
      BY <1>0, <2>1, <2>2, <2>4, <2>5 DEF DeletionsAreOutdated, Reached
  <1>5. CASE WorkerSteps(p)
    <2>1. UNCHANGED cleaner
      BY <1>5 DEF WorkerSteps, FindJobMeta, ReadJob, Rest, CreateNewJob, StartNewIteration,
                  FindIterationStarted
    <2>2. QED
      BY <1>1, <2>1 DEF cleaner
  <1>6. CASE DeleteReported(p) \/ DeleteReportedFails(p) \/ (ReceiveReport(p) /\ q # p)
    BY <1>0, <1>1, <1>6 DEF DeleteReported, DeleteReportedFails, ReceiveReport
  <1>7. CASE SweepDelete(p) \/ SweepFails(p) \/ Restart(p)
    BY <1>0, <1>1, <1>7 DEF SweepDelete, SweepFails, Restart, EndSweep, SweepAt
  <1>8. CASE SweepFind(p) /\ ~(q = p /\ sweep'[q] = "List")
    BY <1>0, <1>1, <1>8 DEF SweepFind, EndSweep, SweepAt
  <1>9. CASE SweepList(p) /\ ~(q = p /\ listed'[q] # {})
    BY <1>0, <1>1, <1>9 DEF SweepList, EndSweep, SweepAt
  <1>10. QED
    BY <1>2, <1>3, <1>4, <1>5, <1>6, <1>7, <1>8, <1>9 DEF Step, Sweep, Messages

-----------------------------------------------------------------------------
(* The reports *)

\* The deletion of i was lost, is on the way, or i was created again.
Covered(i) == i \in lost \cup revived \/ \E q \in Instances : i \in Pending(q)

\* What is pending is in a channel or in hand.
LEMMA PendingPlaces ==
    ASSUME NEW q \in Instances, NEW i
    PROVE  i \in Pending(q) <=>
               /\ i # 0
               /\ \/ i = deleting[q]
                  \/ \E k \in DOMAIN channel[q] : i = RetentionBoundary(channel[q][k])
  BY DEF Pending

\* A channel and a hand that are left alone, or a channel that grew.
LEMMA PendingStays ==
    ASSUME NEW q \in Instances, NEW i \in Pending(q), deleting'[q] = deleting[q],
           \/ channel'[q] = channel[q]
           \/ \A k \in DOMAIN channel[q] :
                  k \in DOMAIN channel'[q] /\ channel'[q][k] = channel[q][k]
    PROVE  i \in Pending(q)'
  <1>1. CASE i = deleting[q]
    BY <1>1 DEF Pending
  <1>2. ASSUME NEW k \in DOMAIN channel[q], i = RetentionBoundary(channel[q][k])
        PROVE  i \in Pending(q)'
    <2>1. k \in DOMAIN channel'[q] /\ channel'[q][k] = channel[q][k]
      OBVIOUS
    <2>2. i = RetentionBoundary(channel'[q][k])
      BY <1>2, <2>1
    <2>3. QED
      BY <2>1, <2>2 DEF Pending, RetentionBoundary
  <1>3. QED
    BY <1>1, <1>2 DEF Pending

\* A deletion that is on the way stays there until it is made or lost.
LEMMA PendingStep ==
    ASSUME TypeOK, NEW p \in Instances, Step(p), NEW q \in Instances,
           NEW i \in Pending(q), i \in stored'
    PROVE  i \in Pending(q)' \/ i \in lost'
  <1>0. /\ channel \in [Instances -> Seq(Iterations)]
        /\ deleting \in [Instances -> 0 .. LastIteration]
    BY DEF TypeOK
  <1>1. CASE deleting'[q] = deleting[q] /\ channel'[q] = channel[q]
    BY <1>1, PendingStays
  <1>2. CASE StartNewIteration(p)
    <2>1. deleting' = deleting
      BY <1>2 DEF StartNewIteration, cleaner
    <2>2. CASE channel' = [channel EXCEPT ![p] = Append(@, copy[p] + 1)]
      <3>1. CASE q # p
        BY <1>0, <1>1, <2>1, <2>2, <3>1
      <3>2. CASE q = p
        <4>1. channel[q] \in Seq(Iterations) /\ channel'[q] = Append(channel[q], copy[p] + 1)
          BY <1>0, <2>2, <3>2
        <4>2. \A k \in DOMAIN channel[q] :
                  k \in DOMAIN channel'[q] /\ channel'[q][k] = channel[q][k]
          BY <4>1
        <4>3. QED
          BY <2>1, <4>2, PendingStays
      <3>3. QED
        BY <3>1, <3>2
    <2>3. CASE UNCHANGED channel
      BY <1>1, <2>1, <2>3
    <2>4. QED
      BY <1>2, <2>2, <2>3 DEF StartNewIteration, Report, Reported
  <1>3. CASE ReceiveReport(p) /\ q = p
    <2>1. /\ channel[q] \in Seq(Iterations) /\ channel[q] # <<>> /\ deleting[q] = 0
          /\ channel'[q] = Tail(channel[q])
          /\ deleting'[q] = RetentionBoundary(Head(channel[q]))
      BY <1>0, <1>3 DEF ReceiveReport
    <2>2. PICK k \in DOMAIN channel[q] : i = RetentionBoundary(channel[q][k])
      BY <2>1, PendingPlaces
    <2>3. i # 0
      BY PendingPlaces
    <2>4. CASE k = 1
      <3>1. i = deleting'[q]
        BY <2>1, <2>2, <2>4
      <3>2. QED
        BY <2>3, <3>1 DEF Pending
    <2>5. CASE k # 1
      <3>1. k - 1 \in DOMAIN channel'[q] /\ channel'[q][k - 1] = channel[q][k]
        BY <2>1, <2>5
      <3>2. PICK j \in DOMAIN channel'[q] : i = RetentionBoundary(channel'[q][j])
        BY <2>2, <3>1
      <3>3. QED
        BY <2>3, <3>2 DEF Pending, RetentionBoundary
    <2>6. QED
      BY <2>4, <2>5
  <1>4. CASE DeleteReported(p) /\ q = p
    <2>1. i # deleting[q]
      BY <1>4 DEF DeleteReported
    <2>2. PICK k \in DOMAIN channel[q] : i # 0 /\ i = RetentionBoundary(channel[q][k])
      BY <2>1, PendingPlaces
    <2>3. channel' = channel
      BY <1>4 DEF DeleteReported, workers
    <2>4. QED
      BY <2>2, <2>3 DEF Pending, RetentionBoundary
  <1>5. CASE DeleteReportedFails(p) /\ q = p
    <2>1. CASE i = deleting[q]
      BY <1>5, <2>1 DEF DeleteReportedFails
    <2>2. CASE i # deleting[q]
      <3>1. PICK k \in DOMAIN channel[q] : i # 0 /\ i = RetentionBoundary(channel[q][k])
        BY <2>2, PendingPlaces
      <3>2. channel' = channel
        BY <1>5 DEF DeleteReportedFails, workers
      <3>3. QED
        BY <3>1, <3>2 DEF Pending, RetentionBoundary
    <2>3. QED
      BY <2>1, <2>2
  <1>6. CASE Restart(p) /\ q = p
    BY <1>6 DEF Restart
  <1>7. CASE q # p /\ (ReceiveReport(p) \/ DeleteReported(p) \/ DeleteReportedFails(p) \/ Restart(p))
    <2>1. deleting'[q] = deleting[q] /\ channel'[q] = channel[q]
      BY <1>0, <1>7 DEF ReceiveReport, DeleteReported, DeleteReportedFails, Restart, workers
    <2>2. QED
      BY <1>1, <2>1
  <1>8. CASE UNCHANGED <<channel, deleting>>
    BY <1>1, <1>8
  <1>9. QED
    BY <1>2, <1>3, <1>4, <1>5, <1>6, <1>7, <1>8
       DEF Step, WorkerSteps, Sweep, Messages, FindJobMeta, ReadJob, Rest, CreateNewJob,
           FindIterationStarted, SweepFind, SweepList, SweepDelete, SweepFails, workers, cleaner

\* An iteration that is covered stays so for as long as it is stored.
LEMMA CoverStep ==
    ASSUME TypeOK, NEW p \in Instances, Step(p), NEW i \in stored', Covered(i)
    PROVE  Covered(i)'
  <1>1. lost \subseteq lost' /\ revived \subseteq revived'
    BY DEF Step, WorkerSteps, Sweep, Messages, FindJobMeta, ReadJob, Rest, CreateNewJob,
           StartNewIteration, FindIterationStarted, SweepFind, SweepList, SweepDelete,
           SweepFails, ReceiveReport, DeleteReported, DeleteReportedFails, Restart, Create,
           Report
  <1>2. CASE i \in lost \cup revived
    BY <1>1, <1>2 DEF Covered
  <1>3. ASSUME NEW q \in Instances, i \in Pending(q)
        PROVE  Covered(i)'
    BY <1>3, PendingStep DEF Covered
  <1>4. QED
    BY <1>2, <1>3 DEF Covered

\* A creation makes at most one iteration outdated: the one at the boundary of the new one.
\* An iteration created below a newer one is marked.
LEMMA NewlyOutdated ==
    ASSUME stored \subseteq Iterations, NEW n, Create(n),
           n = 1 \/ \E c \in Nat : n = c + 1 /\ Reached(c),
           NEW i \in stored', IsOutdated(i)', ~(i \in stored /\ IsOutdated(i))
    PROVE  i \in revived' \/ (n # 1 /\ i # 0 /\ i = RetentionBoundary(n))
  <1> USE CleanerAssumption
  <1>1. n \in Iterations /\ stored' = stored \cup {n} /\ stored' \subseteq Nat \ {0}
    <2>1. n \in Iterations /\ stored' = stored \cup {n}
      BY DEF Create
    <2>2. QED
      BY <2>1 DEF Iterations
  <1>2. PICK k \in stored' : i + Retention <= k
    BY DEF IsOutdated
  <1>3. CASE i = n
    <2>1. k \in stored /\ k > n
      BY <1>1, <1>2, <1>3
    <2>2. QED
      BY <1>3, <2>1 DEF Create
  <1>4. CASE i # n
    <2>1. i \in stored /\ \A m \in stored : m < i + Retention
      BY <1>1, <1>4 DEF IsOutdated
    <2>2. k = n /\ i + Retention <= n
      BY <1>1, <1>2, <2>1
    <2>3. n # 1
      BY <1>1, <2>1, <2>2
    <2>4. PICK c \in Nat : n = c + 1 /\ Reached(c)
      BY <2>3
    <2>5. PICK m \in stored : c <= m
      BY <2>4 DEF Reached
    <2>6. c < i + Retention
      BY <1>1, <2>1, <2>4, <2>5
    <2>7. n = i + Retention /\ i # 0
      BY <1>1, <2>1, <2>2, <2>4, <2>6
    <2>8. i = RetentionBoundary(n)
      BY <1>1, <2>1, <2>7 DEF RetentionBoundary
    <2>9. QED
      BY <2>3, <2>7, <2>8
  <1>5. QED
    BY <1>3, <1>4

\* So its deletion is on the way, or lost with the answer or the report.
LEMMA OutdatedStep ==
    ASSUME Inv, OutdatedIsPending, NEW p \in Instances, Step(p)
    PROVE  OutdatedIsPending'
  <1> SUFFICES ASSUME NEW i \in stored', IsOutdated(i)'
               PROVE  Covered(i)'
    BY DEF OutdatedIsPending, Covered
  <1>0. /\ TypeOK /\ stored \subseteq Iterations /\ copy[p] \in Nat /\ CopyIsReached(p)
        /\ channel \in [Instances -> Seq(Iterations)]
    BY DEF Inv, NotesAreReached, TypeOK
  <1>1. CASE i \in stored /\ IsOutdated(i)
    <2>1. Covered(i)
      BY <1>1 DEF OutdatedIsPending, Covered
    <2>2. QED
      BY <1>0, <2>1, CoverStep
  <1>2. CASE ~(i \in stored /\ IsOutdated(i))
    <2>1. ~(stored' \subseteq stored)
      BY <1>2 DEF IsOutdated
    <2>2. CASE CreateNewJob(p)
      <3>1. Create(1)
        BY <2>1, <2>2 DEF CreateNewJob
      <3>2. i \in revived'
        BY <1>0, <1>2, <3>1, NewlyOutdated
      <3>3. QED
        BY <3>2 DEF Covered
    <2>3. CASE StartNewIteration(p) \/ FindIterationStarted(p)
      <3>1. worker[p] = "Hold" /\ Create(copy[p] + 1)
        BY <2>1, <2>3 DEF StartNewIteration, FindIterationStarted
      <3>2. \E c \in Nat : copy[p] + 1 = c + 1 /\ Reached(c)
        BY <1>0, <3>1 DEF CopyIsReached
      <3>3. i \in revived' \/ (i # 0 /\ i = RetentionBoundary(copy[p] + 1))
        BY <1>0, <1>2, <3>1, <3>2, NewlyOutdated
      <3>4. CASE i \in revived'
        BY <3>4 DEF Covered
      <3>5. CASE i # 0 /\ i = RetentionBoundary(copy[p] + 1) /\ i \in lost'
        BY <3>5 DEF Covered
      <3>6. CASE /\ i # 0 /\ i = RetentionBoundary(copy[p] + 1)
                 /\ channel' = [channel EXCEPT ![p] = Append(@, copy[p] + 1)]
        <4>1. /\ channel[p] \in Seq(Iterations) /\ copy[p] + 1 \in Iterations
              /\ channel'[p] = Append(channel[p], copy[p] + 1)
          BY <1>0, <3>1, <3>6 DEF Create
        <4>2. PICK k \in DOMAIN channel'[p] : channel'[p][k] = copy[p] + 1
          <5>1. /\ Len(channel[p]) + 1 \in DOMAIN channel'[p]
                /\ channel'[p][Len(channel[p]) + 1] = copy[p] + 1
            BY <4>1
          <5>2. QED
            BY <5>1
        <4>3. i \in Pending(p)'
          BY <3>6, <4>2 DEF Pending, RetentionBoundary
        <4>4. QED
          BY <4>3 DEF Covered
      <3>7. QED
        BY <2>1, <2>3, <3>3, <3>4, <3>5, <3>6
           DEF StartNewIteration, FindIterationStarted, Report, Reported
    <2>4. CASE stored' \subseteq stored
      BY <2>1, <2>4
    <2>5. QED
      BY <2>2, <2>3, <2>4
         DEF Step, WorkerSteps, Sweep, Messages, FindJobMeta, ReadJob, Rest, SweepFind,
             SweepList, SweepDelete, SweepFails, ReceiveReport, DeleteReported,
             DeleteReportedFails, Restart
  <1>3. QED
    BY <1>1, <1>2

-----------------------------------------------------------------------------
(* The sweep *)

\* What a sweep has to delete and is still stored, it is going to list or has listed.
TailIsInSight(q) ==
    /\ sweep[q] = "List" => \A i \in tail[q] : i <= boundary[q]
    /\ sweep[q] = "Delete" => tail[q] \cap stored \subseteq listed[q]

\* A sweep that does not move keeps its tail in sight: what is created again is not in it.
LEMMA TailStays ==
    ASSUME NEW q \in Instances, TailIsInSight(q),
           sweep'[q] = sweep[q], boundary'[q] = boundary[q], listed'[q] = listed[q],
           tail'[q] \subseteq tail[q], tail'[q] \cap stored' \subseteq stored
    PROVE  TailIsInSight(q)'
  BY DEF TailIsInSight

LEMMA TailStep ==
    ASSUME TypeOK, NEW p \in Instances, Step(p), NEW q \in Instances, TailIsInSight(q)
    PROVE  TailIsInSight(q)'
  <1> USE CleanerAssumption
  <1>0. /\ stored \subseteq Iterations
        /\ sweep \in [Instances -> {"Find", "List", "Delete", "Done", "Failed"}]
        /\ boundary \in [Instances -> 0 .. LastIteration]
        /\ listed \in [Instances -> SUBSET Iterations]
        /\ tail \in [Instances -> SUBSET Iterations]
    BY DEF TypeOK
  <1>1. CASE WorkerSteps(p)
    <2>1. UNCHANGED <<sweep, boundary, listed>>
      BY <1>1 DEF WorkerSteps, FindJobMeta, ReadJob, Rest, CreateNewJob, StartNewIteration,
                  FindIterationStarted, cleaner
    <2>2. UNCHANGED <<stored, tail>> \/ \E n \in Nat : Create(n)
      BY <1>1 DEF WorkerSteps, FindJobMeta, ReadJob, Rest, CreateNewJob, StartNewIteration,
                  FindIterationStarted, Create, Iterations
    <2>3. tail'[q] \subseteq tail[q] /\ tail'[q] \cap stored' \subseteq stored
      BY <1>0, <2>2 DEF Create
    <2>4. QED
      BY <2>1, <2>3, TailStays
  <1>2. CASE Messages(p)
    <2>1. UNCHANGED <<sweep, boundary, listed, tail>> /\ stored' \subseteq stored
      BY <1>2 DEF Messages, ReceiveReport, DeleteReported, DeleteReportedFails
    <2>2. QED
      BY <2>1, TailStays
  <1>3. CASE (Sweep(p) \/ Restart(p)) /\ q # p
    <2>1. /\ sweep'[q] = sweep[q] /\ boundary'[q] = boundary[q] /\ listed'[q] = listed[q]
          /\ tail'[q] = tail[q] /\ stored' \subseteq stored
      BY <1>0, <1>3 DEF Sweep, SweepFind, SweepList, SweepDelete, SweepFails, Restart, EndSweep, SweepAt
    <2>2. QED
      BY <2>1, TailStays
  <1>4. CASE Restart(p) \/ SweepFails(p)
    <2>1. q = p => sweep'[q] \in {"Find", "Failed"}
      BY <1>0, <1>4 DEF Restart, SweepFails, EndSweep, SweepAt
    <2>2. QED
      BY <1>3, <1>4, <2>1 DEF TailIsInSight, Sweep
  <1>5. CASE SweepFind(p) /\ q = p
    <2>1. CASE sweep'[q] # "List"
      BY <1>0, <1>5, <2>1 DEF SweepFind, EndSweep, SweepAt, TailIsInSight
    <2>2. CASE sweep'[q] = "List"
      <3>1. PICK n \in stored : /\ IsNewest(n) /\ RetentionBoundary(n) # 0
                                /\ SweepAt(p, "List", RetentionBoundary(n), {})
                                /\ tail' = [tail EXCEPT ![p] = {i \in stored : IsOutdated(i)}]
        BY <1>0, <1>5, <2>2 DEF SweepFind, EndSweep, SweepAt
      <3>2. boundary'[q] = RetentionBoundary(n) /\ tail'[q] = {i \in stored : IsOutdated(i)}
        BY <1>0, <1>5, <3>1 DEF SweepAt
      <3>3. RetentionBoundary(n) + Retention = n /\ RetentionBoundary(n) \in Nat
        BY <1>0, <3>1, BoundaryIsBehind
      <3>4. ASSUME NEW i \in stored, IsOutdated(i)
            PROVE  i <= RetentionBoundary(n)
        <4>1. PICK m \in stored : i + Retention <= m
          BY <3>4 DEF IsOutdated
        <4>2. m <= n /\ i \in Nat /\ m \in Nat /\ n \in Nat
          BY <1>0, <3>1 DEF IsNewest, Iterations
        <4>3. QED
          BY <3>3, <4>1, <4>2
      <3>5. QED
        BY <2>2, <3>2, <3>4 DEF TailIsInSight
    <2>3. QED
      BY <2>1, <2>2
  <1>6. CASE SweepList(p) /\ q = p
    <2>1. CASE sweep'[q] # "Delete"
      BY <1>0, <1>6, <2>1 DEF SweepList, EndSweep, SweepAt, TailIsInSight
    <2>2. CASE sweep'[q] = "Delete"
      <3>1. /\ sweep[q] = "List" /\ listed'[q] = {i \in stored : i <= boundary[q]}
            /\ UNCHANGED <<stored, tail>>
        BY <1>0, <1>6, <2>2 DEF SweepList, EndSweep, SweepAt, OutdatedIterations
      <3>2. QED
        BY <2>2, <3>1 DEF TailIsInSight
    <2>3. QED
      BY <2>1, <2>2
  <1>7. CASE SweepDelete(p) /\ q = p
    <2>1. CASE sweep'[q] = "Done"
      BY <2>1 DEF TailIsInSight
    <2>2. CASE sweep'[q] # "Done"
      <3>1. UNCHANGED <<sweep, boundary, listed, tail>> /\ stored' \subseteq stored
        BY <1>0, <1>7, <2>2 DEF SweepDelete, EndSweep, SweepAt
      <3>2. QED
        BY <3>1, TailStays
    <2>3. QED
      BY <2>1, <2>2
  <1>8. QED
    BY <1>1, <1>2, <1>3, <1>4, <1>5, <1>6, <1>7 DEF Step, Sweep

\* The step that ends a sweep well leaves nothing of what it had to delete.
LEMMA SweepEndsStep ==
    ASSUME TypeOK, NEW p \in Instances, Step(p), NEW q \in Instances, TailIsInSight(q),
           sweep[q] # "Done", sweep'[q] = "Done"
    PROVE  IF sweep[q] = "Find" THEN \A i \in stored : ~IsOutdated(i)
                                ELSE tail[q] \cap stored' = {}
  <1> USE CleanerAssumption
  <1>0. /\ stored \subseteq Iterations
        /\ sweep \in [Instances -> {"Find", "List", "Delete", "Done", "Failed"}]
    BY DEF TypeOK
  <1>1. q = p /\ (SweepFind(p) \/ SweepList(p) \/ SweepDelete(p))
    BY <1>0 DEF Step, WorkerSteps, FindJobMeta, ReadJob, Rest, CreateNewJob, StartNewIteration,
                FindIterationStarted, cleaner, Messages, ReceiveReport, DeleteReported,
                DeleteReportedFails, Sweep, SweepFind, SweepList, SweepDelete, SweepFails, Restart,
                EndSweep, SweepAt
  <1>2. CASE SweepFind(p)
    <2>1. stored = {} \/ \E n \in stored : IsNewest(n) /\ RetentionBoundary(n) = 0
      BY <1>0, <1>1, <1>2 DEF SweepFind, SweepAt
    <2>2. ASSUME NEW n \in stored, IsNewest(n), RetentionBoundary(n) = 0,
                 NEW i \in stored, NEW m \in stored, i + Retention <= m
          PROVE  FALSE
      <3>1. m <= n /\ i \in Nat \ {0} /\ m \in Nat /\ n \in Nat
        BY <1>0, <2>2 DEF IsNewest, Iterations
      <3>2. n <= Retention
        BY <2>2, <3>1 DEF RetentionBoundary
      <3>3. QED
        BY <2>2, <3>1, <3>2
    <2>3. \A i \in stored : ~IsOutdated(i)
      BY <2>1, <2>2 DEF IsOutdated
    <2>4. QED
      BY <1>1, <1>2, <2>3 DEF SweepFind
  <1>3. CASE SweepList(p)
    <2>1. /\ sweep[q] = "List" /\ UNCHANGED stored
          /\ {i \in stored : i <= boundary[q]} = {}
      BY <1>0, <1>1, <1>3 DEF SweepList, SweepAt, OutdatedIterations
    <2>2. QED
      BY <2>1 DEF TailIsInSight
  <1>4. CASE SweepDelete(p)
    <2>1. sweep[q] = "Delete" /\ stored' = stored \ listed[q]
      BY <1>1, <1>4 DEF SweepDelete
    <2>2. QED
      BY <2>1 DEF TailIsInSight
  <1>5. QED
    BY <1>1, <1>2, <1>3, <1>4

-----------------------------------------------------------------------------
(* Theorems *)

\* Inv holds in every reachable state.
THEOREM Invariance == Spec => []Inv
  <1>1. Init => Inv
    <2> SUFFICES ASSUME Init PROVE Inv
      OBVIOUS
    <2>1. TypeOK
      BY TypeInit
    <2>2. RecentIterationsAreKept
      BY DEF Init, RecentIterationsAreKept
    <2>3. ASSUME NEW q \in Instances
          PROVE  CopyIsReached(q) /\ ReportsAreReached(q) /\ DeletionsAreOutdated(q)
      BY DEF Init, CopyIsReached, ReportsAreReached, DeletionsAreOutdated
    <2>4. QED
      BY <2>1, <2>2, <2>3 DEF Inv, NotesAreReached
  <1>2. Inv /\ [Next]_vars => Inv'
    <2> SUFFICES ASSUME Inv, [Next]_vars PROVE Inv'
      OBVIOUS
    <2>1. CASE UNCHANGED vars
      BY <2>1 DEF vars, Inv, TypeOK, RecentIterationsAreKept, NotesAreReached, CopyIsReached,
                  ReportsAreReached, DeletionsAreOutdated, Reached
    <2>2. ASSUME NEW p \in Instances, Step(p) PROVE Inv'
      <3>1. TypeOK'
        BY <2>2, WorkerTypeStep, CleanerTypeStep DEF Step, Inv
      <3>2. RecentIterationsAreKept' /\ Advances
        BY <2>2, StoreStep
      <3>3. NotesAreReached'
        BY <2>2, <3>1, <3>2, CopyStep, ReportStep, CleanerStep DEF NotesAreReached
      <3>4. QED
        BY <3>1, <3>2, <3>3 DEF Inv
    <2>3. QED
      BY <2>1, <2>2 DEF Next, Step
  <1>3. QED
    BY <1>1, <1>2, PTL DEF Spec

(***************************************************************************)
(* Every variable of cleaners and workers keeps its type; in particular no *)
(* boundary underflows (JobDefinition::calculate_retention_boundary).      *)
(***************************************************************************)
THEOREM TypeCorrect == Spec => []TypeOK
  BY Invariance, PTL DEF Inv

(***************************************************************************)
(* For every retention, every number of instances and every length of the  *)
(* history, no cleaner deletes one of the last Retention iterations of a   *)
(* job, whatever it read, listed or was told, and however long ago         *)
(* (src/src/execution/job_cleaner.rs:60).                                  *)
(***************************************************************************)
THEOREM RecentIterationsStay == Spec => []RecentIterationsAreKept
  BY Invariance, PTL DEF Inv

(***************************************************************************)
(* For every retention, channel, number of instances and length of the     *)
(* history, the reports leave no gaps: an outdated iteration has its       *)
(* deletion on the way, unless the report was lost or a lagging worker     *)
(* created it again (src/src/execution/job_cleaner.rs, delete_iteration).  *)
(***************************************************************************)
THEOREM ReportsLeaveNoGaps == Spec => []OutdatedIsPending
  <1>1. Init => OutdatedIsPending
    BY DEF Init, OutdatedIsPending
  <1>2. Inv /\ OutdatedIsPending /\ [Next]_vars => OutdatedIsPending'
    <2> SUFFICES ASSUME Inv, OutdatedIsPending, [Next]_vars PROVE OutdatedIsPending'
      OBVIOUS
    <2>1. CASE UNCHANGED vars
      BY <2>1 DEF vars, OutdatedIsPending, IsOutdated, Pending, RetentionBoundary
    <2>2. ASSUME NEW p \in Instances, Step(p) PROVE OutdatedIsPending'
      BY <2>2, OutdatedStep
    <2>3. QED
      BY <2>1, <2>2 DEF Next, Step
  <1>3. QED
    BY <1>1, <1>2, Invariance, PTL DEF Spec

(***************************************************************************)
(* For every retention, number of instances and length of the history, a   *)
(* sweep that ends well has deleted everything that was outdated as it     *)
(* began, unless a lagging worker put it back (reconcile_registry_jobs,    *)
(* delete_outdated_iterations): what is created, reported and deleted      *)
(* between its look at the newest iteration, its listing and its batches   *)
(* takes nothing out of its sight.                                         *)
(***************************************************************************)
THEOREM SweepsLeaveNoTail == Spec => SweptTailIsGone
  <1> DEFINE TailInv == \A q \in Instances : TailIsInSight(q)
  <1>1. Init => TailInv
    BY DEF Init, TailIsInSight
  <1>2. TypeOK /\ TailInv /\ [Next]_vars => TailInv'
    <2> SUFFICES ASSUME TypeOK, TailInv, [Next]_vars PROVE TailInv'
      OBVIOUS
    <2>1. CASE UNCHANGED vars
      BY <2>1 DEF vars, TailIsInSight
    <2>2. ASSUME NEW p \in Instances, Step(p) PROVE TailInv'
      BY <2>2, TailStep
    <2>3. QED
      BY <2>1, <2>2 DEF Next, Step
  <1>3. TypeOK /\ TailInv /\ [Next]_vars =>
            [\A p \in Instances :
                sweep[p] # "Done" /\ sweep'[p] = "Done" =>
                    IF sweep[p] = "Find" THEN \A i \in stored : ~IsOutdated(i)
                                         ELSE tail[p] \cap stored' = {}]_vars
    <2> SUFFICES ASSUME TypeOK, TailInv, NEW p \in Instances, Step(p)
                 PROVE  \A q \in Instances :
                            sweep[q] # "Done" /\ sweep'[q] = "Done" =>
                                IF sweep[q] = "Find" THEN \A i \in stored : ~IsOutdated(i)
                                                     ELSE tail[q] \cap stored' = {}
      BY DEF Next, Step
    <2>1. QED
      BY SweepEndsStep
  <1>4. QED
    BY <1>1, <1>2, <1>3, TypeCorrect, PTL DEF Spec, SweptTailIsGone

=============================================================================
