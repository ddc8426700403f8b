------------------------- MODULE JobWorkers_proofs --------------------------
(***************************************************************************)
(* What holds of workers that share a job, for every set of workers, every *)
(* set and graph of tasks, every limit and any number of faults.           *)
(*                                                                         *)
(* The argument: a write with a current version is a write over an open    *)
(* iteration (WorkerInv), because a worker works only on a copy it read    *)
(* open, and whoever writes the iteration makes every other copy stale; a  *)
(* write without a version creates an iteration whose predecessor its      *)
(* writer saw closed.  So closed iterations are never written, stay        *)
(* closed, and the next one follows only a closed one.                     *)
(*                                                                         *)
(* Two more invariants stand on this one.  CarriedInv: what a worker       *)
(* carries is fit to be stored - a copy it closed holds no work, a next    *)
(* iteration it plans is due, what its execution planned is with it or in  *)
(* the store.  OrderInv: the tasks of every copy can be put in an order in *)
(* which each follows what it depends on, through additions, rollbacks and *)
(* merges; so a poll of a stored iteration always finds a way on.          *)
(*                                                                         *)
(* Three further ones say what a copy may be wrong about, as long as no    *)
(* merge takes a task back (MergesTakeNothingBack).  ResultInv: a copy     *)
(* that matches the store respects every result and every running          *)
(* execution in it, and a worker executes within its deadline what is      *)
(* stored as its own.  SequenceInv: a task is released only where its      *)
(* dependencies are completed, in the copy and in the store.  OnceInv:     *)
(* where a task is started once, nobody else becomes its worker.  The last *)
(* two show on which jobs no merge can take a task back: pipelines, and    *)
(* jobs whose tasks are started once.                                      *)
(***************************************************************************)
EXTENDS JobWorkers, JobState_proofs

Planning == {"SaveNewJob", "SaveNewIteration"}
Reading == {"Advance", "Pick"}
Working == {"SaveSettled", "SaveStart", "Execute", "SaveResult"}

\* What a worker's copy has to do with the store, wherever the worker stands.
WorkerInv(w) ==
    /\ pc[w] \in Planning \cup Reading \cup Working => IsJob(mine[w])
    /\ pc[w] \in {"SaveStart", "Execute", "SaveResult"} =>
            task[w] \in DOMAIN mine[w].tasks \ created[w]
    /\ pc[w] \in {"SaveStart", "Execute"} => ~IsProcessed(mine[w])
    /\ pc[w] \in Planning => version[w] # "Current"
    /\ pc[w] \in Reading \cup Working => version[w] # "New"
    /\ pc[w] = "SaveNewJob" => mine[w].iter = 1
    /\ pc[w] = "SaveNewIteration" => mine[w].iter > 1 /\ IsClosed(mine[w].iter - 1)
    /\ pc[w] \in Reading /\ IsProcessed(mine[w]) => IsClosed(mine[w].iter)
    /\ pc[w] \in Reading /\ ~IsProcessed(mine[w]) /\ version[w] = "Current" => IsOpen(mine[w].iter)
    /\ pc[w] \in Working /\ version[w] = "Current" => IsOpen(mine[w].iter)
    /\ pc[w] \in Reading \cup Working /\ version[w] = "Current" =>
            DOMAIN objects[mine[w].iter].tasks \subseteq DOMAIN mine[w].tasks
    /\ pc[w] = "Execute" /\ version[w] = "Current" =>
            created[w] \cap DOMAIN objects[mine[w].iter].tasks = {}

\* The inductive invariant.
IInv ==
    /\ TypeOK
    /\ IterationsInOrder
    /\ ReportedIterationIsClosed
    /\ \A w \in Workers : WorkerInv(w)

-----------------------------------------------------------------------------
(* Facts every step uses *)

\* A job is never the absence of one, and its number is one of the iterations.
LEMMA JobIsSomething ==
    ASSUME NEW job, IsJob(job)
    PROVE  job # Nothing /\ job.iter \in Iterations /\ (IsProcessed(job) <=> job.status \in Verdicts)
BY DEF IsJob, Nothing, Iterations, IsProcessed

\* A step that changes nothing but what one worker holds keeps the invariant if it keeps it
\* for that worker.
LEMMA OwnStep ==
    ASSUME IInv, NEW w \in Workers, objects' = objects,
           \A v \in Workers \ {w} : /\ pc'[v] = pc[v] /\ mine'[v] = mine[v] /\ version'[v] = version[v]
                                    /\ task'[v] = task[v] /\ created'[v] = created[v],
           TypeOK', ReportedIterationIsClosed', WorkerInv(w)'
    PROVE  IInv'
<1>1. IterationsInOrder'
  BY DEF IInv, IterationsInOrder, IsClosed, Exists
<1>2. ASSUME NEW v \in Workers \ {w}
      PROVE  WorkerInv(v)'
  BY <1>2 DEF IInv, WorkerInv, IsClosed, IsOpen, Exists
<1> QED BY <1>1, <1>2 DEF IInv

\* A worker that takes up a copy of the job, or drops the one it had.
LEMMA HoldStep ==
    ASSUME IInv, NEW w \in Workers, NEW place \in Control, NEW job, NEW v \in {"New", "Current", "Stale"},
           NEW t \in TaskIds \cup {NoTask},
           Hold(w, place, job, v, t), objects' = objects,
           job = Nothing \/ IsJob(job),
           finished' \in [Workers -> 0 .. MaxIterations], faults' \in 0 .. MaxFaults
    PROVE  /\ TypeOK'
           /\ pc'[w] = place /\ mine'[w] = job /\ version'[w] = v /\ task'[w] = t /\ created'[w] = {}
           /\ \A u \in Workers \ {w} : /\ pc'[u] = pc[u] /\ mine'[u] = mine[u] /\ version'[u] = version[u]
                                       /\ task'[u] = task[u] /\ created'[u] = created[u]
BY DEF IInv, TypeOK, Hold, Exists

\* A worker that drops what it holds, or dies, keeps the invariant.
LEMMA RestStep ==
    ASSUME IInv, NEW w \in Workers, NEW place \in {"Idle", "Dead"}, Hold(w, place, Nothing, "New", NoTask),
           objects' = objects, finished' \in [Workers -> 0 .. MaxIterations], faults' \in 0 .. MaxFaults,
           ReportedIterationIsClosed'
    PROVE  IInv'
<1>1. /\ TypeOK' /\ pc'[w] = place
      /\ \A u \in Workers \ {w} : /\ pc'[u] = pc[u] /\ mine'[u] = mine[u] /\ version'[u] = version[u]
                                  /\ task'[u] = task[u] /\ created'[u] = created[u]
  BY HoldStep DEF Control
<1>2. WorkerInv(w)'
  BY <1>1 DEF WorkerInv, Planning, Reading, Working
<1> QED BY <1>1, <1>2, OwnStep

\* Nothing is reported that was not reported before.
LEMMA SameReport ==
    ASSUME IInv, objects' = objects, finished' = finished
    PROVE  ReportedIterationIsClosed' /\ finished' \in [Workers -> 0 .. MaxIterations]
BY DEF IInv, TypeOK, ReportedIterationIsClosed, IsClosed, Exists

-----------------------------------------------------------------------------
(* One lemma per action *)

\* A worker that reads an iteration knows as much of it as the store.
LEMMA ReadStep ==
    ASSUME IInv, NEW w \in Workers, NEW i \in Iterations, IsReadable(i), NEW place \in Reading,
           Hold(w, place, objects[i], "Current", NoTask), UNCHANGED <<objects, finished, faults>>
    PROVE  IInv'
<1>1. /\ Exists(i) /\ IsJob(objects[i]) /\ objects[i].iter = i
      /\ IsProcessed(objects[i]) => IsClosed(i)
      /\ ~IsProcessed(objects[i]) => IsOpen(i)
  BY DEF IInv, TypeOK, IsReadable, IsNewest, IsClosed, IsOpen
<1>2. ReportedIterationIsClosed' /\ finished' \in [Workers -> 0 .. MaxIterations] /\ faults' \in 0 .. MaxFaults
  BY SameReport DEF IInv, TypeOK
<1>3. /\ TypeOK'
      /\ pc'[w] = place /\ mine'[w] = objects[i] /\ version'[w] = "Current" /\ created'[w] = {}
      /\ \A u \in Workers \ {w} : /\ pc'[u] = pc[u] /\ mine'[u] = mine[u] /\ version'[u] = version[u]
                                  /\ task'[u] = task[u] /\ created'[u] = created[u]
  BY <1>1, <1>2, HoldStep DEF Reading, Control
<1>4. WorkerInv(w)'
  BY <1>1, <1>3 DEF WorkerInv, Planning, Reading, Working, IsClosed, IsOpen, Exists
<1> QED BY <1>2, <1>3, <1>4, OwnStep

\* Reading a job keeps the invariant: what is readable and open is the newest iteration.
LEMMA GetJobStep ==
    ASSUME IInv, NEW w \in Workers, GetJob(w)
    PROVE  IInv'
<1>1. PICK i \in Iterations : IsReadable(i) /\ Hold(w, "Advance", objects[i], "Current", NoTask)
  BY DEF GetJob
<1> QED BY <1>1, ReadStep DEF GetJob, Reading

\* A planned iteration follows a closed one, or is the first.
LEMMA PlanStep ==
    ASSUME IInv, NEW w \in Workers, NEW place \in Planning, NEW i \in Iterations,
           place = "SaveNewJob" => i = 1,
           place = "SaveNewIteration" => i > 1 /\ IsClosed(i - 1),
           Hold(w, place, NewJob(w, i), "New", NoTask), UNCHANGED <<objects, faults>>,
           ReportedIterationIsClosed', finished' \in [Workers -> 0 .. MaxIterations]
    PROVE  IInv'
<1>1. IsJob(NewJob(w, i)) /\ NewJob(w, i).iter = i
  BY NewJobType DEF Iterations
<1>2. /\ TypeOK'
      /\ pc'[w] = place /\ mine'[w] = NewJob(w, i) /\ version'[w] = "New" /\ created'[w] = {}
      /\ \A u \in Workers \ {w} : /\ pc'[u] = pc[u] /\ mine'[u] = mine[u] /\ version'[u] = version[u]
                                  /\ task'[u] = task[u] /\ created'[u] = created[u]
  BY <1>1, HoldStep DEF Planning, Control, Saving, IInv, TypeOK
<1>3. WorkerInv(w)'
  BY <1>1, <1>2 DEF WorkerInv, Planning, Reading, Working, IsClosed, Exists
<1> QED BY <1>2, <1>3, OwnStep

\* Planning the first iteration keeps the invariant: nothing is stored yet.
LEMMA CreateNewJobStep ==
    ASSUME IInv, NEW w \in Workers, CreateNewJob(w)
    PROVE  IInv'
<1>1. 1 \in Iterations
  BY LimitsAssumption DEF Iterations
<1>2. ReportedIterationIsClosed' /\ finished' \in [Workers -> 0 .. MaxIterations]
  BY SameReport DEF CreateNewJob
<1> QED BY <1>1, <1>2, PlanStep DEF CreateNewJob, Planning

\* A task is started, and an iteration settled, only on a copy that was open.
LEMMA PickTaskStep ==
    ASSUME IInv, NEW w \in Workers, pc[w] \in Reading, ~IsProcessed(mine[w]), PickTask(w),
           UNCHANGED <<objects, faults>>, ReportedIterationIsClosed', finished' \in [Workers -> 0 .. MaxIterations]
    PROVE  IInv'
<1>1. /\ IsJob(mine[w]) /\ version[w] \in {"Current", "Stale"}
      /\ faults' \in 0 .. MaxFaults
      /\ version[w] = "Current" => /\ IsOpen(mine[w].iter)
                                   /\ DOMAIN objects[mine[w].iter].tasks \subseteq DOMAIN mine[w].tasks
  BY DEF IInv, WorkerInv, TypeOK
<1>2. PICK pickup \in Pickups(mine[w]) :
        \/ /\ pickup.kind = "Ready"
           /\ Hold(w, "SaveStart", StartTask(pickup.job, pickup.task, w), version[w], pickup.task)
        \/ /\ pickup.kind = "IterationSettled"
           /\ Hold(w, "SaveSettled", pickup.job, version[w], NoTask)
        \/ /\ pickup.kind \in {"Waiting", "Deadlock"}
           /\ Rest(w)
  BY DEF PickTask
<1>3. CASE pickup.kind = "Ready" /\ Hold(w, "SaveStart", StartTask(pickup.job, pickup.task, w), version[w], pickup.task)
  <2> DEFINE started == StartTask(pickup.job, pickup.task, w)
  <2>1. /\ Extends(pickup.job, mine[w]) /\ ~IsProcessed(pickup.job)
        /\ pickup.task \in DOMAIN pickup.job.tasks /\ pickup.task \in TaskIds
    BY <1>1, <1>3, PickupsType DEF Extends, IsJob
  <2>2. /\ Extends(started, pickup.job) /\ ~IsProcessed(started)
    BY <2>1, StartTaskType DEF Extends, IsProcessed
  <2> HIDE DEF started
  <2>3. /\ IsJob(started) /\ started.iter = mine[w].iter /\ pickup.task \in DOMAIN started.tasks
        /\ DOMAIN mine[w].tasks \subseteq DOMAIN started.tasks
    BY <2>1, <2>2 DEF Extends
  <2>4. /\ TypeOK'
        /\ pc'[w] = "SaveStart" /\ mine'[w] = started /\ version'[w] = version[w]
        /\ task'[w] = pickup.task /\ created'[w] = {}
        /\ \A u \in Workers \ {w} : /\ pc'[u] = pc[u] /\ mine'[u] = mine[u] /\ version'[u] = version[u]
                                    /\ task'[u] = task[u] /\ created'[u] = created[u]
    BY <1>1, <1>3, <2>1, <2>3, HoldStep DEF Control, Saving, started
  <2>5. WorkerInv(w)'
    BY <1>1, <2>2, <2>3, <2>4 DEF WorkerInv, Planning, Reading, Working, IsOpen, Exists
  <2> QED BY <2>4, <2>5, OwnStep
<1>4. CASE pickup.kind = "IterationSettled" /\ Hold(w, "SaveSettled", pickup.job, version[w], NoTask)
  <2>1. /\ IsJob(pickup.job) /\ pickup.job.iter = mine[w].iter
        /\ DOMAIN mine[w].tasks \subseteq DOMAIN pickup.job.tasks
    BY <1>1, <1>4, PickupsType DEF Extends
  <2>2. /\ TypeOK'
        /\ pc'[w] = "SaveSettled" /\ mine'[w] = pickup.job /\ version'[w] = version[w] /\ created'[w] = {}
        /\ \A u \in Workers \ {w} : /\ pc'[u] = pc[u] /\ mine'[u] = mine[u] /\ version'[u] = version[u]
                                    /\ task'[u] = task[u] /\ created'[u] = created[u]
    BY <1>1, <1>4, <2>1, HoldStep DEF Control, Saving
  <2>3. WorkerInv(w)'
    BY <1>1, <2>1, <2>2 DEF WorkerInv, Planning, Reading, Working, IsOpen, Exists
  <2> QED BY <2>2, <2>3, OwnStep
<1>5. CASE Rest(w)
  BY <1>1, <1>5, RestStep DEF Rest
<1> QED BY <1>2, <1>3, <1>4, <1>5

\* Advancing keeps the invariant: what is reported was read closed, and what is planned
\* follows it.
LEMMA AdvanceJobIterationStep ==
    ASSUME IInv, NEW w \in Workers, AdvanceJobIteration(w)
    PROVE  IInv'
<1>1. /\ pc[w] \in Reading /\ IsJob(mine[w]) /\ faults' \in 0 .. MaxFaults
      /\ IsProcessed(mine[w]) => IsClosed(mine[w].iter)
  BY DEF AdvanceJobIteration, IInv, WorkerInv, Reading, TypeOK
<1>2. ReportedIterationIsClosed' /\ finished' \in [Workers -> 0 .. MaxIterations]
  BY <1>1, JobIsSomething
     DEF AdvanceJobIteration, ReportFinished, ReportedIterationIsClosed, IInv, TypeOK, IsClosed, Exists, Iterations
<1>3. CASE IterationStatus(mine[w]) = "InProgress" /\ PickTask(w)
  <2>1. ~IsProcessed(mine[w])
    BY <1>3 DEF IterationStatus
  <2> QED BY <1>1, <1>2, <1>3, <2>1, PickTaskStep DEF AdvanceJobIteration
<1>4. CASE /\ IterationStatus(mine[w]) = "Ready"
           /\ Hold(w, "SaveNewIteration", NewJob(w, mine[w].iter + 1), "New", NoTask)
  <2>1. IsProcessed(mine[w]) /\ ~(mine[w].iter >= MaxIterations)
    BY <1>4 DEF IterationStatus
  <2> DEFINE i == mine[w].iter + 1
  <2>2. i \in Iterations /\ i > 1 /\ i - 1 = mine[w].iter
    BY <1>1, <2>1, LimitsAssumption DEF IsJob, Iterations
  <2>3. IsClosed(i - 1)
    BY <1>1, <2>1, <2>2
  <2>4. Hold(w, "SaveNewIteration", NewJob(w, i), "New", NoTask) /\ UNCHANGED <<objects, faults>>
    BY <1>4 DEF AdvanceJobIteration
  <2> HIDE DEF i
  <2> QED BY <1>2, <2>2, <2>3, <2>4, PlanStep DEF Planning
<1>5. CASE Rest(w)
  BY <1>1, <1>2, <1>5, RestStep DEF Rest, AdvanceJobIteration
<1> QED BY <1>3, <1>4, <1>5 DEF AdvanceJobIteration

\* Picking a task in the iteration just opened keeps the invariant.
LEMMA PickInNewIterationStep ==
    ASSUME IInv, NEW w \in Workers, PickInNewIteration(w)
    PROVE  IInv'
<1>1. ReportedIterationIsClosed' /\ finished' \in [Workers -> 0 .. MaxIterations] /\ faults' \in 0 .. MaxFaults
  BY SameReport DEF PickInNewIteration, IInv, TypeOK
<1>2. CASE IsProcessed(mine[w]) /\ Rest(w)
  BY <1>1, <1>2, RestStep DEF Rest, PickInNewIteration
<1>3. CASE ~IsProcessed(mine[w]) /\ PickTask(w)
  BY <1>1, <1>3, PickTaskStep DEF PickInNewIteration, Reading
<1> QED BY <1>2, <1>3 DEF PickInNewIteration

\* The write of w: it creates the iteration after a closed one or replaces an open one, and
\* takes no task away.
LEMMA WriteEffect ==
    ASSUME IInv, NEW w \in Workers, pc[w] \in Saving, IsSaveAllowed(w), Store(w)
    PROVE  /\ IsJob(mine[w]) /\ objects'[mine[w].iter] = mine[w]
           /\ DOMAIN objects' = Iterations
           /\ \A i \in Iterations \ {mine[w].iter} : objects'[i] = objects[i]
           /\ \A i \in Iterations : Exists(i)' => IsJob(objects'[i]) /\ objects'[i].iter = i
           /\ \A i \in Iterations : IsClosed(i) => objects'[i] = objects[i]
           /\ \A i \in Iterations : Exists(i) => DOMAIN objects[i].tasks \subseteq DOMAIN objects'[i].tasks
           /\ IterationsInOrder'
<1> DEFINE n == mine[w].iter
<1>1. IsJob(mine[w]) /\ n \in Iterations /\ mine[w] # Nothing
  <2>1. IsJob(mine[w])
    BY DEF IInv, WorkerInv, Saving, Planning, Reading, Working
  <2> QED BY <2>1, JobIsSomething
<1>2. \/ pc[w] = "SaveNewJob" /\ n = 1 /\ ~Exists(n)
      \/ pc[w] = "SaveNewIteration" /\ n > 1 /\ IsClosed(n - 1) /\ ~Exists(n)
      \/ IsOpen(n) /\ DOMAIN objects[n].tasks \subseteq DOMAIN mine[w].tasks
  BY DEF IInv, WorkerInv, IsSaveAllowed, Saving, Planning, Reading, Working
<1>3. /\ objects'[n] = mine[w] /\ DOMAIN objects' = Iterations
      /\ \A i \in Iterations \ {n} : objects'[i] = objects[i]
  BY <1>1 DEF Store, IInv, TypeOK
<1>4. \A i \in Iterations : Exists(i)' => IsJob(objects'[i]) /\ objects'[i].iter = i
  BY <1>1, <1>3 DEF IInv, TypeOK, Exists
<1>5. \A i \in Iterations : IsClosed(i) => objects'[i] = objects[i]
  BY <1>2, <1>3 DEF IsClosed, IsOpen, Exists
<1>6. \A i \in Iterations : Exists(i) => DOMAIN objects[i].tasks \subseteq DOMAIN objects'[i].tasks
  BY <1>2, <1>3
<1>7. \A i \in Iterations : IsClosed(i) => IsClosed(i)'
  BY <1>5 DEF IsClosed, Exists
<1>8. IterationsInOrder'
  <2> SUFFICES ASSUME NEW i \in Iterations, Exists(i)', NEW k \in 1 .. i - 1
               PROVE  IsClosed(k)'
    BY DEF IterationsInOrder
  <2>1. k \in Iterations /\ k < i
    BY LimitsAssumption DEF Iterations
  <2>2. CASE i # n
    <3>1. Exists(i)
      BY <1>3, <2>2 DEF Exists
    <3> QED BY <1>7, <2>1, <3>1 DEF IInv, IterationsInOrder
  <2>3. CASE i = n
    <3>1. CASE n = 1
      BY <2>1, <2>3, <3>1 DEF Iterations
    <3>2. CASE n > 1 /\ IsClosed(n - 1)
      <4>1. n - 1 \in Iterations /\ Exists(n - 1) /\ (k = n - 1 \/ k \in 1 .. (n - 1) - 1)
        BY <1>1, <2>1, <2>3, <3>2, LimitsAssumption DEF Iterations, IsClosed
      <4>2. IsClosed(k)
        BY <3>2, <4>1 DEF IInv, IterationsInOrder
      <4> QED BY <1>7, <2>1, <4>2
    <3>3. CASE IsOpen(n)
      BY <1>7, <2>1, <2>3, <3>3 DEF IInv, IterationsInOrder, IsOpen
    <3> QED BY <1>2, <3>1, <3>2, <3>3
  <2> QED BY <2>2, <2>3
<1> QED BY <1>1, <1>3, <1>4, <1>5, <1>6, <1>8

\* It leaves every other worker right about the store.
LEMMA StoreStep ==
    ASSUME IInv, NEW w \in Workers, pc[w] \in Saving, IsSaveAllowed(w), Store(w),
           \A v \in Workers \ {w} :
                /\ pc'[v] = pc[v] /\ mine'[v] = mine[v] /\ task'[v] = task[v] /\ created'[v] = created[v]
                /\ version'[v] = IF version[v] = "Current" /\ mine[v].iter = mine[w].iter
                                 THEN "Stale" ELSE version[v]
    PROVE  /\ IsJob(mine[w]) /\ objects'[mine[w].iter] = mine[w]
           /\ DOMAIN objects' = Iterations
           /\ \A i \in Iterations \ {mine[w].iter} : objects'[i] = objects[i]
           /\ \A i \in Iterations : Exists(i)' => IsJob(objects'[i]) /\ objects'[i].iter = i
           /\ \A i \in Iterations : IsClosed(i) => objects'[i] = objects[i]
           /\ \A i \in Iterations : Exists(i) => DOMAIN objects[i].tasks \subseteq DOMAIN objects'[i].tasks
           /\ IterationsInOrder'
           /\ \A v \in Workers \ {w} : WorkerInv(v)'
<1> DEFINE n == mine[w].iter
<1>1. /\ IsJob(mine[w]) /\ objects'[n] = mine[w] /\ DOMAIN objects' = Iterations
      /\ \A i \in Iterations \ {n} : objects'[i] = objects[i]
      /\ \A i \in Iterations : Exists(i)' => IsJob(objects'[i]) /\ objects'[i].iter = i
      /\ \A i \in Iterations : IsClosed(i) => objects'[i] = objects[i]
      /\ \A i \in Iterations : Exists(i) => DOMAIN objects[i].tasks \subseteq DOMAIN objects'[i].tasks
      /\ IterationsInOrder'
  BY WriteEffect
<1>2. \A i \in Iterations : IsClosed(i) => IsClosed(i)'
  BY <1>1 DEF IsClosed, Exists
<1>3. ASSUME NEW v \in Workers \ {w}
      PROVE  WorkerInv(v)'
  <2>1. WorkerInv(v)
    BY DEF IInv
  <2>2. /\ pc'[v] = pc[v] /\ mine'[v] = mine[v] /\ task'[v] = task[v] /\ created'[v] = created[v]
        /\ version'[v] = "Current" => version[v] = "Current" /\ mine[v].iter # n
        /\ version'[v] = "New" <=> version[v] = "New"
        /\ version[v] # "Current" => version'[v] = version[v]
    OBVIOUS
  <2>3. IsJob(mine[v]) => mine[v].iter \in Iterations
    BY DEF IsJob, Iterations
  <2>4. pc[v] = "SaveNewIteration" => mine[v].iter - 1 \in Iterations
    BY <2>1, <2>3, LimitsAssumption DEF WorkerInv, Planning, Iterations
  <2>5. IsJob(mine[v]) /\ version'[v] = "Current" => objects'[mine[v].iter] = objects[mine[v].iter]
    BY <1>1, <2>2, <2>3
  <2>6. /\ pc[v] \in Planning \cup Reading \cup Working => IsJob(mine[v])
        /\ pc[v] = "SaveNewIteration" => IsClosed(mine[v].iter - 1)'
        /\ pc[v] \in Reading /\ IsProcessed(mine[v]) => IsClosed(mine[v].iter)'
        /\ pc[v] \in Reading /\ ~IsProcessed(mine[v]) /\ version'[v] = "Current" => IsOpen(mine[v].iter)'
        /\ pc[v] \in Working /\ version'[v] = "Current" => IsOpen(mine[v].iter)'
    BY <1>2, <2>1, <2>2, <2>3, <2>4, <2>5 DEF WorkerInv, IsOpen, Exists
  <2>7. /\ pc[v] \in Reading \cup Working /\ version'[v] = "Current" =>
                DOMAIN objects'[mine[v].iter].tasks \subseteq DOMAIN mine[v].tasks
        /\ pc[v] = "Execute" /\ version'[v] = "Current" =>
                created[v] \cap DOMAIN objects'[mine[v].iter].tasks = {}
    BY <2>1, <2>2, <2>5 DEF WorkerInv, Working
  <2>8. /\ pc[v] \in {"SaveStart", "Execute", "SaveResult"} => task[v] \in DOMAIN mine[v].tasks \ created[v]
        /\ pc[v] \in {"SaveStart", "Execute"} => ~IsProcessed(mine[v])
        /\ pc[v] \in Planning => version'[v] # "Current"
        /\ pc[v] \in Reading \cup Working => version'[v] # "New"
        /\ pc[v] = "SaveNewJob" => mine[v].iter = 1
        /\ pc[v] = "SaveNewIteration" => mine[v].iter > 1
    BY <2>1, <2>2 DEF WorkerInv
  <2> QED BY <2>2, <2>6, <2>7, <2>8 DEF WorkerInv
<1> QED BY <1>1, <1>3

\* After a write every other copy of that iteration is stale.
LEMMA OthersStaleType ==
    ASSUME TypeOK, NEW w \in Workers
    PROVE  /\ OthersStale(w) \in [Workers -> {"New", "Current", "Stale"}]
           /\ \A v \in Workers \ {w} :
                OthersStale(w)[v] = IF version[v] = "Current" /\ mine[v].iter = mine[w].iter
                                    THEN "Stale" ELSE version[v]
BY DEF OthersStale, TypeOK

\* A fault leaves one fault less.
LEMMA FaultType ==
    ASSUME TypeOK, NEW kind, Happens(kind)
    PROVE  faults' \in 0 .. MaxFaults
BY InputsAssumption DEF TypeOK, Happens

\* An acknowledged write keeps the invariant.
LEMMA SaveAcknowledgedStep ==
    ASSUME IInv, NEW w \in Workers, SaveAcknowledged(w)
    PROVE  IInv'
<1> DEFINE place == AfterSave(w)
<1>1. /\ \/ pc[w] = "SaveNewJob" /\ place = "Advance"
         \/ pc[w] = "SaveNewIteration" /\ place = "Pick"
         \/ pc[w] = "SaveStart" /\ place = "Execute"
         \/ pc[w] \in {"SaveResult", "SaveSettled"} /\ place = "Idle"
      /\ WorkerInv(w)
  BY DEF SaveAcknowledged, Saving, AfterSave, IInv
<1> HIDE DEF place
<1>2. /\ OthersStale(w) \in [Workers -> {"New", "Current", "Stale"}]
      /\ \A v \in Workers \ {w} :
            OthersStale(w)[v] = IF version[v] = "Current" /\ mine[v].iter = mine[w].iter
                                THEN "Stale" ELSE version[v]
  BY OthersStaleType DEF IInv
<1>3. /\ pc'[w] = place
      /\ mine'[w] = IF place = "Idle" THEN Nothing ELSE mine[w]
      /\ version'[w] = IF place = "Idle" THEN "New" ELSE "Current"
      /\ task'[w] = IF place = "Idle" THEN NoTask ELSE task[w]
      /\ created'[w] = {}
      /\ \A v \in Workers \ {w} :
            /\ pc'[v] = pc[v] /\ mine'[v] = mine[v] /\ task'[v] = task[v] /\ created'[v] = created[v]
            /\ version'[v] = IF version[v] = "Current" /\ mine[v].iter = mine[w].iter
                             THEN "Stale" ELSE version[v]
  BY <1>2 DEF SaveAcknowledged, IInv, TypeOK, place
<1>4. /\ IsJob(mine[w]) /\ objects'[mine[w].iter] = mine[w]
      /\ DOMAIN objects' = Iterations
      /\ \A i \in Iterations : Exists(i)' => IsJob(objects'[i]) /\ objects'[i].iter = i
      /\ \A i \in Iterations : IsClosed(i) => objects'[i] = objects[i]
      /\ IterationsInOrder'
      /\ \A v \in Workers \ {w} : WorkerInv(v)'
  BY <1>3, StoreStep DEF SaveAcknowledged
<1>5. mine[w] # Nothing /\ mine[w].iter \in Iterations
  BY <1>4, JobIsSomething
<1>6. ReportedIterationIsClosed' /\ finished' \in [Workers -> 0 .. MaxIterations]
  <2>1. finished' = finished \/ (IsProcessed(mine[w]) /\ finished' = [finished EXCEPT ![w] = mine[w].iter])
    BY DEF SaveAcknowledged, ReportFinished, IInv, TypeOK
  <2>2. CASE finished' = finished
    BY <1>4, <2>2 DEF IInv, TypeOK, ReportedIterationIsClosed, IsClosed, Exists, Iterations
  <2>3. CASE IsProcessed(mine[w]) /\ finished' = [finished EXCEPT ![w] = mine[w].iter]
    BY <1>4, <1>5, <2>3 DEF IInv, TypeOK, ReportedIterationIsClosed, IsClosed, Exists, Iterations
  <2> QED BY <2>1, <2>2, <2>3
<1>7. TypeOK'
  <2>1. pc' \in [Workers -> Control] /\ task' \in [Workers -> TaskIds \cup {NoTask}]
    BY <1>1 DEF SaveAcknowledged, place, IInv, TypeOK, Control
  <2>2. /\ version' \in [Workers -> {"New", "Current", "Stale"}] /\ created' \in [Workers -> SUBSET TaskIds]
        /\ faults' \in 0 .. MaxFaults
    BY <1>2 DEF SaveAcknowledged, IInv, TypeOK
  <2>3. DOMAIN mine' = Workers /\ \A v \in Workers : mine'[v] # Nothing => IsJob(mine'[v])
    BY <1>3, <1>4 DEF SaveAcknowledged, IInv, TypeOK
  <2> QED BY <1>4, <1>6, <2>1, <2>2, <2>3 DEF TypeOK, Exists
<1>8. WorkerInv(w)'
  <2>1. CASE place = "Idle"
    BY <1>3, <2>1 DEF WorkerInv, Planning, Reading, Working
  <2>2. CASE place # "Idle"
    <3>1. /\ mine'[w] = mine[w] /\ objects'[mine'[w].iter] = mine'[w] /\ created'[w] = {}
          /\ task'[w] = task[w] /\ pc'[w] \in {"Advance", "Pick", "Execute"} /\ version'[w] = "Current"
          /\ pc'[w] = "Execute" => pc[w] = "SaveStart"
      BY <1>1, <1>3, <1>4, <2>2
    <3>2. pc'[w] = "Execute" => ~IsProcessed(mine'[w]) /\ task'[w] \in DOMAIN mine'[w].tasks
      BY <1>1, <3>1 DEF WorkerInv
    <3> QED BY <1>4, <1>5, <3>1, <3>2
            DEF WorkerInv, Planning, Reading, Working, IsClosed, IsOpen, Exists
  <2> QED BY <2>1, <2>2
<1> QED BY <1>4, <1>6, <1>7, <1>8 DEF IInv

\* The copy of a worker that does not know its write was applied is stale, which is all its
\* next attempt goes by.
LEMMA SaveAnswerLostStep ==
    ASSUME IInv, NEW w \in Workers, SaveAnswerLost(w)
    PROVE  IInv'
<1>1. /\ OthersStale(w) \in [Workers -> {"New", "Current", "Stale"}]
      /\ \A v \in Workers \ {w} :
            OthersStale(w)[v] = IF version[v] = "Current" /\ mine[v].iter = mine[w].iter
                                THEN "Stale" ELSE version[v]
  BY OthersStaleType DEF IInv
<1>2. /\ pc' = pc /\ mine' = mine /\ task' = task /\ created' = created /\ finished' = finished
      /\ version'[w] = "Stale" /\ pc[w] \in Saving
      /\ \A v \in Workers \ {w} :
            version'[v] = IF version[v] = "Current" /\ mine[v].iter = mine[w].iter
                          THEN "Stale" ELSE version[v]
  BY <1>1 DEF SaveAnswerLost
<1>3. /\ DOMAIN objects' = Iterations
      /\ \A i \in Iterations : Exists(i)' => IsJob(objects'[i]) /\ objects'[i].iter = i
      /\ \A i \in Iterations : IsClosed(i) => objects'[i] = objects[i]
      /\ IterationsInOrder'
      /\ \A v \in Workers \ {w} : WorkerInv(v)'
  BY <1>2, StoreStep DEF SaveAnswerLost
<1>4. ReportedIterationIsClosed'
  BY <1>2, <1>3 DEF IInv, TypeOK, ReportedIterationIsClosed, IsClosed, Exists, Iterations
<1>5. TypeOK'
  <2>1. version' \in [Workers -> {"New", "Current", "Stale"}] /\ faults' \in 0 .. MaxFaults
    BY <1>1, FaultType DEF SaveAnswerLost, IInv, TypeOK
  <2> QED BY <1>2, <1>3, <2>1 DEF IInv, TypeOK, Exists
<1>6. WorkerInv(w)'
  <2>1. WorkerInv(w)
    BY DEF IInv
  <2>2. pc[w] = "SaveNewIteration" => mine[w].iter - 1 \in Iterations
    BY <2>1, LimitsAssumption DEF WorkerInv, Planning, IsJob, Iterations
  <2>3. pc[w] = "SaveNewIteration" => IsClosed(mine[w].iter - 1)'
    BY <1>2, <1>3, <2>1, <2>2 DEF WorkerInv, IsClosed, Exists
  <2> QED BY <1>2, <2>1, <2>3 DEF WorkerInv, Saving, Planning, Reading, Working
<1> QED BY <1>3, <1>4, <1>5, <1>6 DEF IInv

\* What a refused write is merged into is the open iteration it was made for.
LEMMA SaveRefusedStep ==
    ASSUME IInv, NEW w \in Workers, SaveRefused(w)
    PROVE  IInv'
<1> DEFINE Merge(i) == IF pc[w] = "SaveStart"
                       THEN MergePickedTask(objects[i], mine[w], w, task[w])
                       ELSE MergeProcessedTask(objects[i], mine[w], w, task[w])
<1>1. PICK i \in Iterations :
        /\ IsReadable(i)
        /\ \/ Hold(w, "Advance", objects[i], "Current", NoTask)
           \/ Hold(w, "Pick", objects[i], "Current", NoTask)
           \/ Rest(w)
           \/ /\ pc[w] \in {"SaveStart", "SaveResult"} /\ Merge(i).answer = "Merged"
              /\ mine' = [mine EXCEPT ![w] = Merge(i).job]
              /\ version' = [version EXCEPT ![w] = "Current"]
              /\ UNCHANGED <<pc, task, created>>
  BY DEF SaveRefused
<1>2. ReportedIterationIsClosed' /\ finished' \in [Workers -> 0 .. MaxIterations] /\ faults' \in 0 .. MaxFaults
  BY SameReport DEF SaveRefused, IInv, TypeOK
<1>3. CASE Hold(w, "Advance", objects[i], "Current", NoTask) \/ Hold(w, "Pick", objects[i], "Current", NoTask)
  BY <1>1, <1>3, ReadStep DEF SaveRefused, Reading
<1>4. CASE Rest(w)
  BY <1>2, <1>4, RestStep DEF Rest, SaveRefused
<1>5. CASE /\ pc[w] \in {"SaveStart", "SaveResult"} /\ Merge(i).answer = "Merged"
           /\ mine' = [mine EXCEPT ![w] = Merge(i).job]
           /\ version' = [version EXCEPT ![w] = "Current"]
           /\ UNCHANGED <<pc, task, created>>
  <2>1. /\ WorkerInv(w) /\ IsJob(mine[w]) /\ task[w] \in DOMAIN mine[w].tasks \ created[w]
        /\ Exists(i) /\ IsJob(objects[i]) /\ objects[i].iter = i
    BY <1>1, <1>5 DEF IInv, TypeOK, WorkerInv, Working, IsReadable, IsNewest, IsClosed
  <2> DEFINE merged == Merge(i).job
  <2>2. /\ Extends(merged, objects[i]) /\ objects[i].iter = mine[w].iter /\ ~IsProcessed(objects[i])
        /\ task[w] \in DOMAIN merged.tasks
        /\ pc[w] = "SaveStart" => ~IsProcessed(merged)
    <3>1. CASE pc[w] = "SaveStart"
      <4>1. ~IsProcessed(mine[w])
        BY <2>1, <3>1 DEF WorkerInv
      <4> QED BY <1>5, <2>1, <3>1, <4>1, MergePickedTaskType DEF IsProcessed
    <3>2. CASE pc[w] = "SaveResult"
      BY <1>5, <2>1, <3>2, MergeProcessedTaskType
    <3> QED BY <1>5, <3>1, <3>2
  <2> HIDE DEF Merge
  <2>3. /\ pc'[w] = pc[w] /\ mine'[w] = merged /\ version'[w] = "Current" /\ task'[w] = task[w]
        /\ created'[w] = created[w]
        /\ \A u \in Workers \ {w} : /\ pc'[u] = pc[u] /\ mine'[u] = mine[u] /\ version'[u] = version[u]
                                    /\ task'[u] = task[u] /\ created'[u] = created[u]
    BY <1>5 DEF IInv, TypeOK
  <2>4. IsJob(merged) /\ merged.iter = i /\ DOMAIN objects[i].tasks \subseteq DOMAIN merged.tasks /\ IsOpen(i)
    BY <2>1, <2>2 DEF Extends, IsOpen
  <2> HIDE DEF merged
  <2>5. TypeOK'
    BY <1>2, <1>5, <2>3, <2>4 DEF IInv, TypeOK, SaveRefused, Exists
  <2>6. WorkerInv(w)'
    BY <1>5, <2>1, <2>2, <2>3, <2>4
       DEF WorkerInv, Planning, Reading, Working, SaveRefused, IsOpen, Exists
  <2> QED BY <1>2, <2>3, <2>5, <2>6, OwnStep DEF SaveRefused
<1> QED BY <1>1, <1>3, <1>4, <1>5

\* A write that ended with an error keeps the invariant, applied or not.
LEMMA SaveGivenUpStep ==
    ASSUME IInv, NEW w \in Workers, SaveGivenUp(w)
    PROVE  IInv'
<1>1. faults' \in 0 .. MaxFaults /\ pc[w] \in Saving /\ finished' = finished
  BY FaultType DEF SaveGivenUp, IInv
<1>2. /\ pc' = [pc EXCEPT ![w] = "Idle"] /\ mine' = [mine EXCEPT ![w] = Nothing]
      /\ task' = [task EXCEPT ![w] = NoTask] /\ created' = [created EXCEPT ![w] = {}]
  BY DEF SaveGivenUp
<1>3. CASE UNCHANGED objects /\ version' = [version EXCEPT ![w] = "New"]
  <2>1. Hold(w, "Idle", Nothing, "New", NoTask)
    BY <1>2, <1>3 DEF Hold
  <2> QED BY <1>1, <1>3, <2>1, SameReport, RestStep
<1>4. CASE IsSaveAllowed(w) /\ Store(w) /\ version' = [OthersStale(w) EXCEPT ![w] = "New"]
  <2>1. /\ OthersStale(w) \in [Workers -> {"New", "Current", "Stale"}]
        /\ \A v \in Workers \ {w} :
              OthersStale(w)[v] = IF version[v] = "Current" /\ mine[v].iter = mine[w].iter
                                  THEN "Stale" ELSE version[v]
    BY OthersStaleType DEF IInv
  <2>2. /\ pc'[w] = "Idle" /\ mine'[w] = Nothing
        /\ \A v \in Workers \ {w} :
              /\ pc'[v] = pc[v] /\ mine'[v] = mine[v] /\ task'[v] = task[v] /\ created'[v] = created[v]
              /\ version'[v] = IF version[v] = "Current" /\ mine[v].iter = mine[w].iter
                               THEN "Stale" ELSE version[v]
    BY <1>2, <1>4, <2>1 DEF IInv, TypeOK
  <2>3. /\ DOMAIN objects' = Iterations
        /\ \A i \in Iterations : Exists(i)' => IsJob(objects'[i]) /\ objects'[i].iter = i
        /\ \A i \in Iterations : IsClosed(i) => objects'[i] = objects[i]
        /\ IterationsInOrder'
        /\ \A v \in Workers \ {w} : WorkerInv(v)'
    BY <1>1, <1>4, <2>2, StoreStep
  <2>4. ReportedIterationIsClosed'
    BY <1>1, <2>3 DEF IInv, TypeOK, ReportedIterationIsClosed, IsClosed, Exists, Iterations
  <2>5. TypeOK'
    <3>1. /\ pc' \in [Workers -> Control] /\ task' \in [Workers -> TaskIds \cup {NoTask}]
          /\ created' \in [Workers -> SUBSET TaskIds] /\ finished' \in [Workers -> 0 .. MaxIterations]
      BY <1>1, <1>2 DEF IInv, TypeOK, Control
    <3>2. version' \in [Workers -> {"New", "Current", "Stale"}]
      BY <1>4, <2>1
    <3>3. DOMAIN mine' = Workers /\ \A v \in Workers : mine'[v] # Nothing => IsJob(mine'[v])
      BY <1>2, <2>2 DEF IInv, TypeOK
    <3> QED BY <1>1, <2>3, <3>1, <3>2, <3>3 DEF TypeOK, Exists
  <2>6. WorkerInv(w)'
    BY <2>2 DEF WorkerInv, Planning, Reading, Working
  <2> QED BY <2>3, <2>4, <2>5, <2>6 DEF IInv
<1> QED BY <1>3, <1>4 DEF SaveGivenUp

\* A worker that dies keeps the invariant.
LEMMA CrashStep ==
    ASSUME IInv, NEW w \in Workers, Crash(w)
    PROVE  IInv'
BY SameReport, FaultType, RestStep DEF Crash, IInv

\* An execution released by its deadline keeps the invariant.
LEMMA ReleasedByDeadlineStep ==
    ASSUME IInv, NEW w \in Workers, ReleasedByDeadline(w)
    PROVE  IInv'
BY SameReport, RestStep DEF ReleasedByDeadline, Rest, IInv, TypeOK

\* What a worker knows while its executor runs.
LEMMA Executing ==
    ASSUME IInv, NEW w \in Workers, pc[w] = "Execute"
    PROVE  /\ IsJob(mine[w]) /\ ~IsProcessed(mine[w]) /\ task[w] \in DOMAIN mine[w].tasks \ created[w]
           /\ task[w] \in TaskIds /\ created[w] \subseteq TaskIds
           /\ version[w] = "Current" =>
                DOMAIN objects[mine[w].iter].tasks \subseteq DOMAIN mine[w].tasks \ created[w]
BY DEF IInv, WorkerInv, TypeOK, Working, IsJob

\* The executor changes the copy its worker holds, or is done with it.
LEMMA ExecuteStep ==
    ASSUME IInv, NEW w \in Workers, pc[w] = "Execute",
           NEW place \in {"Execute", "SaveResult"}, NEW job, NEW added \in SUBSET TaskIds,
           IsJob(job), job.iter = mine[w].iter, place = "Execute" => ~IsProcessed(job),
           task[w] \in DOMAIN job.tasks \ added,
           version[w] = "Current" =>
                /\ DOMAIN objects[mine[w].iter].tasks \subseteq DOMAIN job.tasks
                /\ place = "Execute" => added \cap DOMAIN objects[mine[w].iter].tasks = {},
           pc' = [pc EXCEPT ![w] = place], mine' = [mine EXCEPT ![w] = job],
           created' = [created EXCEPT ![w] = added],
           UNCHANGED <<objects, version, task, finished, faults>>
    PROVE  IInv'
<1>1. /\ WorkerInv(w) /\ version[w] # "New" /\ (version[w] = "Current" => IsOpen(mine[w].iter))
  BY DEF IInv, WorkerInv, Working
<1>2. /\ pc'[w] = place /\ mine'[w] = job /\ version'[w] = version[w] /\ task'[w] = task[w]
      /\ created'[w] = added
      /\ \A u \in Workers \ {w} : /\ pc'[u] = pc[u] /\ mine'[u] = mine[u] /\ version'[u] = version[u]
                                  /\ task'[u] = task[u] /\ created'[u] = created[u]
  BY DEF IInv, TypeOK
<1>3. TypeOK'
  BY <1>2 DEF IInv, TypeOK, Exists, Control, Saving
<1>4. WorkerInv(w)'
  BY <1>1, <1>2 DEF WorkerInv, Planning, Reading, Working, IsOpen, Exists
<1>5. ReportedIterationIsClosed'
  BY SameReport
<1> QED BY <1>2, <1>3, <1>4, <1>5, OwnStep

\* Adding a task at runtime keeps the invariant: its id is stored nowhere yet.
LEMMA AddTaskStep ==
    ASSUME IInv, NEW w \in Workers, AddTask(w)
    PROVE  IInv'
<1>1. PICK t \in TaskIds \ InitialTasks :
        /\ IsFresh(t, mine[w].iter)
        /\ mine' = [mine EXCEPT ![w] = [mine[w] EXCEPT !.tasks = WithTask(mine[w].tasks, t, NewTask(t, w))]]
        /\ created' = [created EXCEPT ![w] = created[w] \cup {t}]
        /\ UNCHANGED <<objects, pc, version, task, finished, faults>>
  BY DEF AddTask, Change
<1> DEFINE tasks == WithTask(mine[w].tasks, t, NewTask(t, w))
           job == [mine[w] EXCEPT !.tasks = tasks]
<1>2. pc[w] = "Execute"
  BY DEF AddTask
<1>3. /\ IsJob(mine[w]) /\ ~IsProcessed(mine[w]) /\ task[w] \in DOMAIN mine[w].tasks \ created[w]
      /\ task[w] \in TaskIds /\ created[w] \subseteq TaskIds
      /\ version[w] = "Current" =>
            DOMAIN objects[mine[w].iter].tasks \subseteq DOMAIN mine[w].tasks \ created[w]
  BY <1>2, Executing
<1>4. t \notin DOMAIN mine[w].tasks
  BY <1>1 DEF IsFresh
<1>5. IsTaskMap(tasks) /\ DOMAIN tasks = DOMAIN mine[w].tasks \cup {t}
  BY <1>3, NewTaskType, WithTaskType DEF IsJob, IsTaskMap
<1>6. IsJob(job) /\ job.iter = mine[w].iter /\ job.tasks = tasks /\ job.status = mine[w].status
  <2> HIDE DEF tasks
  <2> QED BY <1>3, <1>5, WithTasksExtends DEF Extends
<1>7. pc' = [pc EXCEPT ![w] = "Execute"] /\ mine' = [mine EXCEPT ![w] = job]
  BY <1>1, <1>2 DEF IInv, TypeOK
<1> HIDE DEF tasks, job
<1>8. /\ ~IsProcessed(job) /\ task[w] \in DOMAIN job.tasks \ (created[w] \cup {t})
      /\ created[w] \cup {t} \in SUBSET TaskIds
      /\ version[w] = "Current" =>
            /\ DOMAIN objects[mine[w].iter].tasks \subseteq DOMAIN job.tasks
            /\ (created[w] \cup {t}) \cap DOMAIN objects[mine[w].iter].tasks = {}
  BY <1>3, <1>4, <1>5, <1>6 DEF IsProcessed
<1> QED BY <1>1, <1>2, <1>6, <1>7, <1>8, ExecuteStep

\* An executor that resolves a task of its copy adds and drops nothing.
LEMMA EndTaskStep ==
    ASSUME IInv, NEW w \in Workers, pc[w] = "Execute", NEW t, NEW status \in TaskStatus,
           Change(w, [mine[w] EXCEPT !.tasks[t] = Ended(@, status)]), UNCHANGED created
    PROVE  IInv'
<1> DEFINE job == [mine[w] EXCEPT !.tasks[t] = Ended(@, status)]
<1>1. /\ IsJob(mine[w]) /\ ~IsProcessed(mine[w]) /\ task[w] \in DOMAIN mine[w].tasks \ created[w]
      /\ task[w] \in TaskIds /\ created[w] \subseteq TaskIds
      /\ version[w] = "Current" =>
            DOMAIN objects[mine[w].iter].tasks \subseteq DOMAIN mine[w].tasks \ created[w]
  BY Executing
<1>2. Extends(job, mine[w]) /\ job.status = mine[w].status
  BY <1>1, EndTaskType
<1>3. /\ mine' = [mine EXCEPT ![w] = job] /\ UNCHANGED <<objects, version, task, finished, faults>>
      /\ pc' = [pc EXCEPT ![w] = "Execute"] /\ created' = [created EXCEPT ![w] = created[w]]
  BY DEF Change, IInv, TypeOK
<1> HIDE DEF job
<1>4. /\ IsJob(job) /\ job.iter = mine[w].iter /\ ~IsProcessed(job)
      /\ task[w] \in DOMAIN job.tasks \ created[w]
      /\ version[w] = "Current" =>
            /\ DOMAIN objects[mine[w].iter].tasks \subseteq DOMAIN job.tasks
            /\ created[w] \cap DOMAIN objects[mine[w].iter].tasks = {}
  BY <1>1, <1>2 DEF Extends, IsProcessed
<1> QED BY <1>1, <1>3, <1>4, ExecuteStep

\* Completing a task through the handle keeps the invariant.
LEMMA CompleteTaskStep ==
    ASSUME IInv, NEW w \in Workers, CompleteTask(w)
    PROVE  IInv'
<1>1. PICK t \in DOMAIN mine[w].tasks : Change(w, [mine[w] EXCEPT !.tasks[t] = Ended(@, "Completed")])
  BY DEF CompleteTask
<1> QED BY <1>1, EndTaskStep DEF CompleteTask, TaskStatus

\* Skipping a branch through the handle keeps the invariant.
LEMMA SkipTaskBranchStep ==
    ASSUME IInv, NEW w \in Workers, SkipTaskBranch(w)
    PROVE  IInv'
BY EndTaskStep DEF SkipTaskBranch, TaskStatus, Skipped

\* Failing a task through the handle keeps the invariant: the rollback takes only what this
\* execution added.
LEMMA FailTaskByHandleStep ==
    ASSUME IInv, NEW w \in Workers, FailTaskByHandle(w)
    PROVE  IInv'
<1>1. PICK t \in DOMAIN mine[w].tasks, retry \in {"WhileBudgetLasts", "Never"} :
        LET rolledBack == IF t = task[w] THEN created[w] ELSE {}
        IN /\ Change(w, FailTask(mine[w], t, retry, rolledBack))
           /\ created' = [created EXCEPT ![w] = created[w] \ rolledBack]
  BY DEF FailTaskByHandle
<1> DEFINE rolledBack == IF t = task[w] THEN created[w] ELSE {}
           job == FailTask(mine[w], t, retry, rolledBack)
           added == created[w] \ rolledBack
<1>2. pc[w] = "Execute"
  BY DEF FailTaskByHandle
<1>3. /\ IsJob(mine[w]) /\ ~IsProcessed(mine[w]) /\ task[w] \in DOMAIN mine[w].tasks \ created[w]
      /\ task[w] \in TaskIds /\ created[w] \subseteq TaskIds
      /\ version[w] = "Current" =>
            DOMAIN objects[mine[w].iter].tasks \subseteq DOMAIN mine[w].tasks \ created[w]
  BY <1>2, Executing
<1>4. KeepsBut(rolledBack, job, mine[w])
  <2>1. retry \in {"WhileBudgetLasts", "Never"}
    BY <1>1
  <2> HIDE DEF rolledBack
  <2> QED BY <1>3, <2>1, FailTaskType
<1>5. /\ mine' = [mine EXCEPT ![w] = job] /\ UNCHANGED <<objects, version, task, finished, faults>>
      /\ pc' = [pc EXCEPT ![w] = "Execute"] /\ created' = [created EXCEPT ![w] = added]
  BY <1>1, <1>2 DEF Change, IInv, TypeOK
<1> HIDE DEF job
<1>6. /\ ~IsProcessed(job) /\ task[w] \in DOMAIN job.tasks \ added /\ added \in SUBSET TaskIds
      /\ version[w] = "Current" =>
            /\ DOMAIN objects[mine[w].iter].tasks \subseteq DOMAIN job.tasks
            /\ added \cap DOMAIN objects[mine[w].iter].tasks = {}
  BY <1>3, <1>4 DEF IsProcessed, KeepsBut
<1> HIDE DEF added, rolledBack
<1> QED BY <1>2, <1>4, <1>5, <1>6, ExecuteStep DEF KeepsBut

\* Moving the start of the next iteration keeps the invariant.
LEMMA SetNextStartAtStep ==
    ASSUME IInv, NEW w \in Workers, SetNextStartAt(w)
    PROVE  IInv'
<1>1. PICK delay \in StartDelays : Change(w, [mine[w] EXCEPT !.next = delay])
  BY DEF SetNextStartAt
<1> DEFINE job == [mine[w] EXCEPT !.next = delay]
<1>2. pc[w] = "Execute" /\ UNCHANGED created
  BY DEF SetNextStartAt
<1>3. /\ IsJob(mine[w]) /\ ~IsProcessed(mine[w]) /\ task[w] \in DOMAIN mine[w].tasks \ created[w]
      /\ task[w] \in TaskIds /\ created[w] \subseteq TaskIds
      /\ version[w] = "Current" =>
            DOMAIN objects[mine[w].iter].tasks \subseteq DOMAIN mine[w].tasks \ created[w]
  BY <1>2, Executing
<1>4. IsJob(job) /\ job.iter = mine[w].iter /\ job.status = mine[w].status /\ job.tasks = mine[w].tasks
  BY <1>3, InputsAssumption DEF IsJob, Moment
<1>5. /\ mine' = [mine EXCEPT ![w] = job] /\ UNCHANGED <<objects, version, task, finished, faults>>
      /\ pc' = [pc EXCEPT ![w] = "Execute"] /\ created' = [created EXCEPT ![w] = created[w]]
  BY <1>1, <1>2 DEF Change, IInv, TypeOK
<1> HIDE DEF job
<1>6. /\ ~IsProcessed(job) /\ task[w] \in DOMAIN job.tasks \ created[w]
      /\ version[w] = "Current" =>
            /\ DOMAIN objects[mine[w].iter].tasks \subseteq DOMAIN job.tasks
            /\ created[w] \cap DOMAIN objects[mine[w].iter].tasks = {}
  BY <1>3, <1>4 DEF IsProcessed
<1> QED BY <1>2, <1>3, <1>4, <1>5, <1>6, ExecuteStep

\* The outcome drops nothing but what the execution itself added.
LEMMA AppliedOutcomeType ==
    ASSUME IInv, NEW w \in Workers, pc[w] = "Execute", NEW outcome
    PROVE  LET applied == AppliedOutcome(w, outcome)
           IN /\ IsJob(applied) /\ applied.iter = mine[w].iter
              /\ DOMAIN applied.tasks \in {DOMAIN mine[w].tasks, DOMAIN mine[w].tasks \ created[w]}
<1>1. IsJob(mine[w])
  BY Executing
<1> DEFINE job == mine[w]
           t == task[w]
<1>2. AppliedOutcome(w, outcome) \in
        {[job EXCEPT !.tasks[t] = Ended(@, "Completed")],
         [job EXCEPT !.tasks[t] = Ended(@, "SkippedByExecutor")],
         FailTask(job, t, "Never", created[w]), job,
         FailTask(job, t, "WhileBudgetLasts", created[w])}
  BY DEF AppliedOutcome
<1>3. /\ Extends([job EXCEPT !.tasks[t] = Ended(@, "Completed")], job)
      /\ Extends([job EXCEPT !.tasks[t] = Ended(@, "SkippedByExecutor")], job)
      /\ DOMAIN [job EXCEPT !.tasks[t] = Ended(@, "Completed")].tasks = DOMAIN job.tasks
      /\ DOMAIN [job EXCEPT !.tasks[t] = Ended(@, "SkippedByExecutor")].tasks = DOMAIN job.tasks
  BY <1>1, EndTaskType, EndTaskKeepsTasks DEF TaskStatus, Skipped
<1>4. /\ KeepsBut(created[w], FailTask(job, t, "Never", created[w]), job)
      /\ KeepsBut(created[w], FailTask(job, t, "WhileBudgetLasts", created[w]), job)
  BY <1>1, FailTaskType
<1> QED BY <1>1, <1>2, <1>3, <1>4 DEF Extends, KeepsBut

\* Applying the outcome of an executor keeps the invariant.
LEMMA ExecutorReturnsStep ==
    ASSUME IInv, NEW w \in Workers, ExecutorReturns(w)
    PROVE  IInv'
<1>1. PICK outcome \in Outcomes :
        LET applied == AppliedOutcome(w, outcome)
        IN /\ mine' = [mine EXCEPT ![w] = TrySettleIteration(applied).job]
           /\ created' = [created EXCEPT ![w] = created[w] \cap DOMAIN applied.tasks]
  BY DEF ExecutorReturns
<1> DEFINE applied == AppliedOutcome(w, outcome)
           job == TrySettleIteration(applied).job
           added == created[w] \cap DOMAIN applied.tasks
<1>2. pc[w] = "Execute"
  BY DEF ExecutorReturns
<1>3. /\ IsJob(mine[w]) /\ task[w] \in DOMAIN mine[w].tasks \ created[w] /\ created[w] \subseteq TaskIds
      /\ version[w] = "Current" =>
            DOMAIN objects[mine[w].iter].tasks \subseteq DOMAIN mine[w].tasks \ created[w]
  BY <1>2, Executing
<1>4. /\ IsJob(applied) /\ applied.iter = mine[w].iter
      /\ DOMAIN mine[w].tasks \ created[w] \subseteq DOMAIN applied.tasks
  BY <1>2, AppliedOutcomeType
<1>5. IsJob(job) /\ job.iter = mine[w].iter /\ DOMAIN applied.tasks \subseteq DOMAIN job.tasks
  <2> HIDE DEF applied
  <2> QED BY <1>4, TrySettleIterationType DEF Extends
<1>6. /\ mine' = [mine EXCEPT ![w] = job] /\ created' = [created EXCEPT ![w] = added]
      /\ pc' = [pc EXCEPT ![w] = "SaveResult"] /\ UNCHANGED <<objects, version, task, finished, faults>>
  BY <1>1 DEF ExecutorReturns
<1> HIDE DEF job
<1>7. /\ task[w] \in DOMAIN job.tasks \ added /\ added \in SUBSET TaskIds
      /\ version[w] = "Current" => DOMAIN objects[mine[w].iter].tasks \subseteq DOMAIN job.tasks
  BY <1>3, <1>4, <1>5
<1> HIDE DEF added
<1> QED BY <1>2, <1>5, <1>6, <1>7, ExecuteStep

\* A tick changes neither what is open nor who holds what.
LEMMA TickStep ==
    ASSUME IInv, Tick
    PROVE  IInv'
<1>1. ASSUME NEW i \in Iterations
      PROVE  /\ Exists(i)' <=> Exists(i)
             /\ IsClosed(i)' <=> IsClosed(i)
             /\ IsOpen(i)' <=> IsOpen(i)
             /\ Exists(i) => /\ Extends(objects'[i], objects[i])
                             /\ DOMAIN objects'[i].tasks = DOMAIN objects[i].tasks
  <2>1. objects'[i] = IF Exists(i) THEN Elapse(objects[i]) ELSE Nothing
    BY DEF Tick
  <2>2. Exists(i) => IsJob(objects[i])
    BY DEF IInv, TypeOK
  <2>3. Exists(i) => /\ Extends(objects'[i], objects[i]) /\ objects'[i].status = objects[i].status
                     /\ DOMAIN objects'[i].tasks = DOMAIN objects[i].tasks
    BY <2>1, <2>2, ElapseType
  <2>4. Exists(i) => objects'[i] # Nothing
    BY <2>3, JobIsSomething DEF Extends
  <2> QED BY <2>1, <2>3, <2>4 DEF Exists, IsClosed, IsOpen, IsProcessed
<1>2. ASSUME NEW w \in Workers, mine[w] # Nothing
      PROVE  /\ Extends(mine'[w], mine[w]) /\ DOMAIN mine'[w].tasks = DOMAIN mine[w].tasks
             /\ IsProcessed(mine'[w]) <=> IsProcessed(mine[w])
  <2>1. mine'[w] = Elapse(mine[w]) /\ IsJob(mine[w])
    BY <1>2 DEF Tick, IInv, TypeOK
  <2> QED BY <2>1, ElapseType DEF IsProcessed
<1>3. TypeOK'
  <2>1. /\ DOMAIN objects' = Iterations
        /\ \A i \in Iterations : Exists(i)' => IsJob(objects'[i]) /\ objects'[i].iter = i
    BY <1>1 DEF Tick, IInv, TypeOK, Extends
  <2>2. DOMAIN mine' = Workers /\ \A w \in Workers : mine'[w] # Nothing => IsJob(mine'[w])
    BY <1>2 DEF Tick, Extends
  <2> QED BY <2>1, <2>2 DEF Tick, IInv, TypeOK, Exists
<1>4. IterationsInOrder'
  <2> SUFFICES ASSUME NEW i \in Iterations, Exists(i)', NEW k \in 1 .. i - 1
               PROVE  IsClosed(k)'
    BY DEF IterationsInOrder
  <2>1. k \in Iterations
    BY LimitsAssumption DEF Iterations
  <2> QED BY <1>1, <2>1 DEF IInv, IterationsInOrder
<1>5. ReportedIterationIsClosed'
  <2>1. finished' = finished /\ (\A u \in Workers : finished[u] > 0 => finished[u] \in Iterations)
    BY DEF Tick, IInv, TypeOK, Iterations
  <2>2. \A u \in Workers : finished[u] > 0 => IsClosed(finished[u])'
    BY <1>1, <2>1 DEF IInv, ReportedIterationIsClosed, IsClosed, Exists
  <2> QED BY <2>1, <2>2 DEF ReportedIterationIsClosed
<1>6. ASSUME NEW w \in Workers
      PROVE  WorkerInv(w)'
  <2>1. /\ WorkerInv(w) /\ pc'[w] = pc[w] /\ version'[w] = version[w] /\ task'[w] = task[w]
        /\ created'[w] = created[w]
    BY DEF IInv, Tick
  <2>2. CASE pc[w] \notin Planning \cup Reading \cup Working
    BY <2>1, <2>2 DEF WorkerInv, Planning, Reading, Working
  <2>3. CASE pc[w] \in Planning \cup Reading \cup Working
    <3>1. /\ IsJob(mine[w]) /\ mine[w] # Nothing /\ mine[w].iter \in Iterations
      BY <2>1, <2>3, JobIsSomething DEF WorkerInv
    <3>2. /\ IsJob(mine'[w]) /\ mine'[w].iter = mine[w].iter
          /\ DOMAIN mine'[w].tasks = DOMAIN mine[w].tasks
          /\ IsProcessed(mine'[w]) <=> IsProcessed(mine[w])
      BY <1>2, <3>1 DEF Extends
    <3>3. pc[w] = "SaveNewIteration" => mine[w].iter - 1 \in Iterations
      BY <2>1, <3>1, LimitsAssumption DEF WorkerInv, Iterations
    <3>4. /\ pc[w] = "SaveNewIteration" => IsClosed(mine[w].iter - 1)'
          /\ pc[w] \in Reading /\ IsProcessed(mine[w]) => IsClosed(mine[w].iter)'
          /\ pc[w] \in Reading /\ ~IsProcessed(mine[w]) /\ version[w] = "Current" => IsOpen(mine[w].iter)'
          /\ pc[w] \in Working /\ version[w] = "Current" => IsOpen(mine[w].iter)'
      BY <1>1, <2>1, <3>1, <3>2, <3>3 DEF WorkerInv, IsClosed, IsOpen, Exists
    <3>5. /\ pc[w] \in Reading \cup Working /\ version[w] = "Current" =>
                DOMAIN objects'[mine[w].iter].tasks = DOMAIN objects[mine[w].iter].tasks
      <4>1. pc[w] \in Reading \cup Working /\ version[w] = "Current" => Exists(mine[w].iter)
        BY <2>1 DEF WorkerInv, IsOpen, IsClosed
      <4> QED BY <1>1, <3>1, <4>1
    <3> QED BY <2>1, <3>2, <3>4, <3>5 DEF WorkerInv, Reading, Working
  <2> QED BY <2>2, <2>3
<1> QED BY <1>3, <1>4, <1>5, <1>6 DEF IInv

-----------------------------------------------------------------------------
(* Theorems *)

\* The invariant holds before anything is stored.
LEMMA Initial == Init => IInv
<1> SUFFICES ASSUME Init PROVE IInv
  OBVIOUS
<1>1. TypeOK
  BY LimitsAssumption, InputsAssumption DEF Init, TypeOK, Control, Exists
<1>2. IterationsInOrder /\ ReportedIterationIsClosed
  BY DEF Init, IterationsInOrder, ReportedIterationIsClosed, Exists
<1>3. \A w \in Workers : WorkerInv(w)
  BY DEF Init, WorkerInv, Planning, Reading, Working
<1> QED BY <1>1, <1>2, <1>3 DEF IInv

\* Every step keeps the invariant.
LEMMA Inductive == IInv /\ [Next]_vars => IInv'
<1> SUFFICES ASSUME IInv, [Next]_vars PROVE IInv'
  OBVIOUS
<1>1. CASE UNCHANGED vars
  BY <1>1 DEF vars, IInv, TypeOK, IterationsInOrder, ReportedIterationIsClosed, WorkerInv,
              IsClosed, IsOpen, Exists
<1>2. CASE Tick
  BY <1>2, TickStep
<1>3. ASSUME NEW w \in Workers, Step(w)
      PROVE  IInv'
  BY <1>3, GetJobStep, CreateNewJobStep, AdvanceJobIterationStep, PickInNewIterationStep,
     SaveAcknowledgedStep, SaveRefusedStep, ExecutorReturnsStep DEF Step
<1>4. ASSUME NEW w \in Workers, Handle(w)
      PROVE  IInv'
  BY <1>4, AddTaskStep, CompleteTaskStep, FailTaskByHandleStep, SkipTaskBranchStep,
     SetNextStartAtStep DEF Handle
<1>5. ASSUME NEW w \in Workers, ReleasedByDeadline(w) \/ Fault(w)
      PROVE  IInv'
  BY <1>5, ReleasedByDeadlineStep, SaveAnswerLostStep, SaveGivenUpStep, CrashStep DEF Fault
<1> QED BY <1>1, <1>2, <1>3, <1>4, <1>5 DEF Next

\* The inductive invariant holds of every behaviour.
THEOREM Invariance == Spec => []IInv
<1> QED BY Initial, Inductive, PTL DEF Spec

\* Type correctness: whatever merges, rollbacks and cascades do to a job, every copy of it
\* stays a job.
THEOREM TypeCorrect == Spec => []TypeOK
<1>1. IInv => TypeOK
  BY DEF IInv
<1> QED BY <1>1, Invariance, PTL

\* At most one iteration of a job is open, however many workers race to open the next one and
\* whatever the store does to their writes (start_new_job_iteration, save_job_state).
THEOREM IterationsAreInOrder == Spec => []IterationsInOrder
<1>1. IInv => IterationsInOrder
  BY DEF IInv
<1> QED BY <1>1, Invariance, PTL

\* Only a closed iteration is reported finished (report_finished_iteration).
THEOREM ReportsAreTrue == Spec => []ReportedIterationIsClosed
<1>1. IInv => ReportedIterationIsClosed
  BY DEF IInv
<1> QED BY <1>1, Invariance, PTL

\* What any step may do to the store: nothing, let time pass, or one allowed write.
LEMMA StoreEffect ==
    ASSUME IInv, [Next]_vars
    PROVE  \/ objects' = objects
           \/ objects' = [i \in Iterations |-> IF Exists(i) THEN Elapse(objects[i]) ELSE Nothing]
           \/ \E w \in Workers : pc[w] \in Saving /\ IsSaveAllowed(w) /\ Store(w)
<1>1. CASE UNCHANGED vars
  BY <1>1 DEF vars
<1>2. CASE Tick
  BY <1>2 DEF Tick
<1>3. ASSUME NEW w \in Workers, Step(w)
      PROVE  objects' = objects \/ (pc[w] \in Saving /\ IsSaveAllowed(w) /\ Store(w))
  BY <1>3 DEF Step, GetJob, CreateNewJob, AdvanceJobIteration, PickInNewIteration,
              SaveAcknowledged, SaveRefused, ExecutorReturns
<1>4. ASSUME NEW w \in Workers, Handle(w)
      PROVE  objects' = objects
  BY <1>4 DEF Handle, AddTask, CompleteTask, FailTaskByHandle, SkipTaskBranch, SetNextStartAt, Change
<1>5. ASSUME NEW w \in Workers, ReleasedByDeadline(w) \/ Fault(w)
      PROVE  objects' = objects \/ (pc[w] \in Saving /\ IsSaveAllowed(w) /\ Store(w))
  BY <1>5 DEF Fault, ReleasedByDeadline, SaveAnswerLost, SaveGivenUp, Crash
<1> QED BY <1>1, <1>2, <1>3, <1>4, <1>5 DEF Next

\* A closed iteration is never written again (merge_with_picked_task,
\* merge_with_processed_task, save_settled_job_iteration).
THEOREM ClosedIterationsAreFinal == Spec => ClosedIterationIsFinal
<1>1. IInv /\ [Next]_vars =>
        [\A i \in Iterations : IsClosed(i) => objects'[i] \in {objects[i], Elapse(objects[i])}]_objects
  <2> SUFFICES ASSUME IInv, [Next]_vars, NEW i \in Iterations, IsClosed(i)
               PROVE  objects'[i] \in {objects[i], Elapse(objects[i])}
    OBVIOUS
  <2>1. CASE objects' = [k \in Iterations |-> IF Exists(k) THEN Elapse(objects[k]) ELSE Nothing]
    BY <2>1 DEF IsClosed
  <2>2. CASE \E w \in Workers : pc[w] \in Saving /\ IsSaveAllowed(w) /\ Store(w)
    BY <2>2, WriteEffect
  <2> QED BY <2>1, <2>2, StoreEffect
<1> QED BY <1>1, Invariance, PTL DEF Spec, ClosedIterationIsFinal

\* Neither a merge nor a rollback takes a stored task away (merge_with_processed_task,
\* fail_task).
THEOREM TasksStayStored == Spec => NoTaskVanishes
<1>1. IInv /\ [Next]_vars =>
        [\A i \in Iterations : Exists(i) =>
            DOMAIN objects[i].tasks \subseteq DOMAIN objects'[i].tasks]_objects
  <2> SUFFICES ASSUME IInv, [Next]_vars, NEW i \in Iterations, Exists(i)
               PROVE  DOMAIN objects[i].tasks \subseteq DOMAIN objects'[i].tasks
    OBVIOUS
  <2>1. CASE objects' = [k \in Iterations |-> IF Exists(k) THEN Elapse(objects[k]) ELSE Nothing]
    <3>1. IsJob(objects[i]) /\ objects'[i] = Elapse(objects[i])
      BY <2>1 DEF IInv, TypeOK
    <3> QED BY <3>1, ElapseType
  <2>2. CASE \E w \in Workers : pc[w] \in Saving /\ IsSaveAllowed(w) /\ Store(w)
    BY <2>2, WriteEffect
  <2> QED BY <2>1, <2>2, StoreEffect
<1> QED BY <1>1, Invariance, PTL DEF Spec, NoTaskVanishes

-----------------------------------------------------------------------------
(* What closing, planning and opening promise.  A second invariant, on top of the first: what  *)
(* a worker carries towards the store is fit to be stored there.                               *)

\* The next iteration may start (find_iteration_status).
IsDue(job) == job.next = 0 \/ (job.next = Unset /\ job.due = 0)

\* Task t of job was added by w and nobody has started it (is_created_now).
IsPlannedBy(w, job, t) ==
    t \in DOMAIN job.tasks /\ job.tasks[t].creator = w /\ job.tasks[t].owner = NoWorker

\* A copy that is closed holds no work; one that was read closed is what is stored; a new
\* iteration is on its way only when due; and what an execution added is in the copy that
\* carries its result, as its own or because it was stored before the answer was lost.
CopyInv(w) ==
    /\ mine[w] # Nothing => HoldsNoWork(mine[w])
    /\ pc[w] \in Reading => (IsProcessed(mine[w]) => mine[w] = objects[mine[w].iter])
    /\ pc[w] = "SaveNewIteration" => IsDue(objects[mine[w].iter - 1])
    /\ pc[w] = "Execute" => \A t \in created[w] : IsPlannedBy(w, mine[w], t)
    /\ pc[w] = "SaveResult" => \A t \in created[w] :
            \/ IsPlannedBy(w, mine[w], t)
            \/ /\ Exists(mine[w].iter)
               /\ t \in DOMAIN mine[w].tasks \cap DOMAIN objects[mine[w].iter].tasks

CarriedInv ==
    /\ \A i \in Iterations : Exists(i) => HoldsNoWork(objects[i])
    /\ \A w \in Workers : CopyInv(w)

\* What the store may do while a worker does nothing: a closed iteration stays as it is and
\* no task goes away.
LEMMA CopyKept ==
    ASSUME IInv, CarriedInv, NEW v \in Workers,
           pc'[v] = pc[v], mine'[v] = mine[v], created'[v] = created[v],
           \A i \in Iterations : IsClosed(i) => objects'[i] = objects[i],
           \A i \in Iterations : Exists(i) => /\ Exists(i)'
                                              /\ DOMAIN objects[i].tasks \subseteq DOMAIN objects'[i].tasks
    PROVE  CopyInv(v)'
<1>1. CopyInv(v) /\ WorkerInv(v)
  BY DEF IInv, CarriedInv
<1>2. pc[v] \in Reading \cup Planning \cup Working => mine[v].iter \in Iterations
  BY <1>1, JobIsSomething DEF WorkerInv
<1>3. pc[v] \in Reading => (IsProcessed(mine[v]) => mine[v] = objects'[mine[v].iter])
  BY <1>1, <1>2 DEF CopyInv, WorkerInv
<1>4. pc[v] = "SaveNewIteration" => IsDue(objects'[mine[v].iter - 1])
  <2> SUFFICES ASSUME pc[v] = "SaveNewIteration"
               PROVE  IsDue(objects'[mine[v].iter - 1])
    OBVIOUS
  <2>1. mine[v].iter - 1 \in Iterations /\ IsClosed(mine[v].iter - 1)
    BY <1>1, <1>2, LimitsAssumption DEF WorkerInv, Planning, Iterations
  <2>2. IsDue(objects[mine[v].iter - 1])
    BY <1>1 DEF CopyInv
  <2> QED BY <2>1, <2>2
<1>5. pc[v] = "SaveResult" => \A t \in created[v] :
            \/ IsPlannedBy(v, mine[v], t)
            \/ /\ Exists(mine[v].iter)'
               /\ t \in DOMAIN mine[v].tasks \cap DOMAIN objects'[mine[v].iter].tasks
  BY <1>1, <1>2 DEF CopyInv, Working, Exists
<1> QED BY <1>1, <1>3, <1>4, <1>5 DEF CopyInv, IsPlannedBy, Exists

\* A step that changes nothing but what one worker holds keeps the invariant if it keeps it
\* for that worker.
LEMMA OwnCopyStep ==
    ASSUME IInv, CarriedInv, NEW w \in Workers, objects' = objects,
           \A v \in Workers \ {w} : pc'[v] = pc[v] /\ mine'[v] = mine[v] /\ created'[v] = created[v],
           CopyInv(w)'
    PROVE  CarriedInv'
<1>1. \A i \in Iterations : Exists(i)' <=> Exists(i)
  BY DEF Exists
<1>2. ASSUME NEW v \in Workers \ {w}
      PROVE  CopyInv(v)'
  BY <1>1, CopyKept
<1>3. \A i \in Iterations : Exists(i)' => HoldsNoWork(objects'[i])
  BY <1>1 DEF CarriedInv
<1> QED BY <1>2, <1>3 DEF CarriedInv

\* A worker that holds a copy of an iteration it has not started to change.
LEMMA HeldCopy ==
    ASSUME TypeOK, NEW w \in Workers, NEW place, NEW job, NEW v, NEW t, Hold(w, place, job, v, t)
    PROVE  /\ pc'[w] = place /\ mine'[w] = job /\ created'[w] = {}
           /\ \A u \in Workers \ {w} : pc'[u] = pc[u] /\ mine'[u] = mine[u] /\ created'[u] = created[u]
BY DEF Hold, TypeOK

\* A worker that drops what it holds, or dies, carries nothing.
LEMMA RestCarries ==
    ASSUME IInv, CarriedInv, NEW w \in Workers, NEW place \in {"Idle", "Dead"},
           Hold(w, place, Nothing, "New", NoTask), objects' = objects
    PROVE  CarriedInv'
<1>1. /\ pc'[w] = place /\ mine'[w] = Nothing
      /\ \A u \in Workers \ {w} : pc'[u] = pc[u] /\ mine'[u] = mine[u] /\ created'[u] = created[u]
  BY HeldCopy DEF IInv
<1>2. CopyInv(w)'
  BY <1>1 DEF CopyInv, Reading
<1> QED BY <1>1, <1>2, OwnCopyStep

\* What is read is what is stored.
LEMMA ReadCarries ==
    ASSUME IInv, CarriedInv, NEW w \in Workers, NEW i \in Iterations, IsReadable(i), NEW place \in Reading,
           Hold(w, place, objects[i], "Current", NoTask), objects' = objects
    PROVE  CarriedInv'
<1>1. /\ pc'[w] = place /\ mine'[w] = objects[i]
      /\ \A u \in Workers \ {w} : pc'[u] = pc[u] /\ mine'[u] = mine[u] /\ created'[u] = created[u]
  BY HeldCopy DEF IInv
<1>2. Exists(i) /\ objects[i].iter = i /\ HoldsNoWork(objects[i])
  BY DEF IInv, TypeOK, CarriedInv, IsReadable, IsNewest, IsClosed
<1>3. CopyInv(w)'
  BY <1>1, <1>2 DEF CopyInv, Reading
<1> QED BY <1>1, <1>3, OwnCopyStep

\* An open copy promises nothing of what a closed one holds.
LEMMA PlanCarries ==
    ASSUME IInv, CarriedInv, NEW w \in Workers, NEW i \in Iterations, NEW place \in Planning,
           place = "SaveNewIteration" => IsDue(objects[i - 1]),
           Hold(w, place, NewJob(w, i), "New", NoTask), objects' = objects
    PROVE  CarriedInv'
<1>1. /\ pc'[w] = place /\ mine'[w] = NewJob(w, i)
      /\ \A u \in Workers \ {w} : pc'[u] = pc[u] /\ mine'[u] = mine[u] /\ created'[u] = created[u]
  BY HeldCopy DEF IInv
<1>2. NewJob(w, i).iter = i /\ ~IsProcessed(NewJob(w, i))
  BY NewJobType DEF Iterations
<1>3. CopyInv(w)'
  BY <1>1, <1>2 DEF CopyInv, Reading, Planning, HoldsNoWork
<1> QED BY <1>1, <1>3, OwnCopyStep

\* A pick closes only an iteration without work.
LEMMA PickCarries ==
    ASSUME IInv, IInv', CarriedInv, NEW w \in Workers, pc[w] \in Reading, PickTask(w), objects' = objects
    PROVE  CarriedInv'
<1>1. IsJob(mine[w])
  BY DEF IInv, WorkerInv
<1>2. PICK pickup \in Pickups(mine[w]) :
        \/ /\ pickup.kind = "Ready"
           /\ Hold(w, "SaveStart", StartTask(pickup.job, pickup.task, w), version[w], pickup.task)
        \/ /\ pickup.kind = "IterationSettled"
           /\ Hold(w, "SaveSettled", pickup.job, version[w], NoTask)
        \/ Rest(w)
  BY DEF PickTask
<1>3. CASE Hold(w, "SaveStart", StartTask(pickup.job, pickup.task, w), version[w], pickup.task)
  <2>1. /\ pc'[w] = "SaveStart"
        /\ \A u \in Workers \ {w} : pc'[u] = pc[u] /\ mine'[u] = mine[u] /\ created'[u] = created[u]
    BY <1>3, HeldCopy DEF IInv
  <2>2. ~IsProcessed(mine'[w])
    BY <2>1 DEF IInv, WorkerInv
  <2>3. CopyInv(w)'
    BY <2>1, <2>2 DEF CopyInv, Reading, HoldsNoWork
  <2> QED BY <2>1, <2>3, OwnCopyStep
<1>4. CASE pickup.kind = "IterationSettled" /\ Hold(w, "SaveSettled", pickup.job, version[w], NoTask)
  <2>1. /\ pc'[w] = "SaveSettled" /\ mine'[w] = pickup.job
        /\ \A u \in Workers \ {w} : pc'[u] = pc[u] /\ mine'[u] = mine[u] /\ created'[u] = created[u]
    BY <1>4, HeldCopy DEF IInv
  <2>2. HoldsNoWork(pickup.job)
    BY <1>1, <1>4, PickupHoldsNoWork
  <2>3. CopyInv(w)'
    BY <2>1, <2>2 DEF CopyInv, Reading
  <2> QED BY <2>1, <2>3, OwnCopyStep
<1>5. CASE Rest(w)
  BY <1>5, RestCarries DEF Rest
<1> QED BY <1>2, <1>3, <1>4, <1>5

\* The next iteration is planned from the closed iteration as it is stored, so it is due.
LEMMA AdvanceCarries ==
    ASSUME IInv, IInv', CarriedInv, NEW w \in Workers, AdvanceJobIteration(w)
    PROVE  CarriedInv'
<1>1. pc[w] \in Reading /\ objects' = objects /\ IsJob(mine[w]) /\ CopyInv(w)
  BY DEF AdvanceJobIteration, IInv, WorkerInv, Reading, CarriedInv
<1>2. CASE PickTask(w)
  BY <1>1, <1>2, PickCarries
<1>3. CASE /\ IterationStatus(mine[w]) = "Ready"
           /\ Hold(w, "SaveNewIteration", NewJob(w, mine[w].iter + 1), "New", NoTask)
  <2>1. IsProcessed(mine[w]) /\ ~(mine[w].iter >= MaxIterations) /\ IsDue(mine[w])
    BY <1>3 DEF IterationStatus, IsDue, Has_Come
  <2> DEFINE i == mine[w].iter + 1
  <2>2. i \in Iterations /\ i - 1 = mine[w].iter
    BY <1>1, <2>1, LimitsAssumption DEF IsJob, Iterations
  <2>3. IsDue(objects[i - 1])
    BY <1>1, <2>1, <2>2 DEF CopyInv
  <2>4. Hold(w, "SaveNewIteration", NewJob(w, i), "New", NoTask)
    BY <1>3
  <2> HIDE DEF i
  <2> QED BY <1>1, <2>2, <2>3, <2>4, PlanCarries DEF Planning
<1>4. CASE Rest(w)
  BY <1>1, <1>4, RestCarries DEF Rest
<1> QED BY <1>2, <1>3, <1>4 DEF AdvanceJobIteration

\* What is written was fit to be stored, and disturbs nobody who only waits.
LEMMA WriteCarries ==
    ASSUME IInv, CarriedInv, NEW w \in Workers, pc[w] \in Saving, IsSaveAllowed(w), Store(w)
    PROVE  /\ IsJob(mine[w]) /\ objects'[mine[w].iter] = mine[w]
           /\ \A i \in Iterations : Exists(i)' => HoldsNoWork(objects'[i])
           /\ \A v \in Workers : pc'[v] = pc[v] /\ mine'[v] = mine[v] /\ created'[v] = created[v]
                                 => CopyInv(v)'
<1>1. /\ IsJob(mine[w]) /\ objects'[mine[w].iter] = mine[w]
      /\ \A i \in Iterations \ {mine[w].iter} : objects'[i] = objects[i]
      /\ \A i \in Iterations : IsClosed(i) => objects'[i] = objects[i]
      /\ \A i \in Iterations : Exists(i) => DOMAIN objects[i].tasks \subseteq DOMAIN objects'[i].tasks
  BY WriteEffect
<1>2. mine[w] # Nothing /\ HoldsNoWork(mine[w])
  BY <1>1, JobIsSomething DEF CarriedInv, CopyInv
<1>3. \A i \in Iterations : Exists(i)' => HoldsNoWork(objects'[i])
  BY <1>1, <1>2 DEF CarriedInv, Exists
<1>4. \A i \in Iterations : Exists(i) => Exists(i)'
  BY <1>1, <1>2 DEF Exists
<1>5. ASSUME NEW v \in Workers, pc'[v] = pc[v], mine'[v] = mine[v], created'[v] = created[v]
      PROVE  CopyInv(v)'
  BY <1>1, <1>4, <1>5, CopyKept
<1> QED BY <1>1, <1>3, <1>5

\* A worker whose write is acknowledged goes on with what is stored.
LEMMA SaveAcknowledgedCarries ==
    ASSUME IInv, CarriedInv, NEW w \in Workers, SaveAcknowledged(w)
    PROVE  CarriedInv'
<1> DEFINE place == AfterSave(w)
<1>1. place \in {"Advance", "Pick", "Execute", "Idle"}
  BY DEF AfterSave
<1> HIDE DEF place
<1>2. /\ pc'[w] = place /\ mine'[w] = (IF place = "Idle" THEN Nothing ELSE mine[w]) /\ created'[w] = {}
      /\ \A v \in Workers \ {w} : pc'[v] = pc[v] /\ mine'[v] = mine[v] /\ created'[v] = created[v]
  BY DEF SaveAcknowledged, IInv, TypeOK, place
<1>3. /\ IsJob(mine[w]) /\ objects'[mine[w].iter] = mine[w]
      /\ \A i \in Iterations : Exists(i)' => HoldsNoWork(objects'[i])
      /\ \A v \in Workers \ {w} : CopyInv(v)'
  BY <1>2, WriteCarries DEF SaveAcknowledged
<1>4. mine'[w] # Nothing => HoldsNoWork(mine'[w]) /\ mine'[w] = objects'[mine'[w].iter]
  BY <1>2, <1>3 DEF CarriedInv, CopyInv
<1>5. place # "Idle" => mine'[w] # Nothing
  BY <1>2, <1>3, JobIsSomething
<1>6. CopyInv(w)'
  BY <1>1, <1>2, <1>4, <1>5 DEF CopyInv, Reading
<1> QED BY <1>3, <1>6 DEF CarriedInv

\* A lost answer leaves the worker with the copy it wrote.
LEMMA SaveAnswerLostCarries ==
    ASSUME IInv, CarriedInv, NEW w \in Workers, SaveAnswerLost(w)
    PROVE  CarriedInv'
<1>1. /\ \A i \in Iterations : Exists(i)' => HoldsNoWork(objects'[i])
      /\ \A v \in Workers : CopyInv(v)'
  BY WriteCarries DEF SaveAnswerLost
<1> QED BY <1>1 DEF CarriedInv

\* A write that was given up may have been applied.
LEMMA SaveGivenUpCarries ==
    ASSUME IInv, CarriedInv, NEW w \in Workers, SaveGivenUp(w)
    PROVE  CarriedInv'
<1>1. /\ pc'[w] = "Idle" /\ mine'[w] = Nothing
      /\ \A v \in Workers \ {w} : pc'[v] = pc[v] /\ mine'[v] = mine[v] /\ created'[v] = created[v]
  BY DEF SaveGivenUp, IInv, TypeOK
<1>2. CopyInv(w)'
  BY <1>1 DEF CopyInv, Reading
<1>3. CASE UNCHANGED objects
  BY <1>1, <1>2, <1>3, OwnCopyStep
<1>4. CASE IsSaveAllowed(w) /\ Store(w)
  <2>1. /\ \A i \in Iterations : Exists(i)' => HoldsNoWork(objects'[i])
        /\ \A v \in Workers \ {w} : CopyInv(v)'
    BY <1>1, <1>4, WriteCarries DEF SaveGivenUp
  <2> QED BY <1>2, <2>1 DEF CarriedInv
<1> QED BY <1>3, <1>4 DEF SaveGivenUp

\* A merge keeps what the execution added, unless the store has it already.
LEMMA SaveRefusedCarries ==
    ASSUME IInv, IInv', CarriedInv, NEW w \in Workers, SaveRefused(w)
    PROVE  CarriedInv'
<1> DEFINE Merge(i) == IF pc[w] = "SaveStart"
                       THEN MergePickedTask(objects[i], mine[w], w, task[w])
                       ELSE MergeProcessedTask(objects[i], mine[w], w, task[w])
<1>1. PICK i \in Iterations :
        /\ IsReadable(i)
        /\ \/ Hold(w, "Advance", objects[i], "Current", NoTask)
           \/ Hold(w, "Pick", objects[i], "Current", NoTask)
           \/ Rest(w)
           \/ /\ pc[w] \in {"SaveStart", "SaveResult"} /\ Merge(i).answer = "Merged"
              /\ mine' = [mine EXCEPT ![w] = Merge(i).job]
              /\ UNCHANGED <<pc, task, created>>
  BY DEF SaveRefused
<1>2. objects' = objects
  BY DEF SaveRefused
<1>3. CASE Hold(w, "Advance", objects[i], "Current", NoTask) \/ Hold(w, "Pick", objects[i], "Current", NoTask)
  BY <1>1, <1>2, <1>3, ReadCarries DEF Reading
<1>4. CASE Rest(w)
  BY <1>2, <1>4, RestCarries DEF Rest
<1>5. CASE /\ pc[w] \in {"SaveStart", "SaveResult"} /\ Merge(i).answer = "Merged"
           /\ mine' = [mine EXCEPT ![w] = Merge(i).job]
           /\ UNCHANGED <<pc, task, created>>
  <2> DEFINE merged == Merge(i).job
  <2>1. /\ CopyInv(w) /\ IsJob(mine[w]) /\ Exists(i) /\ IsJob(objects[i]) /\ objects[i].iter = i
    BY <1>1, <1>5 DEF IInv, TypeOK, WorkerInv, Working, CarriedInv, IsReadable, IsNewest, IsClosed
  <2>2. /\ mine'[w] = merged /\ pc'[w] = pc[w] /\ created'[w] = created[w]
        /\ \A u \in Workers \ {w} : pc'[u] = pc[u] /\ mine'[u] = mine[u] /\ created'[u] = created[u]
    BY <1>5 DEF IInv, TypeOK
  <2>3. CASE pc[w] = "SaveStart"
    <3>1. ~IsProcessed(mine'[w])
      BY <2>2, <2>3 DEF IInv, WorkerInv
    <3>2. CopyInv(w)'
      BY <2>2, <2>3, <3>1 DEF CopyInv, Reading, HoldsNoWork
    <3> QED BY <1>2, <2>2, <3>2, OwnCopyStep
  <2>4. CASE pc[w] = "SaveResult"
    <3>1. MergeProcessedTask(objects[i], mine[w], w, task[w]).answer = "Merged"
          /\ merged = MergeProcessedTask(objects[i], mine[w], w, task[w]).job
      BY <1>5, <2>4
    <3>2. /\ Extends(merged, objects[i]) /\ objects[i].iter = mine[w].iter /\ HoldsNoWork(merged)
          /\ \A u \in CarriedOver(objects[i], mine[w], w) :
                /\ u \in DOMAIN merged.tasks
                /\ merged.tasks[u].owner = mine[w].tasks[u].owner
                /\ merged.tasks[u].creator = mine[w].tasks[u].creator
      BY <2>1, <3>1, MergeProcessedTaskType, MergeProcessedTaskEffect
    <3> HIDE DEF merged, Merge
    <3>3. merged.iter = i /\ mine[w].iter = i /\ DOMAIN objects[i].tasks \subseteq DOMAIN merged.tasks
      BY <2>1, <3>2 DEF Extends
    <3>4. ASSUME NEW t \in created[w]
          PROVE  \/ IsPlannedBy(w, merged, t)
                 \/ t \in DOMAIN merged.tasks \cap DOMAIN objects[i].tasks
      <4>1. CASE t \in DOMAIN objects[i].tasks
        BY <3>3, <4>1
      <4>2. CASE t \notin DOMAIN objects[i].tasks
        <5>1. IsPlannedBy(w, mine[w], t)
          BY <2>1, <2>4, <3>3, <4>2 DEF CopyInv
        <5>2. t \in CarriedOver(objects[i], mine[w], w)
          BY <4>2, <5>1 DEF CarriedOver, IsPlannedBy
        <5> QED BY <3>2, <5>1, <5>2 DEF IsPlannedBy
      <4> QED BY <4>1, <4>2
    <3>5. CopyInv(w)'
      BY <1>2, <2>1, <2>2, <2>4, <3>2, <3>3, <3>4 DEF CopyInv, Reading, Exists, IsPlannedBy
    <3> QED BY <1>2, <2>2, <3>5, OwnCopyStep
  <2> QED BY <1>5, <2>3, <2>4
<1> QED BY <1>1, <1>3, <1>4, <1>5

\* An executor may do what it likes to the tasks of its copy, as long as it gives none away.
LEMMA ExecuteCarries ==
    ASSUME IInv, IInv', CarriedInv, NEW w \in Workers, pc[w] = "Execute", NEW job, NEW added,
           \A t \in added : IsPlannedBy(w, job, t),
           pc' = pc, mine' = [mine EXCEPT ![w] = job], created' = [created EXCEPT ![w] = added],
           objects' = objects
    PROVE  CarriedInv'
<1>1. /\ pc'[w] = "Execute" /\ mine'[w] = job /\ created'[w] = added
      /\ \A u \in Workers \ {w} : pc'[u] = pc[u] /\ mine'[u] = mine[u] /\ created'[u] = created[u]
  BY DEF IInv, TypeOK
<1>2. ~IsProcessed(mine'[w])
  BY <1>1 DEF IInv, WorkerInv
<1>3. CopyInv(w)'
  BY <1>1, <1>2 DEF CopyInv, Reading, HoldsNoWork
<1> QED BY <1>1, <1>3, OwnCopyStep

\* Replacing tasks by ones of the same workers keeps what an execution added its own.
LEMMA SameHandsPlanned ==
    ASSUME NEW w, NEW job, NEW next, SameHands(next, job), NEW t, IsPlannedBy(w, job, t),
           t \in DOMAIN next.tasks
    PROVE  IsPlannedBy(w, next, t)
BY DEF SameHands, IsPlannedBy

\* A task added through the handle is the worker's own.
LEMMA AddTaskCarries ==
    ASSUME IInv, IInv', CarriedInv, NEW w \in Workers, AddTask(w)
    PROVE  CarriedInv'
<1>1. PICK t \in TaskIds \ InitialTasks :
        /\ IsFresh(t, mine[w].iter)
        /\ mine' = [mine EXCEPT ![w] = [mine[w] EXCEPT !.tasks = WithTask(mine[w].tasks, t, NewTask(t, w))]]
        /\ created' = [created EXCEPT ![w] = created[w] \cup {t}]
        /\ UNCHANGED <<objects, pc>>
  BY DEF AddTask, Change
<1> DEFINE tasks == WithTask(mine[w].tasks, t, NewTask(t, w))
           job == [mine[w] EXCEPT !.tasks = tasks]
<1>2. pc[w] = "Execute" /\ IsJob(mine[w]) /\ \A u \in created[w] : IsPlannedBy(w, mine[w], u)
  BY Executing DEF AddTask, CarriedInv, CopyInv
<1>3. job.tasks = tasks
  <2> HIDE DEF tasks
  <2> QED BY <1>2 DEF IsJob
<1>4. DOMAIN tasks = DOMAIN mine[w].tasks \cup {t} /\ t \notin DOMAIN mine[w].tasks
  BY <1>1 DEF WithTask, IsFresh
<1>5. /\ tasks[t].creator = w /\ tasks[t].owner = NoWorker
      /\ \A u \in DOMAIN mine[w].tasks : tasks[u] = mine[w].tasks[u]
  BY <1>4 DEF WithTask, NewTask
<1> HIDE DEF tasks, job
<1>6. \A u \in created[w] \cup {t} : IsPlannedBy(w, job, u)
  BY <1>2, <1>3, <1>4, <1>5 DEF IsPlannedBy
<1>7. mine' = [mine EXCEPT ![w] = job]
  BY <1>1 DEF job, tasks
<1> QED BY <1>1, <1>2, <1>6, <1>7, ExecuteCarries

\* Resolving a task of the copy leaves what the execution added with its worker.
LEMMA EndTaskCarries ==
    ASSUME IInv, IInv', CarriedInv, NEW w \in Workers, pc[w] = "Execute", NEW t, NEW status \in TaskStatus,
           Change(w, [mine[w] EXCEPT !.tasks[t] = Ended(@, status)]), UNCHANGED created
    PROVE  CarriedInv'
<1> DEFINE job == [mine[w] EXCEPT !.tasks[t] = Ended(@, status)]
<1>1. IsJob(mine[w]) /\ \A u \in created[w] : IsPlannedBy(w, mine[w], u)
  BY Executing DEF CarriedInv, CopyInv
<1>2. SameHands(job, mine[w]) /\ DOMAIN mine[w].tasks \subseteq DOMAIN job.tasks
  BY <1>1, EndingKeepsHands, EndTaskType DEF Extends
<1>3. /\ mine' = [mine EXCEPT ![w] = job] /\ objects' = objects /\ pc' = pc
      /\ created' = [created EXCEPT ![w] = created[w]]
  BY DEF Change, IInv, TypeOK
<1> HIDE DEF job
<1>4. \A u \in created[w] : IsPlannedBy(w, job, u)
  BY <1>1, <1>2, SameHandsPlanned DEF IsPlannedBy
<1> QED BY <1>3, <1>4, ExecuteCarries

\* So does failing one, and the rollback forgets what it drops.
LEMMA FailTaskCarries ==
    ASSUME IInv, IInv', CarriedInv, NEW w \in Workers, FailTaskByHandle(w)
    PROVE  CarriedInv'
<1>1. PICK t \in DOMAIN mine[w].tasks, retry \in {"WhileBudgetLasts", "Never"} :
        LET rolledBack == IF t = task[w] THEN created[w] ELSE {}
        IN /\ Change(w, FailTask(mine[w], t, retry, rolledBack))
           /\ created' = [created EXCEPT ![w] = created[w] \ rolledBack]
  BY DEF FailTaskByHandle
<1> DEFINE rolledBack == IF t = task[w] THEN created[w] ELSE {}
           job == FailTask(mine[w], t, retry, rolledBack)
           added == created[w] \ rolledBack
<1>2. pc[w] = "Execute" /\ IsJob(mine[w]) /\ \A u \in created[w] : IsPlannedBy(w, mine[w], u)
  BY Executing DEF FailTaskByHandle, CarriedInv, CopyInv
<1>3. retry \in {"WhileBudgetLasts", "Never"}
  BY <1>1
<1>4. SameHands(job, mine[w]) /\ DOMAIN job.tasks = DOMAIN mine[w].tasks \ rolledBack
  <2> HIDE DEF rolledBack
  <2>1. SameHands(job, mine[w])
    BY ONLY <1>2, FailingKeepsHands
  <2>2. KeepsBut(rolledBack, job, mine[w])
    BY <1>2, <1>3, FailTaskType
  <2> QED BY <2>1, <2>2 DEF KeepsBut
<1>5. /\ mine' = [mine EXCEPT ![w] = job] /\ objects' = objects /\ pc' = pc
      /\ created' = [created EXCEPT ![w] = added]
  BY <1>1 DEF Change
<1> HIDE DEF job, rolledBack
<1>6. \A u \in added : IsPlannedBy(w, job, u)
  BY <1>2, <1>4, SameHandsPlanned DEF IsPlannedBy
<1> HIDE DEF added
<1> QED BY <1>2, <1>5, <1>6, ExecuteCarries

\* Moving the start of the next iteration touches no task.
LEMMA SetNextStartAtCarries ==
    ASSUME IInv, IInv', CarriedInv, NEW w \in Workers, SetNextStartAt(w)
    PROVE  CarriedInv'
<1>1. PICK delay \in StartDelays : Change(w, [mine[w] EXCEPT !.next = delay])
  BY DEF SetNextStartAt
<1> DEFINE job == [mine[w] EXCEPT !.next = delay]
<1>2. pc[w] = "Execute" /\ IsJob(mine[w]) /\ \A u \in created[w] : IsPlannedBy(w, mine[w], u)
  BY Executing DEF SetNextStartAt, CarriedInv, CopyInv
<1>3. job.tasks = mine[w].tasks
  BY <1>2 DEF IsJob
<1>4. /\ mine' = [mine EXCEPT ![w] = job] /\ objects' = objects /\ pc' = pc
      /\ created' = [created EXCEPT ![w] = created[w]]
  BY <1>1 DEF Change, SetNextStartAt, IInv, TypeOK
<1> HIDE DEF job
<1>5. \A u \in created[w] : IsPlannedBy(w, job, u)
  BY <1>2, <1>3 DEF IsPlannedBy
<1> QED BY <1>2, <1>4, <1>5, ExecuteCarries

\* The outcome of an executor closes only what holds no work, and carries what it added.
LEMMA ExecutorReturnsCarries ==
    ASSUME IInv, CarriedInv, NEW w \in Workers, ExecutorReturns(w)
    PROVE  CarriedInv'
<1>1. PICK outcome \in Outcomes :
        LET applied == AppliedOutcome(w, outcome)
        IN /\ mine' = [mine EXCEPT ![w] = TrySettleIteration(applied).job]
           /\ created' = [created EXCEPT ![w] = created[w] \cap DOMAIN applied.tasks]
  BY DEF ExecutorReturns
<1> DEFINE applied == AppliedOutcome(w, outcome)
           settled == TrySettleIteration(applied).job
<1>2. /\ pc[w] = "Execute" /\ IsJob(mine[w]) /\ ~IsProcessed(mine[w])
      /\ \A u \in created[w] : IsPlannedBy(w, mine[w], u)
  BY Executing DEF ExecutorReturns, CarriedInv, CopyInv
<1>3. IsJob(applied)
  BY <1>2, AppliedOutcomeType
<1>4. SameHands(applied, mine[w]) /\ ~IsProcessed(applied)
  <2>1. applied \in
        {[mine[w] EXCEPT !.tasks[task[w]] = Ended(@, "Completed")],
         [mine[w] EXCEPT !.tasks[task[w]] = Ended(@, "SkippedByExecutor")],
         FailTask(mine[w], task[w], "Never", created[w]), mine[w],
         FailTask(mine[w], task[w], "WhileBudgetLasts", created[w])}
    BY DEF AppliedOutcome
  <2>2. applied = mine[w] => SameHands(applied, mine[w])
    BY DEF SameHands
  <2>3. SameHands(applied, mine[w])
    <3>1. /\ SameHands([mine[w] EXCEPT !.tasks[task[w]] = Ended(@, "Completed")], mine[w])
          /\ SameHands([mine[w] EXCEPT !.tasks[task[w]] = Ended(@, "SkippedByExecutor")], mine[w])
      BY ONLY <1>2, EndingKeepsHands
    <3>2. /\ SameHands(FailTask(mine[w], task[w], "Never", created[w]), mine[w])
          /\ SameHands(FailTask(mine[w], task[w], "WhileBudgetLasts", created[w]), mine[w])
      BY ONLY <1>2, FailingKeepsHands
    <3> HIDE DEF applied
    <3> QED BY <2>1, <2>2, <3>1, <3>2
  <2>4. applied.status = mine[w].status
    <3>1. /\ [mine[w] EXCEPT !.tasks[task[w]] = Ended(@, "Completed")].status = mine[w].status
          /\ [mine[w] EXCEPT !.tasks[task[w]] = Ended(@, "SkippedByExecutor")].status = mine[w].status
      BY <1>2, EndTaskType DEF TaskStatus, Skipped
    <3>2. /\ FailTask(mine[w], task[w], "Never", created[w]).status = mine[w].status
          /\ FailTask(mine[w], task[w], "WhileBudgetLasts", created[w]).status = mine[w].status
      BY <1>2, FailTaskType DEF KeepsBut
    <3> HIDE DEF applied
    <3> QED BY <2>1, <3>1, <3>2
  <2> QED BY <1>2, <2>3, <2>4 DEF IsProcessed
<1>5. /\ pc'[w] = "SaveResult" /\ mine'[w] = settled /\ created'[w] = created[w] \cap DOMAIN applied.tasks
      /\ \A u \in Workers \ {w} : pc'[u] = pc[u] /\ mine'[u] = mine[u] /\ created'[u] = created[u]
      /\ objects' = objects
  BY <1>1 DEF ExecutorReturns, IInv, TypeOK
<1> HIDE DEF applied
<1>6. /\ HoldsNoWork(settled) /\ SameHands(settled, applied)
      /\ DOMAIN applied.tasks \subseteq DOMAIN settled.tasks
  BY <1>3, <1>4, SettledHoldsNoWork, SettlingKeepsHands, TrySettleIterationType DEF Extends
<1> HIDE DEF settled
<1>7. \A u \in created[w] \cap DOMAIN applied.tasks : IsPlannedBy(w, settled, u)
  BY <1>2, <1>4, <1>6, SameHandsPlanned
<1>8. CopyInv(w)'
  BY <1>5, <1>6, <1>7 DEF CopyInv, Reading, IsPlannedBy
<1> QED BY <1>5, <1>8, OwnCopyStep

\* Time closes nothing, and what is due stays due.
LEMMA TickCarries ==
    ASSUME IInv, CarriedInv, Tick
    PROVE  CarriedInv'
<1>1. ASSUME NEW job, IsJob(job)
      PROVE  /\ IsJob(Elapse(job)) /\ Elapse(job).iter = job.iter /\ DOMAIN Elapse(job).tasks = DOMAIN job.tasks
             /\ IsProcessed(Elapse(job)) <=> IsProcessed(job)
             /\ HoldsNoWork(job) => HoldsNoWork(Elapse(job))
             /\ IsDue(job) => IsDue(Elapse(job))
             /\ \A w \in Workers, t \in TaskIds : IsPlannedBy(w, job, t) => IsPlannedBy(w, Elapse(job), t)
  <2>1. /\ IsJob(Elapse(job)) /\ Elapse(job).iter = job.iter /\ DOMAIN Elapse(job).tasks = DOMAIN job.tasks
        /\ Elapse(job).status = job.status
    BY <1>1, ElapseType DEF Extends
  <2>2. Elapse(job).next = Closer(job.next) /\ Elapse(job).due = Closer(job.due)
    BY <1>1 DEF Elapse, IsJob
  <2>3. IsDue(job) => IsDue(Elapse(job))
    BY <2>2 DEF IsDue, Closer, Unset
  <2>4. \A t \in DOMAIN job.tasks : /\ Elapse(job).tasks[t].creator = job.tasks[t].creator
                                    /\ Elapse(job).tasks[t].owner = job.tasks[t].owner
    <3>1. Elapse(job).tasks = [t \in DOMAIN job.tasks |-> ElapsedTask(job.tasks[t])]
      BY <1>1 DEF Elapse, IsJob
    <3>2. \A t \in DOMAIN job.tasks : job.tasks[t] \in Task
      BY <1>1 DEF IsJob
    <3> QED BY <3>1, <3>2 DEF ElapsedTask, Task
  <2> QED BY <1>1, <2>1, <2>3, <2>4, ElapseHoldsNoWork DEF IsProcessed, IsPlannedBy
<1>2. /\ \A i \in Iterations : objects'[i] = IF Exists(i) THEN Elapse(objects[i]) ELSE Nothing
      /\ \A w \in Workers : mine'[w] = IF mine[w] # Nothing THEN Elapse(mine[w]) ELSE Nothing
      /\ pc' = pc /\ created' = created
  BY DEF Tick
<1>3. /\ \A i \in Iterations : Exists(i) => IsJob(objects[i])
      /\ \A w \in Workers : mine[w] # Nothing => IsJob(mine[w])
  BY DEF IInv, TypeOK
<1>4. \A i \in Iterations : Exists(i)' => Exists(i) /\ HoldsNoWork(objects'[i])
  BY <1>1, <1>2, <1>3 DEF Exists, CarriedInv
<1>5. ASSUME NEW w \in Workers
      PROVE  CopyInv(w)'
  <2>1. CopyInv(w) /\ WorkerInv(w) /\ created[w] \subseteq TaskIds
    BY DEF IInv, CarriedInv, TypeOK
  <2>2. CASE mine[w] = Nothing
    <3>1. pc[w] \notin Planning \cup Reading \cup Working
      BY <2>1, <2>2, JobIsSomething DEF WorkerInv
    <3> QED BY <1>2, <2>2, <3>1 DEF CopyInv, Planning, Reading, Working
  <2>3. CASE mine[w] # Nothing
    <3>1. /\ mine'[w] = Elapse(mine[w]) /\ IsJob(mine[w]) /\ mine'[w].iter = mine[w].iter
          /\ HoldsNoWork(mine'[w]) /\ mine[w].iter \in Iterations
          /\ DOMAIN mine'[w].tasks = DOMAIN mine[w].tasks
          /\ IsProcessed(mine'[w]) <=> IsProcessed(mine[w])
      BY <1>1, <1>2, <1>3, <2>1, <2>3, JobIsSomething DEF CopyInv
    <3>2. pc[w] \in Reading /\ IsProcessed(mine[w]) => mine'[w] = objects'[mine'[w].iter]
      <4> SUFFICES ASSUME pc[w] \in Reading, IsProcessed(mine[w])
                   PROVE  mine'[w] = objects'[mine[w].iter]
        BY <3>1
      <4>1. Exists(mine[w].iter) /\ mine[w] = objects[mine[w].iter]
        BY <2>1 DEF CopyInv, WorkerInv, IsClosed
      <4> QED BY <1>2, <3>1, <4>1
    <3>3. pc[w] = "SaveNewIteration" => IsDue(objects'[mine'[w].iter - 1])
      <4> SUFFICES ASSUME pc[w] = "SaveNewIteration"
                   PROVE  IsDue(objects'[mine[w].iter - 1])
        BY <3>1
      <4>1. /\ mine[w].iter - 1 \in Iterations /\ Exists(mine[w].iter - 1)
            /\ IsDue(objects[mine[w].iter - 1])
        BY <2>1, <3>1, LimitsAssumption DEF CopyInv, WorkerInv, IsClosed, Iterations
      <4> QED BY <1>1, <1>2, <1>3, <4>1
    <3>4. \A t \in created[w] : IsPlannedBy(w, mine[w], t) => IsPlannedBy(w, mine'[w], t)
      BY <1>1, <2>1, <3>1
    <3>5. Exists(mine[w].iter) => /\ Exists(mine[w].iter)'
                                  /\ DOMAIN objects'[mine[w].iter].tasks = DOMAIN objects[mine[w].iter].tasks
      <4> SUFFICES ASSUME Exists(mine[w].iter)
                   PROVE  /\ objects'[mine[w].iter] # Nothing
                          /\ DOMAIN objects'[mine[w].iter].tasks = DOMAIN objects[mine[w].iter].tasks
        BY <3>1 DEF Exists
      <4>1. objects'[mine[w].iter] = Elapse(objects[mine[w].iter]) /\ IsJob(objects[mine[w].iter])
        BY <1>2, <1>3, <3>1
      <4> QED BY <1>1, <4>1, JobIsSomething
    <3> QED BY <1>2, <2>1, <3>1, <3>2, <3>3, <3>4, <3>5 DEF CopyInv, Exists, IsPlannedBy
  <2> QED BY <2>2, <2>3
<1> QED BY <1>4, <1>5 DEF CarriedInv

\* Nothing is carried and nothing is stored at first.
LEMMA InitialCarries == Init => CarriedInv
BY DEF Init, CarriedInv, CopyInv, Exists, Reading

\* Every step keeps what is carried fit to be stored.
LEMMA InductiveCarries == IInv /\ IInv' /\ CarriedInv /\ [Next]_vars => CarriedInv'
<1> SUFFICES ASSUME IInv, IInv', CarriedInv, [Next]_vars PROVE CarriedInv'
  OBVIOUS
<1>1. CASE UNCHANGED vars
  BY <1>1 DEF vars, CarriedInv, CopyInv, Exists
<1>2. CASE Tick
  BY <1>2, TickCarries
<1>3. ASSUME NEW w \in Workers, GetJob(w)
      PROVE  CarriedInv'
  <2>1. PICK i \in Iterations : IsReadable(i) /\ Hold(w, "Advance", objects[i], "Current", NoTask)
    BY <1>3 DEF GetJob
  <2> QED BY <1>3, <2>1, ReadCarries DEF GetJob, Reading
<1>4. ASSUME NEW w \in Workers, CreateNewJob(w)
      PROVE  CarriedInv'
  <2>1. 1 \in Iterations
    BY LimitsAssumption DEF Iterations
  <2> QED BY <1>4, <2>1, PlanCarries DEF CreateNewJob, Planning
<1>5. ASSUME NEW w \in Workers, PickInNewIteration(w)
      PROVE  CarriedInv'
  BY <1>5, RestCarries, PickCarries DEF PickInNewIteration, Rest, Reading
<1>6. ASSUME NEW w \in Workers, Step(w)
      PROVE  CarriedInv'
  BY <1>3, <1>4, <1>5, <1>6, AdvanceCarries, SaveAcknowledgedCarries, SaveRefusedCarries,
     ExecutorReturnsCarries DEF Step
<1>7. ASSUME NEW w \in Workers, CompleteTask(w) \/ SkipTaskBranch(w)
      PROVE  CarriedInv'
  <2>1. CASE CompleteTask(w)
    <3>1. PICK t \in DOMAIN mine[w].tasks : Change(w, [mine[w] EXCEPT !.tasks[t] = Ended(@, "Completed")])
      BY <2>1 DEF CompleteTask
    <3> QED BY <2>1, <3>1, EndTaskCarries DEF CompleteTask, TaskStatus
  <2>2. CASE SkipTaskBranch(w)
    BY <2>2, EndTaskCarries DEF SkipTaskBranch, TaskStatus, Skipped
  <2> QED BY <1>7, <2>1, <2>2
<1>8. ASSUME NEW w \in Workers, Handle(w)
      PROVE  CarriedInv'
  BY <1>7, <1>8, AddTaskCarries, FailTaskCarries, SetNextStartAtCarries DEF Handle
<1>9. ASSUME NEW w \in Workers, ReleasedByDeadline(w) \/ Fault(w)
      PROVE  CarriedInv'
  BY <1>9, RestCarries, SaveAnswerLostCarries, SaveGivenUpCarries
     DEF Fault, ReleasedByDeadline, Rest, Crash
<1> QED BY <1>1, <1>2, <1>6, <1>8, <1>9 DEF Next

\* The second invariant holds of every behaviour.
LEMMA CarriedInvariance == Spec => []CarriedInv
<1> QED BY InitialCarries, InductiveCarries, Invariance, PTL DEF Spec

\* A closed iteration holds no work: every merge that closes one derives the verdict again on
\* the merged state, and time makes no final failure pickable (try_settle_iteration,
\* merge_with_processed_task).
THEOREM ClosedIterationsHoldNoWork == Spec => []ClosedIterationHoldsNoWork
<1>1. CarriedInv => ClosedIterationHoldsNoWork
  BY DEF CarriedInv, ClosedIterationHoldsNoWork, HoldsNoWork, IsClosed
<1> QED BY <1>1, CarriedInvariance, PTL

\* Whatever write a worker makes of an iteration that is not stored yet, its predecessor was
\* due (start_new_job_iteration, find_iteration_status).
THEOREM NextIterationsAreDue == Spec => NextIterationIsDue
<1>1. IInv /\ CarriedInv /\ [Next]_vars =>
        [\A i \in 1 .. MaxIterations - 1 :
            ~Exists(i + 1) /\ Exists(i + 1)' =>
                \/ objects[i].next = 0
                \/ objects[i].next = Unset /\ objects[i].due = 0]_objects
  <2> SUFFICES ASSUME IInv, CarriedInv, [Next]_vars, NEW i \in 1 .. MaxIterations - 1,
                      ~Exists(i + 1), Exists(i + 1)'
               PROVE  IsDue(objects[i])
    BY DEF IsDue
  <2>1. i + 1 \in Iterations /\ i + 1 > 1 /\ (i + 1) - 1 = i
    BY LimitsAssumption DEF Iterations
  <2>2. PICK w \in Workers : pc[w] \in Saving /\ IsSaveAllowed(w) /\ Store(w)
    <3>1. objects' # objects
      BY DEF Exists
    <3>2. objects' # [k \in Iterations |-> IF Exists(k) THEN Elapse(objects[k]) ELSE Nothing]
      BY <2>1 DEF Exists
    <3> QED BY <3>1, <3>2, StoreEffect
  <2>3. mine[w].iter = i + 1
    BY <2>1, <2>2, WriteEffect DEF Exists
  <2>4. pc[w] = "SaveNewIteration"
    BY <2>1, <2>2, <2>3 DEF IInv, WorkerInv, IsSaveAllowed, IsOpen, Saving, Planning, Reading, Working
  <2> QED BY <2>1, <2>3, <2>4 DEF CarriedInv, CopyInv
<1> QED BY <1>1, Invariance, CarriedInvariance, PTL DEF Spec, NextIterationIsDue

\* The plan of an execution reaches the store in the write that stores its result, or not at
\* all (is_created_now in merge_with_processed_task).
THEOREM PlansAreStoredWithResults == Spec => PlanIsStoredWithResult
<1>1. IInv /\ CarriedInv /\ [Next]_vars =>
        [\A w \in Workers :
            LET i == mine[w].iter
            IN (pc[w] = "SaveResult" /\ pc'[w] = "Idle" /\ objects'[i] # objects[i])
                => created[w] \subseteq DOMAIN objects'[i].tasks]_vars
  <2> SUFFICES ASSUME IInv, CarriedInv, [Next]_vars, NEW w \in Workers,
                      pc[w] = "SaveResult", pc'[w] = "Idle", objects'[mine[w].iter] # objects[mine[w].iter]
               PROVE  created[w] \subseteq DOMAIN objects'[mine[w].iter].tasks
    OBVIOUS
  <2>1. pc[w] \in Saving /\ IsSaveAllowed(w) /\ Store(w)
    <3>1. CASE UNCHANGED vars \/ Tick
      BY <3>1 DEF vars, Tick
    <3>2. ASSUME NEW v \in Workers, Step(v) \/ Handle(v) \/ ReleasedByDeadline(v) \/ Fault(v)
          PROVE  v = w
      <4>1. pc' = pc \/ \E place : pc' = [pc EXCEPT ![v] = place]
        <5>1. CASE Step(v)
          BY <5>1 DEF Step, GetJob, CreateNewJob, AdvanceJobIteration, PickInNewIteration, PickTask,
                      Rest, Hold, SaveAcknowledged, SaveRefused, ExecutorReturns
        <5>2. CASE Handle(v)
          BY <5>2 DEF Handle, AddTask, CompleteTask, FailTaskByHandle, SkipTaskBranch, SetNextStartAt, Change
        <5>3. CASE ReleasedByDeadline(v) \/ Fault(v)
          BY <5>3 DEF ReleasedByDeadline, Rest, Hold, Fault, SaveAnswerLost, SaveGivenUp, Crash
        <5> QED BY <3>2, <5>1, <5>2, <5>3
      <4> QED BY <4>1 DEF IInv, TypeOK
    <3>3. ASSUME Step(w) \/ Handle(w) \/ ReleasedByDeadline(w) \/ Fault(w)
          PROVE  pc[w] \in Saving /\ IsSaveAllowed(w) /\ Store(w)
      BY <3>3 DEF Step, GetJob, CreateNewJob, AdvanceJobIteration, PickInNewIteration, SaveAcknowledged,
                  SaveRefused, ExecutorReturns, Handle, AddTask, CompleteTask, FailTaskByHandle,
                  SkipTaskBranch, SetNextStartAt, Change, ReleasedByDeadline, Fault, SaveAnswerLost,
                  SaveGivenUp, Crash
    <3> QED BY <3>1, <3>2, <3>3 DEF Next
  <2>2. IsJob(mine[w]) /\ objects'[mine[w].iter] = mine[w]
    BY <2>1, WriteEffect
  <2>3. created[w] \subseteq DOMAIN mine[w].tasks
    BY DEF CarriedInv, CopyInv, IsPlannedBy
  <2> QED BY <2>2, <2>3
<1> QED BY <1>1, Invariance, CarriedInvariance, PTL DEF Spec, PlanIsStoredWithResult

-----------------------------------------------------------------------------
(* Why no iteration is stuck.  A third invariant, on top of the others: the tasks of every copy *)
(* are in order, that is, closed under dependencies and without a circle.                       *)

\* A copy is in order; what its execution has not added itself is stored; and it is in order
\* without what the execution added, which a failure rolls back.
CopyInOrder(w) ==
    /\ pc[w] \in Planning \cup Reading \cup Working => HasOrder(DOMAIN mine[w].tasks)
    /\ pc[w] \in Reading \cup Working =>
            /\ Exists(mine[w].iter)
            /\ DOMAIN mine[w].tasks \ created[w] \subseteq DOMAIN objects[mine[w].iter].tasks
    /\ pc[w] \in Reading => created[w] = {}
    /\ pc[w] = "Execute" => HasOrder(DOMAIN mine[w].tasks \ created[w])

OrderInv ==
    /\ \A i \in Iterations : Exists(i) => HasOrder(DOMAIN objects[i].tasks)
    /\ \A w \in Workers : CopyInOrder(w)

\* A copy nobody touches stays in order while the store takes no task away.
LEMMA OrderKept ==
    ASSUME IInv, OrderInv, NEW v \in Workers,
           pc'[v] = pc[v], mine'[v] = mine[v], created'[v] = created[v],
           \A i \in Iterations : Exists(i) => /\ Exists(i)'
                                              /\ DOMAIN objects[i].tasks \subseteq DOMAIN objects'[i].tasks
    PROVE  CopyInOrder(v)'
<1>1. CopyInOrder(v) /\ WorkerInv(v)
  BY DEF IInv, OrderInv
<1>2. pc[v] \in Reading \cup Working => mine[v].iter \in Iterations
  BY <1>1, JobIsSomething DEF WorkerInv
<1>3. pc[v] \in Reading \cup Working =>
        /\ Exists(mine[v].iter)'
        /\ DOMAIN mine[v].tasks \ created[v] \subseteq DOMAIN objects'[mine[v].iter].tasks
  BY <1>1, <1>2 DEF CopyInOrder, Exists
<1> QED BY <1>1, <1>3 DEF CopyInOrder, Exists

\* A step that changes nothing but what one worker holds keeps the order if it keeps it for that
\* worker.
LEMMA OwnOrderStep ==
    ASSUME IInv, OrderInv, NEW w \in Workers, objects' = objects,
           \A v \in Workers \ {w} : pc'[v] = pc[v] /\ mine'[v] = mine[v] /\ created'[v] = created[v],
           CopyInOrder(w)'
    PROVE  OrderInv'
<1>1. \A i \in Iterations : Exists(i)' <=> Exists(i)
  BY DEF Exists
<1>2. ASSUME NEW v \in Workers \ {w}
      PROVE  CopyInOrder(v)'
  BY <1>1, OrderKept
<1>3. \A i \in Iterations : Exists(i)' => HasOrder(DOMAIN objects'[i].tasks)
  BY <1>1 DEF OrderInv
<1> QED BY <1>2, <1>3 DEF OrderInv

\* A worker that drops what it holds, or dies, has nothing to keep in order.
LEMMA RestInOrder ==
    ASSUME IInv, OrderInv, NEW w \in Workers, NEW place \in {"Idle", "Dead"},
           Hold(w, place, Nothing, "New", NoTask), objects' = objects
    PROVE  OrderInv'
<1>1. /\ pc'[w] = place
      /\ \A u \in Workers \ {w} : pc'[u] = pc[u] /\ mine'[u] = mine[u] /\ created'[u] = created[u]
  BY HeldCopy DEF IInv
<1>2. CopyInOrder(w)'
  BY <1>1 DEF CopyInOrder, Planning, Reading, Working
<1> QED BY <1>1, <1>2, OwnOrderStep

\* What is read is in order, as it is stored.
LEMMA ReadInOrder ==
    ASSUME IInv, OrderInv, NEW w \in Workers, NEW i \in Iterations, IsReadable(i), NEW place \in Reading,
           Hold(w, place, objects[i], "Current", NoTask), objects' = objects
    PROVE  OrderInv'
<1>1. /\ pc'[w] = place /\ mine'[w] = objects[i] /\ created'[w] = {}
      /\ \A u \in Workers \ {w} : pc'[u] = pc[u] /\ mine'[u] = mine[u] /\ created'[u] = created[u]
  BY HeldCopy DEF IInv
<1>2. Exists(i) /\ objects[i].iter = i /\ HasOrder(DOMAIN objects[i].tasks)
  BY DEF IInv, TypeOK, OrderInv, IsReadable, IsNewest, IsClosed
<1>3. CopyInOrder(w)'
  BY <1>1, <1>2 DEF CopyInOrder, Reading, Exists
<1> QED BY <1>1, <1>3, OwnOrderStep

\* What is planned is in order, as it was defined.
LEMMA PlanInOrder ==
    ASSUME IInv, OrderInv, NEW w \in Workers, NEW i \in Iterations, NEW place \in Planning,
           Hold(w, place, NewJob(w, i), "New", NoTask), objects' = objects
    PROVE  OrderInv'
<1>1. /\ pc'[w] = place /\ mine'[w] = NewJob(w, i)
      /\ \A u \in Workers \ {w} : pc'[u] = pc[u] /\ mine'[u] = mine[u] /\ created'[u] = created[u]
  BY HeldCopy DEF IInv
<1>2. DOMAIN NewJob(w, i).tasks = InitialTasks
  BY DEF NewJob
<1>3. CopyInOrder(w)'
  BY <1>1, <1>2, PlanHasOrder DEF CopyInOrder, Planning, Reading, Working
<1> QED BY <1>1, <1>3, OwnOrderStep

\* A pick neither adds nor drops a task.
LEMMA PickInOrder ==
    ASSUME IInv, OrderInv, NEW w \in Workers, pc[w] \in Reading, PickTask(w), objects' = objects
    PROVE  OrderInv'
<1>1. IsJob(mine[w]) /\ CopyInOrder(w)
  BY DEF IInv, WorkerInv, OrderInv
<1>2. PICK pickup \in Pickups(mine[w]) :
        \/ /\ pickup.kind = "Ready"
           /\ Hold(w, "SaveStart", StartTask(pickup.job, pickup.task, w), version[w], pickup.task)
        \/ /\ pickup.kind = "IterationSettled"
           /\ Hold(w, "SaveSettled", pickup.job, version[w], NoTask)
        \/ Rest(w)
  BY DEF PickTask
<1>3. ASSUME NEW place \in {"SaveStart", "SaveSettled"}, NEW job, NEW t,
             Hold(w, place, job, version[w], t),
             job.iter = mine[w].iter, DOMAIN job.tasks = DOMAIN mine[w].tasks
      PROVE  OrderInv'
  <2>1. /\ pc'[w] = place /\ mine'[w] = job /\ created'[w] = {}
        /\ \A u \in Workers \ {w} : pc'[u] = pc[u] /\ mine'[u] = mine[u] /\ created'[u] = created[u]
    BY <1>3, HeldCopy DEF IInv
  <2>2. /\ HasOrder(DOMAIN job.tasks) /\ Exists(job.iter)
        /\ DOMAIN job.tasks \subseteq DOMAIN objects[job.iter].tasks
    BY <1>1, <1>3 DEF CopyInOrder
  <2>3. CopyInOrder(w)'
    BY <2>1, <2>2 DEF CopyInOrder, Exists, Reading
  <2> QED BY <2>1, <2>3, OwnOrderStep
<1>4. CASE /\ pickup.kind = "Ready"
           /\ Hold(w, "SaveStart", StartTask(pickup.job, pickup.task, w), version[w], pickup.task)
  <2>1. /\ IsJob(pickup.job) /\ pickup.job.iter = mine[w].iter
        /\ DOMAIN pickup.job.tasks = DOMAIN mine[w].tasks /\ pickup.task \in TaskIds
    BY <1>1, <1>4, PickupsType DEF Extends, IsJob
  <2>2. /\ StartTask(pickup.job, pickup.task, w).iter = mine[w].iter
        /\ DOMAIN StartTask(pickup.job, pickup.task, w).tasks = DOMAIN mine[w].tasks
    BY <2>1, StartTaskType DEF Extends
  <2> QED BY <1>3, <1>4, <2>2
<1>5. CASE pickup.kind = "IterationSettled" /\ Hold(w, "SaveSettled", pickup.job, version[w], NoTask)
  <2>1. pickup.job.iter = mine[w].iter /\ DOMAIN pickup.job.tasks = DOMAIN mine[w].tasks
    BY <1>1, <1>5, PickupsType DEF Extends
  <2> QED BY <1>3, <1>5, <2>1
<1>6. CASE Rest(w)
  BY <1>6, RestInOrder DEF Rest
<1> QED BY <1>2, <1>4, <1>5, <1>6

\* Advancing picks in the iteration that was read, or plans the next one.
LEMMA AdvanceInOrder ==
    ASSUME IInv, OrderInv, NEW w \in Workers, AdvanceJobIteration(w)
    PROVE  OrderInv'
<1>1. pc[w] \in Reading /\ objects' = objects /\ IsJob(mine[w])
  BY DEF AdvanceJobIteration, IInv, WorkerInv, Reading
<1>2. CASE PickTask(w)
  BY <1>1, <1>2, PickInOrder
<1>3. CASE /\ IterationStatus(mine[w]) = "Ready"
           /\ Hold(w, "SaveNewIteration", NewJob(w, mine[w].iter + 1), "New", NoTask)
  <2>1. ~(mine[w].iter >= MaxIterations)
    BY <1>3 DEF IterationStatus
  <2> DEFINE i == mine[w].iter + 1
  <2>2. i \in Iterations
    BY <1>1, <2>1, LimitsAssumption DEF IsJob, Iterations
  <2>3. Hold(w, "SaveNewIteration", NewJob(w, i), "New", NoTask)
    BY <1>3
  <2> HIDE DEF i
  <2> QED BY <1>1, <2>2, <2>3, PlanInOrder DEF Planning
<1>4. CASE Rest(w)
  BY <1>1, <1>4, RestInOrder DEF Rest
<1> QED BY <1>2, <1>3, <1>4 DEF AdvanceJobIteration

\* What is written is in order, and whoever only waits keeps his order.
LEMMA WriteInOrder ==
    ASSUME IInv, OrderInv, NEW w \in Workers, pc[w] \in Saving, IsSaveAllowed(w), Store(w)
    PROVE  /\ IsJob(mine[w]) /\ objects'[mine[w].iter] = mine[w] /\ HasOrder(DOMAIN mine[w].tasks)
           /\ \A i \in Iterations : Exists(i)' => HasOrder(DOMAIN objects'[i].tasks)
           /\ \A v \in Workers : pc'[v] = pc[v] /\ mine'[v] = mine[v] /\ created'[v] = created[v]
                                 => CopyInOrder(v)'
<1>1. /\ IsJob(mine[w]) /\ objects'[mine[w].iter] = mine[w]
      /\ \A i \in Iterations \ {mine[w].iter} : objects'[i] = objects[i]
      /\ \A i \in Iterations : Exists(i) => DOMAIN objects[i].tasks \subseteq DOMAIN objects'[i].tasks
  BY WriteEffect
<1>2. mine[w] # Nothing /\ HasOrder(DOMAIN mine[w].tasks)
  BY <1>1, JobIsSomething DEF OrderInv, CopyInOrder, Saving, Planning, Reading, Working
<1>3. \A i \in Iterations : Exists(i)' => HasOrder(DOMAIN objects'[i].tasks)
  BY <1>1, <1>2 DEF OrderInv, Exists
<1>4. \A i \in Iterations : Exists(i) => Exists(i)'
  BY <1>1, <1>2 DEF Exists
<1>5. ASSUME NEW v \in Workers, pc'[v] = pc[v], mine'[v] = mine[v], created'[v] = created[v]
      PROVE  CopyInOrder(v)'
  BY <1>1, <1>4, <1>5, OrderKept
<1> QED BY <1>1, <1>2, <1>3, <1>5

\* A worker whose write is acknowledged goes on with what is stored.
LEMMA SaveAcknowledgedInOrder ==
    ASSUME IInv, OrderInv, NEW w \in Workers, SaveAcknowledged(w)
    PROVE  OrderInv'
<1> DEFINE place == AfterSave(w)
<1>1. place \in {"Advance", "Pick", "Execute", "Idle"}
  BY DEF AfterSave
<1> HIDE DEF place
<1>2. /\ pc'[w] = place /\ mine'[w] = (IF place = "Idle" THEN Nothing ELSE mine[w]) /\ created'[w] = {}
      /\ \A v \in Workers \ {w} : pc'[v] = pc[v] /\ mine'[v] = mine[v] /\ created'[v] = created[v]
  BY DEF SaveAcknowledged, IInv, TypeOK, place
<1>3. /\ IsJob(mine[w]) /\ objects'[mine[w].iter] = mine[w] /\ HasOrder(DOMAIN mine[w].tasks)
      /\ \A i \in Iterations : Exists(i)' => HasOrder(DOMAIN objects'[i].tasks)
      /\ \A v \in Workers \ {w} : CopyInOrder(v)'
  BY <1>2, WriteInOrder DEF SaveAcknowledged
<1>4. objects'[mine[w].iter] # Nothing
  BY <1>3, JobIsSomething
<1>5. CopyInOrder(w)'
  <2>1. CASE place = "Idle"
    BY <1>2, <2>1 DEF CopyInOrder, Planning, Reading, Working
  <2>2. CASE place # "Idle"
    <3>1. mine'[w] = mine[w] /\ DOMAIN mine[w].tasks \ {} = DOMAIN mine[w].tasks
      BY <1>2, <2>2
    <3> QED BY <1>1, <1>2, <1>3, <1>4, <2>2, <3>1 DEF CopyInOrder, Exists
  <2> QED BY <2>1, <2>2
<1> QED BY <1>3, <1>5 DEF OrderInv

\* A lost answer leaves the worker with the copy it wrote.
LEMMA SaveAnswerLostInOrder ==
    ASSUME IInv, OrderInv, NEW w \in Workers, SaveAnswerLost(w)
    PROVE  OrderInv'
<1>1. /\ \A i \in Iterations : Exists(i)' => HasOrder(DOMAIN objects'[i].tasks)
      /\ \A v \in Workers : CopyInOrder(v)'
  BY WriteInOrder DEF SaveAnswerLost
<1> QED BY <1>1 DEF OrderInv

\* A write that was given up may have been applied.
LEMMA SaveGivenUpInOrder ==
    ASSUME IInv, OrderInv, NEW w \in Workers, SaveGivenUp(w)
    PROVE  OrderInv'
<1>1. /\ pc'[w] = "Idle"
      /\ \A v \in Workers \ {w} : pc'[v] = pc[v] /\ mine'[v] = mine[v] /\ created'[v] = created[v]
  BY DEF SaveGivenUp, IInv, TypeOK
<1>2. CopyInOrder(w)'
  BY <1>1 DEF CopyInOrder, Planning, Reading, Working
<1>3. CASE UNCHANGED objects
  BY <1>1, <1>2, <1>3, OwnOrderStep
<1>4. CASE IsSaveAllowed(w) /\ Store(w)
  <2>1. /\ \A i \in Iterations : Exists(i)' => HasOrder(DOMAIN objects'[i].tasks)
        /\ \A v \in Workers \ {w} : CopyInOrder(v)'
    BY <1>1, <1>4, WriteInOrder DEF SaveGivenUp
  <2> QED BY <1>2, <2>1 DEF OrderInv
<1> QED BY <1>3, <1>4 DEF SaveGivenUp

\* A merged result holds what is stored and what the copy holds: what the copy had read is
\* stored still, and what its execution added is stored or carried over.
LEMMA MergedHolds ==
    ASSUME IInv, CarriedInv, OrderInv, NEW w \in Workers, pc[w] = "SaveResult",
           NEW i \in Iterations, i = mine[w].iter, Exists(i)
    PROVE  DOMAIN objects[i].tasks \cup CarriedOver(objects[i], mine[w], w)
                = DOMAIN objects[i].tasks \cup DOMAIN mine[w].tasks
<1>1. CopyInOrder(w) /\ CopyInv(w)
  BY DEF OrderInv, CarriedInv
<1>2. DOMAIN mine[w].tasks \ created[w] \subseteq DOMAIN objects[i].tasks
  BY <1>1 DEF CopyInOrder, Working
<1>3. ASSUME NEW t \in created[w], t \in DOMAIN mine[w].tasks, t \notin DOMAIN objects[i].tasks
      PROVE  t \in CarriedOver(objects[i], mine[w], w)
  <2>1. IsPlannedBy(w, mine[w], t)
    BY <1>1, <1>3 DEF CopyInv
  <2> QED BY <1>3, <2>1 DEF CarriedOver, IsPlannedBy
<1>4. CarriedOver(objects[i], mine[w], w) \subseteq DOMAIN mine[w].tasks
  BY DEF CarriedOver
<1> QED BY <1>2, <1>3, <1>4

\* A merge brings two copies in order together.
LEMMA SaveRefusedInOrder ==
    ASSUME IInv, CarriedInv, OrderInv, NEW w \in Workers, SaveRefused(w)
    PROVE  OrderInv'
<1> DEFINE Merge(i) == IF pc[w] = "SaveStart"
                       THEN MergePickedTask(objects[i], mine[w], w, task[w])
                       ELSE MergeProcessedTask(objects[i], mine[w], w, task[w])
<1>1. PICK i \in Iterations :
        /\ IsReadable(i)
        /\ \/ Hold(w, "Advance", objects[i], "Current", NoTask)
           \/ Hold(w, "Pick", objects[i], "Current", NoTask)
           \/ Rest(w)
           \/ /\ pc[w] \in {"SaveStart", "SaveResult"} /\ Merge(i).answer = "Merged"
              /\ mine' = [mine EXCEPT ![w] = Merge(i).job]
              /\ UNCHANGED <<pc, task, created>>
  BY DEF SaveRefused
<1>2. objects' = objects
  BY DEF SaveRefused
<1>3. CASE Hold(w, "Advance", objects[i], "Current", NoTask) \/ Hold(w, "Pick", objects[i], "Current", NoTask)
  BY <1>1, <1>2, <1>3, ReadInOrder DEF Reading
<1>4. CASE Rest(w)
  BY <1>2, <1>4, RestInOrder DEF Rest
<1>5. CASE /\ pc[w] \in {"SaveStart", "SaveResult"} /\ Merge(i).answer = "Merged"
           /\ mine' = [mine EXCEPT ![w] = Merge(i).job]
           /\ UNCHANGED <<pc, task, created>>
  <2> DEFINE merged == Merge(i).job
             D == DOMAIN objects[i].tasks
  <2>1. /\ CopyInOrder(w) /\ IsJob(mine[w]) /\ Exists(i) /\ IsJob(objects[i]) /\ objects[i].iter = i
        /\ HasOrder(D) /\ HasOrder(DOMAIN mine[w].tasks) /\ task[w] \in DOMAIN mine[w].tasks
        /\ DOMAIN mine[w].tasks \ created[w] \subseteq DOMAIN objects[mine[w].iter].tasks
    BY <1>1, <1>5
       DEF IInv, TypeOK, WorkerInv, Working, OrderInv, CopyInOrder, IsReadable, IsNewest, IsClosed
  <2>2. /\ mine'[w] = merged /\ pc'[w] = pc[w] /\ created'[w] = created[w]
        /\ \A u \in Workers \ {w} : pc'[u] = pc[u] /\ mine'[u] = mine[u] /\ created'[u] = created[u]
    BY <1>5 DEF IInv, TypeOK
  <2>3. /\ merged.iter = i /\ HasOrder(DOMAIN merged.tasks)
        /\ DOMAIN merged.tasks \ created[w] \subseteq D
    <3>1. CASE pc[w] = "SaveStart"
      <4>1. MergePickedTask(objects[i], mine[w], w, task[w]).answer = "Merged"
            /\ merged = MergePickedTask(objects[i], mine[w], w, task[w]).job
        BY <1>5, <3>1
      <4>2. Extends(merged, objects[i]) /\ DOMAIN merged.tasks = D
        BY <2>1, <4>1, MergePickedTaskType
      <4> QED BY <2>1, <4>2 DEF Extends
    <3>2. CASE pc[w] = "SaveResult"
      <4>1. MergeProcessedTask(objects[i], mine[w], w, task[w]).answer = "Merged"
            /\ merged = MergeProcessedTask(objects[i], mine[w], w, task[w]).job
        BY <1>5, <3>2
      <4>2. /\ Extends(merged, objects[i]) /\ objects[i].iter = mine[w].iter
            /\ DOMAIN merged.tasks = D \cup CarriedOver(objects[i], mine[w], w)
        BY <2>1, <4>1, MergeProcessedTaskType
      <4> HIDE DEF merged
      <4>3. DOMAIN merged.tasks = D \cup DOMAIN mine[w].tasks
        BY <2>1, <3>2, <4>2, MergedHolds
      <4>4. HasOrder(DOMAIN merged.tasks)
        BY <2>1, <4>3, UnionHasOrder
      <4> QED BY <2>1, <4>2, <4>3, <4>4 DEF Extends
    <3> QED BY <1>5, <3>1, <3>2
  <2> HIDE DEF merged, Merge
  <2>4. CopyInOrder(w)'
    BY <1>2, <1>5, <2>1, <2>2, <2>3 DEF CopyInOrder, Exists, Reading
  <2> QED BY <1>2, <2>2, <2>4, OwnOrderStep
<1> QED BY <1>1, <1>3, <1>4, <1>5

\* The executor changes the copy its worker holds, or is done with it.
LEMMA ExecuteInOrder ==
    ASSUME IInv, OrderInv, NEW w \in Workers, pc[w] = "Execute",
           NEW place \in {"Execute", "SaveResult"}, NEW job, NEW added,
           job.iter = mine[w].iter, HasOrder(DOMAIN job.tasks),
           DOMAIN job.tasks \ added \subseteq DOMAIN mine[w].tasks \ created[w],
           place = "Execute" => DOMAIN job.tasks \ added = DOMAIN mine[w].tasks \ created[w],
           pc' = [pc EXCEPT ![w] = place], mine' = [mine EXCEPT ![w] = job],
           created' = [created EXCEPT ![w] = added], objects' = objects
    PROVE  OrderInv'
<1>1. /\ pc'[w] = place /\ mine'[w] = job /\ created'[w] = added
      /\ \A u \in Workers \ {w} : pc'[u] = pc[u] /\ mine'[u] = mine[u] /\ created'[u] = created[u]
  BY DEF IInv, TypeOK
<1>2. /\ Exists(mine[w].iter) /\ HasOrder(DOMAIN mine[w].tasks \ created[w])
      /\ DOMAIN mine[w].tasks \ created[w] \subseteq DOMAIN objects[mine[w].iter].tasks
  BY DEF OrderInv, CopyInOrder, Working
<1>3. CopyInOrder(w)'
  BY <1>1, <1>2 DEF CopyInOrder, Exists, Reading
<1> QED BY <1>1, <1>3, OwnOrderStep

\* A task that is added waits only on tasks the copy holds (add_task).
LEMMA AddTaskInOrder ==
    ASSUME IInv, OrderInv, NEW w \in Workers, AddTask(w)
    PROVE  OrderInv'
<1>1. PICK t \in TaskIds \ InitialTasks :
        /\ IsFresh(t, mine[w].iter) /\ DependsOn[t] \subseteq DOMAIN mine[w].tasks
        /\ mine' = [mine EXCEPT ![w] = [mine[w] EXCEPT !.tasks = WithTask(mine[w].tasks, t, NewTask(t, w))]]
        /\ created' = [created EXCEPT ![w] = created[w] \cup {t}]
        /\ UNCHANGED <<objects, pc>>
  BY DEF AddTask, Change
<1> DEFINE tasks == WithTask(mine[w].tasks, t, NewTask(t, w))
           job == [mine[w] EXCEPT !.tasks = tasks]
<1>2. pc[w] = "Execute" /\ IsJob(mine[w]) /\ HasOrder(DOMAIN mine[w].tasks)
  BY Executing DEF AddTask, OrderInv, CopyInOrder, Working
<1>3. DOMAIN tasks = DOMAIN mine[w].tasks \cup {t} /\ t \notin DOMAIN mine[w].tasks
  BY <1>1 DEF WithTask, IsFresh
<1>4. job.tasks = tasks /\ job.iter = mine[w].iter
  <2> HIDE DEF tasks
  <2> QED BY <1>2 DEF IsJob
<1>5. HasOrder(DOMAIN mine[w].tasks \cup {t})
  BY <1>1, <1>2, <1>3, AddedHasOrder
<1>6. mine' = [mine EXCEPT ![w] = job] /\ pc' = [pc EXCEPT ![w] = "Execute"]
  BY <1>1, <1>2 DEF IInv, TypeOK
<1> HIDE DEF tasks, job
<1>7. /\ HasOrder(DOMAIN job.tasks)
      /\ DOMAIN job.tasks \ (created[w] \cup {t}) = DOMAIN mine[w].tasks \ created[w]
  BY <1>3, <1>4, <1>5
<1> QED BY <1>1, <1>2, <1>4, <1>6, <1>7, ExecuteInOrder

\* An executor that changes a job without adding or dropping a task.
LEMMA ChangeInOrder ==
    ASSUME IInv, OrderInv, NEW w \in Workers, pc[w] = "Execute", NEW job,
           job.iter = mine[w].iter, DOMAIN job.tasks = DOMAIN mine[w].tasks,
           Change(w, job), UNCHANGED created
    PROVE  OrderInv'
<1>1. HasOrder(DOMAIN mine[w].tasks)
  BY DEF OrderInv, CopyInOrder, Working
<1>2. /\ mine' = [mine EXCEPT ![w] = job] /\ objects' = objects
      /\ pc' = [pc EXCEPT ![w] = "Execute"] /\ created' = [created EXCEPT ![w] = created[w]]
  BY DEF Change, IInv, TypeOK
<1> QED BY <1>1, <1>2, ExecuteInOrder

\* The rollback of a failure leaves what was there before the execution.
LEMMA FailTaskInOrder ==
    ASSUME IInv, OrderInv, NEW w \in Workers, FailTaskByHandle(w)
    PROVE  OrderInv'
<1>1. PICK t \in DOMAIN mine[w].tasks, retry \in {"WhileBudgetLasts", "Never"} :
        LET rolledBack == IF t = task[w] THEN created[w] ELSE {}
        IN /\ Change(w, FailTask(mine[w], t, retry, rolledBack))
           /\ created' = [created EXCEPT ![w] = created[w] \ rolledBack]
  BY DEF FailTaskByHandle
<1> DEFINE rolledBack == IF t = task[w] THEN created[w] ELSE {}
           job == FailTask(mine[w], t, retry, rolledBack)
           added == created[w] \ rolledBack
<1>2. /\ pc[w] = "Execute" /\ IsJob(mine[w])
      /\ HasOrder(DOMAIN mine[w].tasks) /\ HasOrder(DOMAIN mine[w].tasks \ created[w])
  BY Executing DEF FailTaskByHandle, OrderInv, CopyInOrder, Working
<1>3. job.iter = mine[w].iter /\ DOMAIN job.tasks = DOMAIN mine[w].tasks \ rolledBack
  <2>1. retry \in {"WhileBudgetLasts", "Never"}
    BY <1>1
  <2> HIDE DEF rolledBack
  <2>2. KeepsBut(rolledBack, FailTask(mine[w], t, retry, rolledBack), mine[w])
    BY <1>2, <2>1, FailTaskType
  <2> QED BY <2>2 DEF KeepsBut
<1>4. /\ mine' = [mine EXCEPT ![w] = job] /\ objects' = objects
      /\ pc' = [pc EXCEPT ![w] = "Execute"] /\ created' = [created EXCEPT ![w] = added]
  BY <1>1, <1>2 DEF Change, IInv, TypeOK
<1> HIDE DEF job
<1>5. DOMAIN job.tasks \ added = DOMAIN mine[w].tasks \ created[w]
  BY <1>3
<1>6. DOMAIN job.tasks \in {DOMAIN mine[w].tasks, DOMAIN mine[w].tasks \ created[w]}
  BY <1>3
<1> HIDE DEF added, rolledBack
<1>7. HasOrder(DOMAIN job.tasks)
  BY <1>2, <1>6
<1> QED BY <1>2, <1>3, <1>4, <1>5, <1>7, ExecuteInOrder

\* So does the outcome of an executor.
LEMMA ExecutorReturnsInOrder ==
    ASSUME IInv, OrderInv, NEW w \in Workers, ExecutorReturns(w)
    PROVE  OrderInv'
<1>1. PICK outcome \in Outcomes :
        LET applied == AppliedOutcome(w, outcome)
        IN /\ mine' = [mine EXCEPT ![w] = TrySettleIteration(applied).job]
           /\ created' = [created EXCEPT ![w] = created[w] \cap DOMAIN applied.tasks]
  BY DEF ExecutorReturns
<1> DEFINE applied == AppliedOutcome(w, outcome)
           job == TrySettleIteration(applied).job
           added == created[w] \cap DOMAIN applied.tasks
<1>2. /\ pc[w] = "Execute"
      /\ HasOrder(DOMAIN mine[w].tasks) /\ HasOrder(DOMAIN mine[w].tasks \ created[w])
  BY DEF ExecutorReturns, OrderInv, CopyInOrder, Working
<1>3. /\ IsJob(applied) /\ applied.iter = mine[w].iter
      /\ DOMAIN applied.tasks \in {DOMAIN mine[w].tasks, DOMAIN mine[w].tasks \ created[w]}
  BY <1>2, AppliedOutcomeType
<1>4. job.iter = mine[w].iter /\ DOMAIN job.tasks = DOMAIN applied.tasks
  <2> HIDE DEF applied
  <2> QED BY <1>3, TrySettleIterationType DEF Extends
<1>5. /\ mine' = [mine EXCEPT ![w] = job] /\ created' = [created EXCEPT ![w] = added]
      /\ pc' = [pc EXCEPT ![w] = "SaveResult"] /\ objects' = objects
  BY <1>1 DEF ExecutorReturns
<1> HIDE DEF job, applied
<1>6. HasOrder(DOMAIN job.tasks) /\ DOMAIN job.tasks \ added \subseteq DOMAIN mine[w].tasks \ created[w]
  <2>1. HasOrder(DOMAIN applied.tasks)
    BY <1>2, <1>3
  <2>2. DOMAIN applied.tasks \subseteq DOMAIN mine[w].tasks
    BY <1>3
  <2> QED BY <1>4, <2>1, <2>2
<1> HIDE DEF added
<1> QED BY <1>2, <1>4, <1>5, <1>6, ExecuteInOrder

\* Time adds and drops no task.
LEMMA TickInOrder ==
    ASSUME IInv, OrderInv, Tick
    PROVE  OrderInv'
<1>1. /\ \A i \in Iterations : objects'[i] = IF Exists(i) THEN Elapse(objects[i]) ELSE Nothing
      /\ \A w \in Workers : mine'[w] = IF mine[w] # Nothing THEN Elapse(mine[w]) ELSE Nothing
      /\ pc' = pc /\ created' = created
  BY DEF Tick
<1>2. ASSUME NEW i \in Iterations
      PROVE  /\ Exists(i)' <=> Exists(i)
             /\ Exists(i) => DOMAIN objects'[i].tasks = DOMAIN objects[i].tasks
  <2>1. CASE Exists(i)
    <3>1. objects'[i] = Elapse(objects[i]) /\ IsJob(objects[i])
      BY <1>1, <2>1 DEF IInv, TypeOK
    <3>2. IsJob(objects'[i]) /\ DOMAIN objects'[i].tasks = DOMAIN objects[i].tasks
      BY <3>1, ElapseType DEF Extends
    <3> QED BY <2>1, <3>2, JobIsSomething DEF Exists
  <2>2. CASE ~Exists(i)
    BY <1>1, <2>2 DEF Exists
  <2> QED BY <2>1, <2>2
<1>3. ASSUME NEW w \in Workers
      PROVE  CopyInOrder(w)'
  <2>1. CopyInOrder(w) /\ WorkerInv(w)
    BY DEF IInv, OrderInv
  <2>2. CASE pc[w] \notin Planning \cup Reading \cup Working
    BY <1>1, <2>2 DEF CopyInOrder, Planning, Reading, Working
  <2>3. CASE pc[w] \in Planning \cup Reading \cup Working
    <3>1. IsJob(mine[w]) /\ mine[w] # Nothing /\ mine[w].iter \in Iterations
      BY <2>1, <2>3, JobIsSomething DEF WorkerInv
    <3>2. mine'[w].iter = mine[w].iter /\ DOMAIN mine'[w].tasks = DOMAIN mine[w].tasks
      BY <1>1, <3>1, ElapseType DEF Extends
    <3> QED BY <1>1, <1>2, <2>1, <3>1, <3>2 DEF CopyInOrder
  <2> QED BY <2>2, <2>3
<1> QED BY <1>2, <1>3 DEF OrderInv

\* Nothing is stored and nothing is held at first.
LEMMA InitialOrder == Init => OrderInv
BY DEF Init, OrderInv, CopyInOrder, Exists, Planning, Reading, Working

\* Every step keeps every copy in order.
LEMMA InductiveOrder == IInv /\ CarriedInv /\ OrderInv /\ [Next]_vars => OrderInv'
<1> SUFFICES ASSUME IInv, CarriedInv, OrderInv, [Next]_vars PROVE OrderInv'
  OBVIOUS
<1>1. CASE UNCHANGED vars
  BY <1>1 DEF vars, OrderInv, CopyInOrder, Exists
<1>2. CASE Tick
  BY <1>2, TickInOrder
<1>3. ASSUME NEW w \in Workers, GetJob(w)
      PROVE  OrderInv'
  <2>1. PICK i \in Iterations : IsReadable(i) /\ Hold(w, "Advance", objects[i], "Current", NoTask)
    BY <1>3 DEF GetJob
  <2> QED BY <1>3, <2>1, ReadInOrder DEF GetJob, Reading
<1>4. ASSUME NEW w \in Workers, CreateNewJob(w)
      PROVE  OrderInv'
  <2>1. 1 \in Iterations
    BY LimitsAssumption DEF Iterations
  <2> QED BY <1>4, <2>1, PlanInOrder DEF CreateNewJob, Planning
<1>5. ASSUME NEW w \in Workers, PickInNewIteration(w)
      PROVE  OrderInv'
  BY <1>5, RestInOrder, PickInOrder DEF PickInNewIteration, Rest, Reading
<1>6. ASSUME NEW w \in Workers, Step(w)
      PROVE  OrderInv'
  BY <1>3, <1>4, <1>5, <1>6, AdvanceInOrder, SaveAcknowledgedInOrder, SaveRefusedInOrder,
     ExecutorReturnsInOrder DEF Step
<1>7. ASSUME NEW w \in Workers, NEW t, NEW status \in TaskStatus, pc[w] = "Execute",
             Change(w, [mine[w] EXCEPT !.tasks[t] = Ended(@, status)]), UNCHANGED created
      PROVE  OrderInv'
  <2> DEFINE job == [mine[w] EXCEPT !.tasks[t] = Ended(@, status)]
  <2>1. job.iter = mine[w].iter /\ DOMAIN job.tasks = DOMAIN mine[w].tasks
    BY <1>7, Executing, EndTaskType, EndTaskKeepsTasks DEF Extends
  <2>2. Change(w, job)
    BY <1>7
  <2> HIDE DEF job
  <2> QED BY <1>7, <2>1, <2>2, ChangeInOrder
<1>8. ASSUME NEW w \in Workers, Handle(w)
      PROVE  OrderInv'
  <2>1. CASE CompleteTask(w)
    <3>1. PICK t \in DOMAIN mine[w].tasks : Change(w, [mine[w] EXCEPT !.tasks[t] = Ended(@, "Completed")])
      BY <2>1 DEF CompleteTask
    <3> QED BY <1>7, <2>1, <3>1 DEF CompleteTask, TaskStatus
  <2>2. CASE SkipTaskBranch(w)
    BY <1>7, <2>2 DEF SkipTaskBranch, TaskStatus, Skipped
  <2>3. CASE SetNextStartAt(w)
    <3>1. PICK delay \in StartDelays : Change(w, [mine[w] EXCEPT !.next = delay])
      BY <2>3 DEF SetNextStartAt
    <3> DEFINE job == [mine[w] EXCEPT !.next = delay]
    <3>2. pc[w] = "Execute" /\ job.iter = mine[w].iter /\ job.tasks = mine[w].tasks
      BY <2>3, Executing DEF SetNextStartAt, IsJob
    <3>3. Change(w, job) /\ UNCHANGED created
      BY <2>3, <3>1 DEF SetNextStartAt
    <3> HIDE DEF job
    <3> QED BY <3>2, <3>3, ChangeInOrder
  <2> QED BY <1>8, <2>1, <2>2, <2>3, AddTaskInOrder, FailTaskInOrder DEF Handle
<1>9. ASSUME NEW w \in Workers, ReleasedByDeadline(w) \/ Fault(w)
      PROVE  OrderInv'
  BY <1>9, RestInOrder, SaveAnswerLostInOrder, SaveGivenUpInOrder
     DEF Fault, ReleasedByDeadline, Rest, Crash
<1> QED BY <1>1, <1>2, <1>6, <1>8, <1>9 DEF Next

\* Every copy is in order in every behaviour.
LEMMA OrderInvariance == Spec => []OrderInv
BY InitialOrder, InductiveOrder, Invariance, CarriedInvariance, PTL DEF Spec

\* No open iteration is ever stuck: whatever was added, rolled back or merged, a poll of what is
\* stored finds a task to run, a reason to wait or the end of the iteration, never
\* IterationDeadlock (pick_task_to_execute, try_settle_iteration).
THEOREM NoIterationIsStuck == Spec => []NoIterationDeadlock
<1>1. IInv /\ OrderInv => NoIterationDeadlock
  <2> SUFFICES ASSUME IInv, OrderInv, NEW i \in Iterations, IsOpen(i), NEW pickup \in Pickups(objects[i])
               PROVE  pickup.kind # "Deadlock"
    BY DEF NoIterationDeadlock
  <2>1. IsJob(objects[i]) /\ HasOrder(DOMAIN objects[i].tasks)
    BY DEF IInv, TypeOK, OrderInv, IsOpen
  <2> QED BY <2>1, NoPickIsDeadlocked
<1> QED BY <1>1, Invariance, OrderInvariance, PTL

-----------------------------------------------------------------------------
(* Why results stay: the fourth invariant *)

\* What worker w holds takes nothing back of what is stored.
HandInv(w) ==
    LET stored == objects[mine[w].iter].tasks
        tasks == mine[w].tasks
        own == mine[w].tasks[task[w]]
    IN /\ mine[w] # Nothing => AreSound(tasks)
       /\ pc[w] \in Planning => DOMAIN tasks = InitialTasks
       /\ pc[w] \in Reading \cup Working /\ version[w] = "Current" => AreRespected(w, tasks, stored)
       /\ pc[w] \in Reading \cup Working => KnowsOwnResults(w, tasks, stored)
       /\ pc[w] \in {"SaveStart", "Execute", "SaveResult"} => own.owner = w
       /\ pc[w] = "SaveStart" => own.status = "Started"
       /\ pc[w] = "Execute" /\ ~IsExpired(own) =>
            /\ stored[task[w]].status = "Started" /\ stored[task[w]].owner = w
            /\ stored[task[w]].expires = own.expires
       /\ pc[w] = "Execute" /\ created[w] # {} => task[w] \in Planners /\ own.status # "Failed"
       /\ pc[w] \in Saving /\ created[w] # {} =>
            pc[w] = "SaveResult" /\ task[w] \in Planners /\ IsResult(own)

ResultInv ==
    /\ \A i \in Iterations : Exists(i) => AreSound(objects[i].tasks)
    /\ \A w \in Workers : HandInv(w)

\* Every other worker waits.
OthersWait(w) ==
    \A v \in Workers \ {w} : /\ pc'[v] = pc[v] /\ mine'[v] = mine[v] /\ version'[v] = version[v]
                             /\ task'[v] = task[v] /\ created'[v] = created[v]

\* A step that changes nothing but what one worker holds keeps the invariant if it keeps it for
\* that worker.
LEMMA OwnHandStep ==
    ASSUME ResultInv, NEW w \in Workers, objects' = objects, OthersWait(w), HandInv(w)'
    PROVE  ResultInv'
<1>1. ASSUME NEW v \in Workers \ {w}
      PROVE  HandInv(v)'
  <2>1. HandInv(v)
    BY DEF ResultInv
  <2>2. /\ pc'[v] = pc[v] /\ mine'[v] = mine[v] /\ version'[v] = version[v]
        /\ task'[v] = task[v] /\ created'[v] = created[v]
    BY DEF OthersWait
  <2> QED BY <2>1, <2>2 DEF HandInv
<1>2. \A i \in Iterations : Exists(i)' => AreSound(objects'[i].tasks)
  BY DEF ResultInv, Exists
<1> QED BY <1>1, <1>2 DEF ResultInv

\* What a worker holds after Hold.
LEMMA HeldHand ==
    ASSUME TypeOK, NEW w \in Workers, NEW place, NEW job, NEW v, NEW t, Hold(w, place, job, v, t)
    PROVE  /\ pc'[w] = place /\ mine'[w] = job /\ version'[w] = v /\ task'[w] = t /\ created'[w] = {}
           /\ OthersWait(w)
BY DEF Hold, TypeOK, OthersWait

\* A worker that drops what it holds, or dies, takes nothing back.
LEMMA RestHand ==
    ASSUME IInv, ResultInv, NEW w \in Workers, NEW place \in {"Idle", "Dead"},
           Hold(w, place, Nothing, "New", NoTask), objects' = objects
    PROVE  ResultInv'
<1>1. pc'[w] = place /\ mine'[w] = Nothing /\ OthersWait(w)
  BY HeldHand DEF IInv
<1>2. HandInv(w)'
  BY <1>1 DEF HandInv, Planning, Reading, Working, Saving
<1> QED BY <1>1, <1>2, OwnHandStep

\* What is read is what is stored.
LEMMA ReadHand ==
    ASSUME IInv, ResultInv, NEW w \in Workers, NEW i \in Iterations, IsReadable(i), NEW place \in Reading,
           Hold(w, place, objects[i], "Current", NoTask), objects' = objects
    PROVE  ResultInv'
<1>1. /\ pc'[w] = place /\ mine'[w] = objects[i] /\ created'[w] = {} /\ OthersWait(w)
  BY HeldHand DEF IInv
<1>2. objects[i].iter = i /\ AreSound(objects[i].tasks)
  BY DEF IInv, TypeOK, ResultInv, IsReadable, IsNewest, IsClosed
<1>3. AreRespected(w, objects[i].tasks, objects[i].tasks) /\ KnowsOwnResults(w, objects[i].tasks, objects[i].tasks)
  BY StoredIsRespected, RespectKnowsResults
<1>4. HandInv(w)'
  BY <1>1, <1>2, <1>3 DEF HandInv, Planning, Reading, Working, Saving
<1> QED BY <1>1, <1>4, OwnHandStep

\* What is planned has no workers yet.
LEMMA PlanHand ==
    ASSUME IInv, ResultInv, NEW w \in Workers, NEW i, NEW place \in Planning,
           Hold(w, place, NewJob(w, i), "New", NoTask), objects' = objects
    PROVE  ResultInv'
<1>1. /\ pc'[w] = place /\ mine'[w] = NewJob(w, i) /\ created'[w] = {} /\ OthersWait(w)
  BY HeldHand DEF IInv
<1>2. AreSound(NewJob(w, i).tasks) /\ DOMAIN NewJob(w, i).tasks = InitialTasks
  BY NewJobIsSound
<1>3. HandInv(w)'
  BY <1>1, <1>2 DEF HandInv, Planning, Reading, Working, Saving
<1> QED BY <1>1, <1>3, OwnHandStep

\* A pick takes nothing back, whether the copy is current or not.
LEMMA PickHand ==
    ASSUME IInv, ResultInv, NEW w \in Workers, pc[w] \in Reading, PickTask(w), objects' = objects
    PROVE  ResultInv'
<1>1. IsJob(mine[w]) /\ HandInv(w) /\ mine[w] # Nothing
  BY JobIsSomething DEF IInv, WorkerInv, ResultInv
<1> DEFINE stored == objects[mine[w].iter].tasks
<1>2. /\ AreSound(mine[w].tasks) /\ KnowsOwnResults(w, mine[w].tasks, stored)
      /\ version[w] = "Current" => AreRespected(w, mine[w].tasks, stored)
  BY <1>1 DEF HandInv
<1>3. version[w] = "Current" => DOMAIN stored \subseteq DOMAIN mine[w].tasks
  BY DEF IInv, WorkerInv
<1> HIDE DEF stored
<1>4. PICK pickup \in Pickups(mine[w]) :
        \/ /\ pickup.kind = "Ready"
           /\ Hold(w, "SaveStart", StartTask(pickup.job, pickup.task, w), version[w], pickup.task)
        \/ /\ pickup.kind = "IterationSettled"
           /\ Hold(w, "SaveSettled", pickup.job, version[w], NoTask)
        \/ Rest(w)
  BY DEF PickTask
<1>5. ASSUME NEW place \in {"SaveStart", "SaveSettled"}, NEW job, NEW t,
             Hold(w, place, job, version[w], t),
             job.iter = mine[w].iter, DOMAIN job.tasks = DOMAIN mine[w].tasks,
             IsWorkOf(w, job.tasks, mine[w].tasks), AreSound(job.tasks),
             place = "SaveStart" => job.tasks[t].owner = w /\ job.tasks[t].status = "Started"
      PROVE  ResultInv'
  <2>1. /\ pc'[w] = place /\ mine'[w] = job /\ version'[w] = version[w] /\ task'[w] = t /\ created'[w] = {}
        /\ OthersWait(w)
    BY <1>5, HeldHand DEF IInv
  <2>2. KnowsOwnResults(w, job.tasks, stored)
    BY <1>2, <1>5, WorkKnowsResults
  <2>3. version[w] = "Current" => AreRespected(w, job.tasks, stored)
    BY <1>2, <1>3, <1>5, WorkIsRespectful
  <2>4. stored = objects'[job.iter].tasks
    BY <1>5 DEF stored
  <2>5. HandInv(w)'
    BY <1>5, <2>1, <2>2, <2>3, <2>4 DEF HandInv, Planning, Reading, Working, Saving
  <2> QED BY <2>1, <2>5, OwnHandStep
<1>6. CASE /\ pickup.kind = "Ready"
           /\ Hold(w, "SaveStart", StartTask(pickup.job, pickup.task, w), version[w], pickup.task)
  <2> DEFINE job == StartTask(pickup.job, pickup.task, w)
             t == pickup.task
  <2>1. /\ IsJob(pickup.job) /\ pickup.job.iter = mine[w].iter
        /\ DOMAIN pickup.job.tasks = DOMAIN mine[w].tasks /\ t \in TaskIds
        /\ t \in DOMAIN pickup.job.tasks /\ Availability(pickup.job.tasks[t]) = "Pickable"
    BY <1>1, <1>6, PickupsType, PickupTasks DEF Extends, IsJob
  <2>2. IsWorkOf(w, pickup.job.tasks, mine[w].tasks) /\ AreSound(pickup.job.tasks)
    BY <1>1, <1>2, <1>6, PickupIsWork
  <2>3. /\ job.iter = mine[w].iter /\ DOMAIN job.tasks = DOMAIN mine[w].tasks
    BY <2>1, StartTaskType DEF Extends
  <2>4. /\ IsWorkOf(w, job.tasks, pickup.job.tasks) /\ AreSound(job.tasks)
        /\ job.tasks[t].owner = w /\ job.tasks[t].status = "Started"
    BY <2>1, <2>2, StartIsWork
  <2>5. Hold(w, "SaveStart", job, version[w], t)
    BY <1>6
  <2> HIDE DEF job, t
  <2>6. IsWorkOf(w, job.tasks, mine[w].tasks)
    BY <2>1, <2>2, <2>3, <2>4, WorkIsTransitive
  <2> QED BY <1>5, <2>3, <2>4, <2>5, <2>6
<1>7. CASE pickup.kind = "IterationSettled" /\ Hold(w, "SaveSettled", pickup.job, version[w], NoTask)
  <2>1. pickup.job.iter = mine[w].iter /\ DOMAIN pickup.job.tasks = DOMAIN mine[w].tasks
    BY <1>1, <1>7, PickupsType DEF Extends
  <2>2. IsWorkOf(w, pickup.job.tasks, mine[w].tasks) /\ AreSound(pickup.job.tasks)
    BY <1>1, <1>2, <1>7, PickupIsWork
  <2> QED BY <1>5, <1>7, <2>1, <2>2
<1>8. CASE Rest(w)
  BY <1>8, RestHand DEF Rest
<1> QED BY <1>4, <1>6, <1>7, <1>8

\* Advancing picks in the iteration that was read, or plans the next one.
LEMMA AdvanceHand ==
    ASSUME IInv, ResultInv, NEW w \in Workers, AdvanceJobIteration(w)
    PROVE  ResultInv'
<1>1. pc[w] \in Reading /\ objects' = objects
  BY DEF AdvanceJobIteration, Reading
<1>2. CASE PickTask(w)
  BY <1>1, <1>2, PickHand
<1>3. CASE Hold(w, "SaveNewIteration", NewJob(w, mine[w].iter + 1), "New", NoTask)
  <2> DEFINE i == mine[w].iter + 1
  <2>1. Hold(w, "SaveNewIteration", NewJob(w, i), "New", NoTask)
    BY <1>3
  <2> HIDE DEF i
  <2> QED BY <1>1, <2>1, PlanHand DEF Planning
<1>4. CASE Rest(w)
  BY <1>1, <1>4, RestHand DEF Rest
<1> QED BY <1>2, <1>3, <1>4 DEF AdvanceJobIteration

\* What a write does to an iteration that is stored: it respects it, and what it adds nobody has
\* started.
LEMMA WriteRespects ==
    ASSUME IInv, CarriedInv, OrderInv, ResultInv, NEW w \in Workers, pc[w] \in Saving, IsSaveAllowed(w),
           Exists(mine[w].iter)
    PROVE  LET stored == objects[mine[w].iter].tasks
           IN /\ pc[w] \in Working /\ AreRespected(w, mine[w].tasks, stored)
              /\ \A t \in DOMAIN mine[w].tasks \ DOMAIN stored :
                    t \in created[w] /\ mine[w].tasks[t].owner = NoWorker
<1> DEFINE stored == objects[mine[w].iter].tasks
<1>1. WorkerInv(w) /\ HandInv(w) /\ CopyInOrder(w) /\ CopyInv(w)
  BY DEF IInv, ResultInv, OrderInv, CarriedInv
<1>2. pc[w] \in Working /\ version[w] = "Current"
  BY <1>1 DEF WorkerInv, IsSaveAllowed, Saving, Planning, Reading, Working
<1>3. AreRespected(w, mine[w].tasks, stored)
  BY <1>1, <1>2 DEF HandInv
<1>4. ASSUME NEW t \in DOMAIN mine[w].tasks, t \notin DOMAIN stored
      PROVE  t \in created[w] /\ mine[w].tasks[t].owner = NoWorker
  <2>1. t \in created[w]
    BY <1>1, <1>2, <1>4 DEF CopyInOrder
  <2>2. pc[w] = "SaveResult"
    BY <1>1, <2>1 DEF HandInv
  <2> QED BY <1>1, <1>4, <2>1, <2>2 DEF CopyInv, IsPlannedBy
<1> QED BY <1>2, <1>3, <1>4

\* So it leaves everybody else right about the store.
LEMMA WriteHand ==
    ASSUME IInv, CarriedInv, OrderInv, ResultInv, NEW w \in Workers, pc[w] \in Saving, IsSaveAllowed(w), Store(w)
    PROVE  /\ IsJob(mine[w]) /\ objects'[mine[w].iter] = mine[w] /\ HandInv(w) /\ AreSound(mine[w].tasks)
           /\ \A i \in Iterations : Exists(i)' => AreSound(objects'[i].tasks)
           /\ \A v \in Workers \ {w} :
                /\ pc'[v] = pc[v] /\ mine'[v] = mine[v] /\ task'[v] = task[v] /\ created'[v] = created[v]
                /\ version'[v] = IF version[v] = "Current" /\ mine[v].iter = mine[w].iter
                                 THEN "Stale" ELSE version[v]
                => HandInv(v)'
<1> DEFINE n == mine[w].iter
<1>1. /\ IsJob(mine[w]) /\ objects'[n] = mine[w]
      /\ \A i \in Iterations \ {n} : objects'[i] = objects[i]
  BY WriteEffect
<1>2. HandInv(w) /\ AreSound(mine[w].tasks) /\ mine[w] # Nothing
  <2>1. HandInv(w) /\ mine[w] # Nothing
    BY <1>1, JobIsSomething DEF ResultInv
  <2> QED BY <2>1 DEF HandInv
<1>3. \A i \in Iterations : Exists(i)' => AreSound(objects'[i].tasks)
  BY <1>1, <1>2 DEF ResultInv, Exists
<1>4. ASSUME NEW v \in Workers \ {w},
             pc'[v] = pc[v], mine'[v] = mine[v], task'[v] = task[v], created'[v] = created[v],
             version'[v] = IF version[v] = "Current" /\ mine[v].iter = n THEN "Stale" ELSE version[v]
      PROVE  HandInv(v)'
  <2>1. HandInv(v) /\ WorkerInv(v) /\ CopyInOrder(v)
    BY DEF IInv, ResultInv, OrderInv
  <2>2. CASE pc[v] \notin Reading \cup Working
    BY <1>4, <2>1, <2>2 DEF HandInv, Reading, Working, Saving, Planning
  <2>3. CASE pc[v] \in Reading \cup Working /\ mine[v].iter # n
    <3>1. mine[v].iter \in Iterations
      BY <2>1, <2>3, JobIsSomething DEF WorkerInv
    <3>2. objects'[mine[v].iter] = objects[mine[v].iter] /\ version'[v] = version[v]
      BY <1>1, <1>4, <2>3, <3>1
    <3> QED BY <1>4, <2>1, <3>2 DEF HandInv
  <2>4. CASE pc[v] \in Reading \cup Working /\ mine[v].iter = n
    <3> DEFINE S == objects[n].tasks
               M == mine[v].tasks
               T == mine[w].tasks
               t == task[v]
    <3>1. /\ version'[v] # "Current" /\ objects'[mine'[v].iter].tasks = T /\ objects[mine[v].iter].tasks = S
      BY <1>1, <1>4, <2>1, <2>4 DEF WorkerInv
    <3>2. Exists(n)
      BY <2>1, <2>4 DEF CopyInOrder
    <3>3. /\ AreRespected(w, T, S)
          /\ \A u \in DOMAIN T \ DOMAIN S : T[u].owner = NoWorker
      BY <3>2, WriteRespects
    <3>4. KnowsOwnResults(v, M, T)
      <4>1. KnowsOwnResults(v, M, S)
        BY <2>1, <2>4, <3>1 DEF HandInv
      <4> SUFFICES ASSUME NEW u \in DOMAIN T, T[u].owner = v, IsResult(T[u])
                   PROVE  u \in DOMAIN M /\ M[u].status = T[u].status
        BY DEF KnowsOwnResults
      <4>2. v # w /\ v # NoWorker
        BY WorkersAssumption
      <4> HIDE DEF S, T
      <4>3. u \in DOMAIN S
        BY <3>3, <4>2
      <4>4. Respects(w, T[u], S[u])
        BY <3>3, <4>3 DEF AreRespected
      <4>5. S[u].owner = v /\ T[u].status = S[u].status
        BY <4>2, <4>4 DEF Respects
      <4> QED BY <4>1, <4>3, <4>5 DEF KnowsOwnResults, IsResult
    <3>5. ASSUME pc[v] = "Execute", ~IsExpired(M[t])
          PROVE  T[t].status = "Started" /\ T[t].owner = v /\ T[t].expires = M[t].expires
      <4>1. S[t].status = "Started" /\ S[t].owner = v /\ S[t].expires = M[t].expires
        BY <2>1, <3>1, <3>5 DEF HandInv
      <4>2. t \in DOMAIN S
        BY <2>1, <2>4, <3>1, <3>5, Executing DEF CopyInOrder
      <4>3. ~IsExpired(S[t]) /\ v # w
        BY <3>5, <4>1 DEF IsExpired
      <4> QED BY <3>3, <4>1, <4>2, <4>3 DEF AreRespected, Respects
    <3> HIDE DEF S, M, T, t
    <3>6. mine'[v].tasks = M /\ task'[v] = t /\ mine[v].tasks = M /\ task[v] = t
      BY <1>4 DEF M, t
    <3> QED BY <1>4, <2>1, <2>4, <3>1, <3>4, <3>5, <3>6 DEF HandInv, Reading, Working, Planning
  <2> QED BY <2>2, <2>3, <2>4
<1> QED BY <1>1, <1>2, <1>3, <1>4

\* A worker whose write is acknowledged goes on with what is stored.
LEMMA SaveAcknowledgedHand ==
    ASSUME IInv, CarriedInv, OrderInv, ResultInv, NEW w \in Workers, SaveAcknowledged(w)
    PROVE  ResultInv'
<1> DEFINE place == AfterSave(w)
<1>1. place \in {"Advance", "Pick", "Execute", "Idle"} /\ (place = "Execute" => pc[w] = "SaveStart")
  BY DEF AfterSave
<1> HIDE DEF place
<1>2. /\ pc'[w] = place /\ mine'[w] = (IF place = "Idle" THEN Nothing ELSE mine[w]) /\ created'[w] = {}
      /\ task'[w] = (IF place = "Idle" THEN NoTask ELSE task[w])
  BY DEF SaveAcknowledged, IInv, TypeOK, place
<1>3. ASSUME NEW v \in Workers \ {w}
      PROVE  /\ pc'[v] = pc[v] /\ mine'[v] = mine[v] /\ task'[v] = task[v] /\ created'[v] = created[v]
             /\ version'[v] = IF version[v] = "Current" /\ mine[v].iter = mine[w].iter
                              THEN "Stale" ELSE version[v]
  BY <1>3 DEF SaveAcknowledged, OthersStale, IInv, TypeOK
<1>4. pc[w] \in Saving /\ IsSaveAllowed(w) /\ Store(w)
  BY DEF SaveAcknowledged
<1>5. /\ IsJob(mine[w]) /\ objects'[mine[w].iter] = mine[w] /\ HandInv(w) /\ AreSound(mine[w].tasks)
      /\ \A i \in Iterations : Exists(i)' => AreSound(objects'[i].tasks)
      /\ \A v \in Workers \ {w} : HandInv(v)'
  BY <1>3, <1>4, WriteHand
<1>6. HandInv(w)'
  <2>1. CASE place = "Idle"
    BY <1>2, <2>1 DEF HandInv, Planning, Reading, Working, Saving
  <2>2. CASE place # "Idle"
    <3>1. mine'[w] = mine[w] /\ task'[w] = task[w] /\ objects'[mine'[w].iter].tasks = mine[w].tasks
      BY <1>2, <1>5, <2>2
    <3>2. AreRespected(w, mine[w].tasks, mine[w].tasks) /\ KnowsOwnResults(w, mine[w].tasks, mine[w].tasks)
      BY StoredIsRespected, RespectKnowsResults
    <3>3. place = "Execute" => mine[w].tasks[task[w]].owner = w /\ mine[w].tasks[task[w]].status = "Started"
      BY <1>1, <1>5 DEF HandInv
    <3> QED BY <1>1, <1>2, <1>5, <2>2, <3>1, <3>2, <3>3 DEF HandInv, Planning, Reading, Working, Saving
  <2> QED BY <2>1, <2>2
<1> QED BY <1>5, <1>6 DEF ResultInv

\* A lost answer leaves the worker with the copy it wrote.
LEMMA SaveAnswerLostHand ==
    ASSUME IInv, CarriedInv, OrderInv, ResultInv, NEW w \in Workers, SaveAnswerLost(w)
    PROVE  ResultInv'
<1>1. ASSUME NEW v \in Workers \ {w}
      PROVE  /\ pc'[v] = pc[v] /\ mine'[v] = mine[v] /\ task'[v] = task[v] /\ created'[v] = created[v]
             /\ version'[v] = IF version[v] = "Current" /\ mine[v].iter = mine[w].iter
                              THEN "Stale" ELSE version[v]
  BY <1>1 DEF SaveAnswerLost, OthersStale, IInv, TypeOK
<1>2. /\ pc'[w] = pc[w] /\ mine'[w] = mine[w] /\ task'[w] = task[w] /\ created'[w] = created[w]
      /\ version'[w] = "Stale"
  BY DEF SaveAnswerLost, OthersStale, IInv, TypeOK
<1>3. pc[w] \in Saving /\ IsSaveAllowed(w) /\ Store(w)
  BY DEF SaveAnswerLost
<1>4. /\ IsJob(mine[w]) /\ objects'[mine[w].iter] = mine[w] /\ HandInv(w) /\ AreSound(mine[w].tasks)
      /\ \A i \in Iterations : Exists(i)' => AreSound(objects'[i].tasks)
      /\ \A v \in Workers \ {w} : HandInv(v)'
  BY <1>1, <1>3, WriteHand
<1>5. AreRespected(w, mine[w].tasks, mine[w].tasks) /\ KnowsOwnResults(w, mine[w].tasks, mine[w].tasks)
  BY StoredIsRespected, RespectKnowsResults
<1>6. pc[w] # "Execute" /\ objects'[mine'[w].iter].tasks = mine[w].tasks
  BY <1>2, <1>3, <1>4 DEF Saving
<1>7. HandInv(w)'
  BY <1>2, <1>4, <1>5, <1>6 DEF HandInv
<1> QED BY <1>4, <1>7 DEF ResultInv

\* A write that was given up may have been applied.
LEMMA SaveGivenUpHand ==
    ASSUME IInv, CarriedInv, OrderInv, ResultInv, NEW w \in Workers, SaveGivenUp(w)
    PROVE  ResultInv'
<1>1. pc'[w] = "Idle" /\ mine'[w] = Nothing
  BY DEF SaveGivenUp, IInv, TypeOK
<1>2. HandInv(w)'
  BY <1>1 DEF HandInv, Planning, Reading, Working, Saving
<1>3. CASE UNCHANGED objects /\ version' = [version EXCEPT ![w] = "New"]
  <2>1. OthersWait(w)
    BY <1>3 DEF SaveGivenUp, OthersWait, IInv, TypeOK
  <2> QED BY <1>2, <1>3, <2>1, OwnHandStep
<1>4. CASE IsSaveAllowed(w) /\ Store(w) /\ version' = [OthersStale(w) EXCEPT ![w] = "New"]
  <2>1. ASSUME NEW v \in Workers \ {w}
        PROVE  /\ pc'[v] = pc[v] /\ mine'[v] = mine[v] /\ task'[v] = task[v] /\ created'[v] = created[v]
               /\ version'[v] = IF version[v] = "Current" /\ mine[v].iter = mine[w].iter
                                THEN "Stale" ELSE version[v]
    BY <1>4, <2>1 DEF SaveGivenUp, OthersStale, IInv, TypeOK
  <2>2. pc[w] \in Saving
    BY DEF SaveGivenUp
  <2>3. /\ \A i \in Iterations : Exists(i)' => AreSound(objects'[i].tasks)
        /\ \A v \in Workers \ {w} : HandInv(v)'
    BY <1>4, <2>1, <2>2, WriteHand
  <2> QED BY <1>2, <2>3 DEF ResultInv
<1> QED BY <1>3, <1>4 DEF SaveGivenUp

\* Nor does a merge: the start or the result is carried over onto what is stored, and whatever else
\* the worker brings is not somebody else's by now.
LEMMA SaveRefusedHand ==
    ASSUME IInv, OrderInv, ResultInv, MergesTakeNothingBack, NEW w \in Workers, SaveRefused(w)
    PROVE  ResultInv'
<1> DEFINE Merge(i) == IF pc[w] = "SaveStart"
                       THEN MergePickedTask(objects[i], mine[w], w, task[w])
                       ELSE MergeProcessedTask(objects[i], mine[w], w, task[w])
<1>1. PICK i \in Iterations :
        /\ IsReadable(i)
        /\ \/ Hold(w, "Advance", objects[i], "Current", NoTask)
           \/ Hold(w, "Pick", objects[i], "Current", NoTask)
           \/ Rest(w)
           \/ /\ pc[w] \in {"SaveStart", "SaveResult"} /\ Merge(i).answer = "Merged"
              /\ mine' = [mine EXCEPT ![w] = Merge(i).job]
              /\ version' = [version EXCEPT ![w] = "Current"]
              /\ UNCHANGED <<pc, task, created>>
  BY DEF SaveRefused
<1>2. objects' = objects
  BY DEF SaveRefused
<1>3. CASE Hold(w, "Advance", objects[i], "Current", NoTask) \/ Hold(w, "Pick", objects[i], "Current", NoTask)
  BY <1>1, <1>2, <1>3, ReadHand DEF Reading
<1>4. CASE Rest(w)
  BY <1>2, <1>4, RestHand DEF Rest
<1>5. CASE /\ pc[w] \in {"SaveStart", "SaveResult"} /\ Merge(i).answer = "Merged"
           /\ mine' = [mine EXCEPT ![w] = Merge(i).job]
           /\ version' = [version EXCEPT ![w] = "Current"]
           /\ UNCHANGED <<pc, task, created>>
  <2> DEFINE merged == Merge(i).job
             t == task[w]
             own == mine[w].tasks[t]
  <2>1. /\ HandInv(w) /\ IsJob(mine[w]) /\ mine[w] # Nothing /\ IsJob(objects[i]) /\ objects[i].iter = i
        /\ AreSound(objects[i].tasks) /\ t \in DOMAIN mine[w].tasks
    BY <1>1, <1>5, JobIsSomething
       DEF IInv, TypeOK, WorkerInv, Working, ResultInv, IsReadable, IsNewest, IsClosed
  <2>2. /\ mine'[w] = merged /\ pc'[w] = pc[w] /\ created'[w] = created[w] /\ task'[w] = t
        /\ version'[w] = "Current" /\ OthersWait(w)
    BY <1>5 DEF IInv, TypeOK, OthersWait
  <2>3. /\ AreSound(mine[w].tasks) /\ own.owner = w /\ (pc[w] = "SaveStart" => own.status = "Started")
        /\ KnowsOwnResults(w, mine[w].tasks, objects[mine[w].iter].tasks)
        /\ created[w] # {} => pc[w] = "SaveResult" /\ t \in Planners /\ IsResult(own)
    BY <1>5, <2>1 DEF HandInv, Working, Saving
  <2>4. /\ merged.iter = i /\ AreRespected(w, merged.tasks, objects[i].tasks) /\ AreSound(merged.tasks)
        /\ merged.tasks[t].owner = w /\ (pc[w] = "SaveStart" => merged.tasks[t].status = "Started")
        /\ pc[w] = "SaveResult" /\ IsResult(own) => IsResult(merged.tasks[t])
    <3>1. CASE pc[w] = "SaveStart"
      <4>1. MergePickedTask(objects[i], mine[w], w, t).answer = "Merged"
            /\ merged = MergePickedTask(objects[i], mine[w], w, t).job
        BY <1>5, <3>1
      <4>2. objects[i].iter = mine[w].iter
        BY <4>1 DEF MergePickedTask, TaskStolen
      <4>3. Extends(merged, objects[i])
        BY <2>1, <4>1, MergePickedTaskType
      <4>4. /\ AreRespected(w, merged.tasks, objects[i].tasks) /\ AreSound(merged.tasks)
            /\ merged.tasks[t] = own
        BY <2>1, <2>3, <4>1, <4>2, MergePickedTaskRespects
      <4> QED BY <2>1, <2>3, <3>1, <4>3, <4>4 DEF Extends
    <3>2. CASE pc[w] = "SaveResult"
      <4>1. MergeProcessedTask(objects[i], mine[w], w, t).answer = "Merged"
            /\ merged = MergeProcessedTask(objects[i], mine[w], w, t).job
        BY <1>5, <3>2
      <4>2. Extends(merged, objects[i]) /\ objects[i].iter = mine[w].iter
        BY <2>1, <4>1, MergeProcessedTaskType
      <4>3. \A u \in (DOMAIN objects[i].tasks \cap CarriedOver(objects[i], mine[w], w)) \ {t} :
                ~OwnedByOther(objects[i].tasks[u], w)
        BY <2>1, <3>2, <4>2 DEF MergesTakeNothingBack
      <4>4. KnowsOwnResults(w, mine[w].tasks, objects[i].tasks)
        BY <2>1, <2>3, <4>2
      <4> HIDE DEF merged, Merge
      <4>5. /\ AreRespected(w, merged.tasks, objects[i].tasks) /\ AreSound(merged.tasks)
            /\ merged.tasks[t].owner = w
            /\ IsResult(own) => merged.tasks[t] = own
        BY <2>1, <2>3, <4>1, <4>3, <4>4, MergeProcessedTaskRespects
      <4> QED BY <2>1, <3>2, <4>2, <4>5 DEF Extends
    <3> QED BY <1>5, <3>1, <3>2
  <2> HIDE DEF merged, Merge
  <2>5. KnowsOwnResults(w, merged.tasks, objects[i].tasks)
    BY <2>4, RespectKnowsResults
  <2>6. HandInv(w)'
    BY <1>2, <1>5, <2>2, <2>3, <2>4, <2>5 DEF HandInv, Planning
  <2> QED BY <1>2, <2>2, <2>6, OwnHandStep
<1> QED BY <1>1, <1>3, <1>4, <1>5

\* An executor resolves its own tasks and adds new ones; it takes nothing back.
LEMMA ExecuteHand ==
    ASSUME IInv, ResultInv, NEW w \in Workers, pc[w] = "Execute",
           NEW place \in {"Execute", "SaveResult"}, NEW job, NEW added,
           job.iter = mine[w].iter, IsWorkOf(w, job.tasks, mine[w].tasks), AreSound(job.tasks),
           DOMAIN mine[w].tasks \ created[w] \subseteq DOMAIN job.tasks,
           job.tasks[task[w]].owner = w,
           place = "Execute" => job.tasks[task[w]].expires = mine[w].tasks[task[w]].expires,
           place = "Execute" /\ added # {} => task[w] \in Planners /\ job.tasks[task[w]].status # "Failed",
           place = "SaveResult" /\ added # {} => task[w] \in Planners /\ IsResult(job.tasks[task[w]]),
           \A t \in created[w] : IsPlannedBy(w, mine[w], t),
           pc' = [pc EXCEPT ![w] = place], mine' = [mine EXCEPT ![w] = job],
           created' = [created EXCEPT ![w] = added], UNCHANGED <<objects, version, task>>
    PROVE  ResultInv'
<1> DEFINE stored == objects[mine[w].iter].tasks
           M == mine[w].tasks
           t == task[w]
<1>1. /\ pc'[w] = place /\ mine'[w] = job /\ created'[w] = added /\ task'[w] = t
      /\ version'[w] = version[w] /\ OthersWait(w)
  BY DEF IInv, TypeOK, OthersWait
<1>2. /\ HandInv(w) /\ mine[w] # Nothing /\ AreSound(M) /\ KnowsOwnResults(w, M, stored)
      /\ version[w] = "Current" =>
            AreRespected(w, M, stored) /\ DOMAIN stored \subseteq DOMAIN M \ created[w]
  <2>1. HandInv(w) /\ mine[w] # Nothing
    BY Executing, JobIsSomething DEF ResultInv
  <2> QED BY <2>1, Executing DEF HandInv, Working
<1>3. \A u \in DOMAIN M : IsResult(M[u]) => u \in DOMAIN job.tasks
  <2> SUFFICES ASSUME NEW u \in DOMAIN M, IsResult(M[u]), u \in created[w]
               PROVE  FALSE
    OBVIOUS
  <2>1. M[u].owner = NoWorker
    BY DEF IsPlannedBy
  <2> QED BY <1>2, <2>1 DEF AreSound, IsSound, IsResult
<1>4. KnowsOwnResults(w, job.tasks, stored)
  BY <1>2, <1>3, WorkKnowsResults
<1>5. version[w] = "Current" => AreRespected(w, job.tasks, stored)
  BY <1>2, WorkIsRespectful
<1>6. place = "Execute" /\ ~IsExpired(job.tasks[t]) =>
        /\ stored[t].status = "Started" /\ stored[t].owner = w /\ stored[t].expires = job.tasks[t].expires
  <2> SUFFICES ASSUME place = "Execute", ~IsExpired(job.tasks[t])
               PROVE  stored[t].status = "Started" /\ stored[t].owner = w /\ stored[t].expires = job.tasks[t].expires
    OBVIOUS
  <2>1. ~IsExpired(M[t])
    BY DEF IsExpired
  <2> QED BY <1>2, <2>1 DEF HandInv
<1> HIDE DEF stored
<1>7. stored = objects'[job.iter].tasks
  BY DEF stored
<1>8. HandInv(w)'
  BY <1>1, <1>4, <1>5, <1>6, <1>7 DEF HandInv, Planning, Reading, Working, Saving
<1> QED BY <1>1, <1>8, OwnHandStep

\* What the executor knows of the copy it works on.
LEMMA ExecutingHand ==
    ASSUME IInv, CarriedInv, ResultInv, NEW w \in Workers, pc[w] = "Execute"
    PROVE  LET own == mine[w].tasks[task[w]]
           IN /\ IsJob(mine[w]) /\ AreSound(mine[w].tasks) /\ task[w] \in DOMAIN mine[w].tasks \ created[w]
              /\ own.owner = w /\ own.status \in {"Started", "Failed"} \cup Results
              /\ created[w] # {} => task[w] \in Planners /\ own.status # "Failed"
              /\ \A t \in created[w] : IsPlannedBy(w, mine[w], t)
<1>1. /\ HandInv(w) /\ IsJob(mine[w]) /\ mine[w] # Nothing /\ task[w] \in DOMAIN mine[w].tasks \ created[w]
      /\ w # NoWorker
  BY Executing, JobIsSomething, WorkersAssumption DEF ResultInv
<1>2. AreSound(mine[w].tasks) /\ mine[w].tasks[task[w]].owner = w
  BY <1>1 DEF HandInv
<1>3. IsSound(mine[w].tasks[task[w]])
  BY <1>1, <1>2 DEF AreSound
<1> QED BY <1>1, <1>2, <1>3 DEF HandInv, IsSound, CarriedInv, CopyInv

\* A task added through the handle waits to be started.
LEMMA AddTaskHand ==
    ASSUME IInv, CarriedInv, ResultInv, NEW w \in Workers, AddTask(w)
    PROVE  ResultInv'
<1>1. PICK t \in TaskIds \ InitialTasks :
        /\ IsFresh(t, mine[w].iter)
        /\ mine' = [mine EXCEPT ![w] = [mine[w] EXCEPT !.tasks = WithTask(mine[w].tasks, t, NewTask(t, w))]]
        /\ created' = [created EXCEPT ![w] = created[w] \cup {t}]
        /\ UNCHANGED <<objects, pc, version, task>>
  BY DEF AddTask, Change
<1> DEFINE tasks == WithTask(mine[w].tasks, t, NewTask(t, w))
           job == [mine[w] EXCEPT !.tasks = tasks]
           own == mine[w].tasks[task[w]]
<1>2. pc[w] = "Execute" /\ task[w] \in Planners /\ own.status # "Failed"
  BY DEF AddTask
<1>3. /\ IsJob(mine[w]) /\ AreSound(mine[w].tasks) /\ task[w] \in DOMAIN mine[w].tasks /\ own.owner = w
      /\ \A u \in created[w] : IsPlannedBy(w, mine[w], u)
  BY <1>2, ExecutingHand
<1>4. job.tasks = tasks /\ job.iter = mine[w].iter
  <2> HIDE DEF tasks
  <2> QED BY <1>3 DEF IsJob
<1>5. DOMAIN tasks = DOMAIN mine[w].tasks \cup {t} /\ t \notin DOMAIN mine[w].tasks
  BY <1>1 DEF WithTask, IsFresh
<1>6. tasks[t] = NewTask(t, w) /\ \A u \in DOMAIN mine[w].tasks : tasks[u] = mine[w].tasks[u]
  BY <1>5 DEF WithTask
<1>7. mine' = [mine EXCEPT ![w] = job] /\ pc' = [pc EXCEPT ![w] = "Execute"]
  BY <1>1, <1>2 DEF IInv, TypeOK
<1> HIDE DEF tasks, job
<1>8. IsSound(tasks[t])
  BY <1>6, NewTaskIsSound
<1>9. AreSound(tasks)
  BY <1>3, <1>5, <1>6, <1>8 DEF AreSound
<1>10. IsWorkOf(w, tasks, mine[w].tasks) /\ tasks[task[w]] = own
  BY <1>3, <1>6 DEF IsWorkOf, MayBecome
<1> QED BY <1>1, <1>2, <1>3, <1>4, <1>5, <1>7, <1>9, <1>10, ExecuteHand

\* The executor resolves a task t that its worker has started: the executed one, or another one.
ResolvesTask(w, t, job, added) ==
    /\ pc[w] = "Execute" /\ job.iter = mine[w].iter /\ IsResolvedBy(w, job.tasks, mine[w].tasks, t)
    /\ DOMAIN mine[w].tasks \ created[w] \subseteq DOMAIN job.tasks /\ added \subseteq created[w]
    /\ t = task[w] /\ added # {} => IsResult(job.tasks[t])
    /\ Change(w, job) /\ created' = [created EXCEPT ![w] = added]

Resolves(w) == \E t, job, added : ResolvesTask(w, t, job, added)

\* That takes nothing back.
LEMMA ResolveHand ==
    ASSUME IInv, CarriedInv, ResultInv, NEW w \in Workers, Resolves(w)
    PROVE  ResultInv'
<1> PICK t, job, added : ResolvesTask(w, t, job, added)
  BY DEF Resolves
<1>1. /\ pc[w] = "Execute" /\ job.iter = mine[w].iter /\ IsResolvedBy(w, job.tasks, mine[w].tasks, t)
      /\ DOMAIN mine[w].tasks \ created[w] \subseteq DOMAIN job.tasks /\ added \subseteq created[w]
      /\ t = task[w] /\ added # {} => IsResult(job.tasks[t])
      /\ Change(w, job) /\ created' = [created EXCEPT ![w] = added]
  BY DEF ResolvesTask
<1> DEFINE own == mine[w].tasks[task[w]]
           next == job.tasks[task[w]]
<1>2. /\ IsJob(mine[w]) /\ AreSound(mine[w].tasks) /\ task[w] \in DOMAIN mine[w].tasks \ created[w]
      /\ own.owner = w /\ (created[w] # {} => task[w] \in Planners /\ own.status # "Failed")
      /\ \A u \in created[w] : IsPlannedBy(w, mine[w], u)
  BY <1>1, ExecutingHand
<1>3. IsWorkOf(w, job.tasks, mine[w].tasks) /\ AreSound(job.tasks)
  BY <1>1, <1>2, ResolvingIsWork
<1>4. /\ next.owner = w /\ next.expires = own.expires
      /\ added # {} => next.status # "Failed"
  <2>1. CASE t = task[w]
    BY <1>1, <2>1 DEF IsResolvedBy, IsResult, Results
  <2>2. CASE t # task[w]
    BY <1>1, <1>2, <2>2 DEF IsResolvedBy
  <2> QED BY <2>1, <2>2
<1>5. /\ mine' = [mine EXCEPT ![w] = job] /\ UNCHANGED <<objects, version, task>>
      /\ pc' = [pc EXCEPT ![w] = "Execute"]
  BY <1>1 DEF Change, IInv, TypeOK
<1>6. added # {} => task[w] \in Planners
  BY <1>1, <1>2
<1> QED BY <1>1, <1>2, <1>3, <1>4, <1>5, <1>6, ExecuteHand

\* A task the handle completes or skips is one of those.
LEMMA EndTaskResolves ==
    ASSUME IInv, CarriedInv, ResultInv, NEW w \in Workers, pc[w] = "Execute",
           NEW t \in DOMAIN mine[w].tasks, NEW status \in Results,
           mine[w].tasks[t].status = "Started", mine[w].tasks[t].owner = w,
           Change(w, [mine[w] EXCEPT !.tasks[t] = Ended(@, status)]), UNCHANGED created
    PROVE  Resolves(w)
<1> DEFINE job == [mine[w] EXCEPT !.tasks[t] = Ended(@, status)]
<1>1. IsJob(mine[w]) /\ status \in TaskStatus
  BY Executing DEF Results, TaskStatus, Skipped
<1>2. job.iter = mine[w].iter /\ DOMAIN job.tasks = DOMAIN mine[w].tasks
  BY <1>1, EndTaskType, EndTaskKeepsTasks DEF Extends
<1>3. IsResolvedBy(w, job.tasks, mine[w].tasks, t) /\ job.tasks[t].status = status
  BY <1>1, EndingResolves
<1>4. Change(w, job) /\ created' = [created EXCEPT ![w] = created[w]]
  BY DEF IInv, TypeOK
<1> HIDE DEF job
<1>5. ResolvesTask(w, t, job, created[w])
  BY <1>2, <1>3, <1>4 DEF ResolvesTask, IsResult
<1> QED BY <1>5 DEF Resolves

\* complete_task of the handle asks for the owner, and what is started has one.
LEMMA CompleteTaskResolves ==
    ASSUME IInv, CarriedInv, ResultInv, NEW w \in Workers, CompleteTask(w)
    PROVE  Resolves(w)
<1>1. PICK t \in DOMAIN mine[w].tasks :
        /\ ~OwnedByOther(mine[w].tasks[t], w) /\ CanComplete(mine[w].tasks[t])
        /\ Change(w, [mine[w] EXCEPT !.tasks[t] = Ended(@, "Completed")])
  BY DEF CompleteTask
<1>2. pc[w] = "Execute" /\ UNCHANGED created
  BY DEF CompleteTask
<1>3. AreSound(mine[w].tasks)
  BY <1>2, ExecutingHand
<1>4. mine[w].tasks[t].status = "Started" /\ mine[w].tasks[t].owner = w
  BY <1>1, <1>3 DEF AreSound, IsSound, OwnedByOther, CanComplete
<1> QED BY <1>1, <1>2, <1>4, EndTaskResolves DEF Results

\* skip_task_branch of the handle names the executed task, which is the worker's own.
LEMMA SkipTaskBranchResolves ==
    ASSUME IInv, CarriedInv, ResultInv, NEW w \in Workers, SkipTaskBranch(w)
    PROVE  Resolves(w)
<1>1. /\ pc[w] = "Execute" /\ UNCHANGED created /\ CanSkip(mine[w].tasks[task[w]])
      /\ Change(w, [mine[w] EXCEPT !.tasks[task[w]] = Ended(@, "SkippedByExecutor")])
  BY DEF SkipTaskBranch
<1>2. /\ task[w] \in DOMAIN mine[w].tasks /\ mine[w].tasks[task[w]].owner = w
      /\ mine[w].tasks[task[w]].status \in {"Started", "Failed"} \cup Results
  BY <1>1, ExecutingHand
<1>3. mine[w].tasks[task[w]].status = "Started"
  BY <1>1, <1>2 DEF CanSkip, CanComplete, Results
<1> QED BY <1>1, <1>2, <1>3, EndTaskResolves DEF Results

\* So does fail_task of the handle, which rolls back what the execution added if it fails itself.
LEMMA FailTaskResolves ==
    ASSUME IInv, CarriedInv, ResultInv, NEW w \in Workers, FailTaskByHandle(w)
    PROVE  Resolves(w)
<1>1. PICK t \in DOMAIN mine[w].tasks, retry \in {"WhileBudgetLasts", "Never"} :
        LET rolledBack == IF t = task[w] THEN created[w] ELSE {}
        IN /\ ~OwnedByOther(mine[w].tasks[t], w) /\ CanFail(mine[w].tasks[t])
           /\ Change(w, FailTask(mine[w], t, retry, rolledBack))
           /\ created' = [created EXCEPT ![w] = created[w] \ rolledBack]
  BY DEF FailTaskByHandle
<1> DEFINE rolledBack == IF t = task[w] THEN created[w] ELSE {}
           job == FailTask(mine[w], t, retry, rolledBack)
           added == created[w] \ rolledBack
<1>2. pc[w] = "Execute"
  BY DEF FailTaskByHandle
<1>3. /\ IsJob(mine[w]) /\ AreSound(mine[w].tasks) /\ task[w] \in DOMAIN mine[w].tasks \ created[w]
      /\ \A u \in created[w] : IsPlannedBy(w, mine[w], u)
  BY <1>2, ExecutingHand
<1>4. mine[w].tasks[t].status = "Started" /\ mine[w].tasks[t].owner = w
  BY <1>1, <1>3 DEF AreSound, IsSound, OwnedByOther, CanFail
<1>5. t \notin rolledBack /\ rolledBack \subseteq created[w] /\ (t = task[w] => added = {})
  BY <1>3
<1>6. Change(w, job) /\ created' = [created EXCEPT ![w] = added]
  BY <1>1
<1> HIDE DEF rolledBack
<1>7. IsResolvedBy(w, job.tasks, mine[w].tasks, t)
  BY <1>3, <1>4, <1>5, FailingResolves
<1>8. job.iter = mine[w].iter /\ DOMAIN job.tasks = DOMAIN mine[w].tasks \ rolledBack
  <2>1. retry \in {"WhileBudgetLasts", "Never"}
    BY <1>1
  <2>2. KeepsBut(rolledBack, job, mine[w])
    BY <1>3, <2>1, FailTaskType
  <2> HIDE DEF job
  <2> QED BY <2>2 DEF KeepsBut
<1>9. added \subseteq created[w] /\ DOMAIN mine[w].tasks \ created[w] \subseteq DOMAIN job.tasks
  BY <1>5, <1>8
<1> HIDE DEF job, added
<1>10. ResolvesTask(w, t, job, added)
  BY <1>2, <1>5, <1>6, <1>7, <1>8, <1>9 DEF ResolvesTask
<1> QED BY <1>10 DEF Resolves

\* Moving the start of the next iteration touches no task.
LEMMA SetNextStartAtHand ==
    ASSUME IInv, CarriedInv, ResultInv, NEW w \in Workers, SetNextStartAt(w)
    PROVE  ResultInv'
<1>1. PICK delay \in StartDelays : Change(w, [mine[w] EXCEPT !.next = delay])
  BY DEF SetNextStartAt
<1> DEFINE job == [mine[w] EXCEPT !.next = delay]
           own == mine[w].tasks[task[w]]
<1>2. pc[w] = "Execute" /\ UNCHANGED created
  BY DEF SetNextStartAt
<1>3. /\ IsJob(mine[w]) /\ AreSound(mine[w].tasks) /\ own.owner = w
      /\ created[w] # {} => task[w] \in Planners /\ own.status # "Failed"
      /\ \A u \in created[w] : IsPlannedBy(w, mine[w], u)
  BY <1>2, ExecutingHand
<1>4. job.tasks = mine[w].tasks /\ job.iter = mine[w].iter
  BY <1>3 DEF IsJob
<1>5. IsWorkOf(w, mine[w].tasks, mine[w].tasks)
  BY DEF IsWorkOf, MayBecome
<1>6. /\ mine' = [mine EXCEPT ![w] = job] /\ UNCHANGED <<objects, version, task>>
      /\ pc' = [pc EXCEPT ![w] = "Execute"] /\ created' = [created EXCEPT ![w] = created[w]]
  BY <1>1, <1>2 DEF Change, IInv, TypeOK
<1> HIDE DEF job
<1> QED BY <1>2, <1>3, <1>4, <1>5, <1>6, ExecuteHand

\* The outcome of an executor resolves the executed task, unless its executor has done so, and what
\* the execution added is kept only beside a result.
LEMMA AppliedOutcomeHand ==
    ASSUME IInv, CarriedInv, ResultInv, NEW w \in Workers, pc[w] = "Execute", NEW outcome
    PROVE  LET applied == AppliedOutcome(w, outcome)
           IN /\ IsWorkOf(w, applied.tasks, mine[w].tasks) /\ AreSound(applied.tasks)
              /\ applied.tasks[task[w]].owner = w
              /\ created[w] \cap DOMAIN applied.tasks # {} => IsResult(applied.tasks[task[w]])
              /\ applied = mine[w] \/ IsResolvedBy(w, applied.tasks, mine[w].tasks, task[w])
<1> DEFINE job == mine[w]
           t == task[w]
           own == job.tasks[t]
           applied == AppliedOutcome(w, outcome)
<1>1. /\ IsJob(job) /\ AreSound(job.tasks) /\ t \in DOMAIN job.tasks \ created[w] /\ own.owner = w
      /\ own.status \in {"Started", "Failed"} \cup Results
      /\ created[w] # {} => own.status # "Failed"
  BY ExecutingHand
<1>2. \/ applied = job /\ own.status # "Started"
      \/ /\ own.status = "Started"
         /\ \E status \in Results : applied = [job EXCEPT !.tasks[t] = Ended(@, status)]
      \/ /\ own.status = "Started"
         /\ \E retry \in {"Never", "WhileBudgetLasts"} : applied = FailTask(job, t, retry, created[w])
  <2>1. \/ applied = job /\ IsResolved(own)
        \/ /\ CanComplete(own) /\ applied \in {[job EXCEPT !.tasks[t] = Ended(@, "Completed")],
                                               [job EXCEPT !.tasks[t] = Ended(@, "SkippedByExecutor")]}
        \/ /\ CanSkip(own) /\ applied = [job EXCEPT !.tasks[t] = Ended(@, "SkippedByExecutor")]
        \/ CanFail(own) /\ applied = FailTask(job, t, "Never", created[w])
        \/ ~IsResolved(own) /\ applied = FailTask(job, t, "WhileBudgetLasts", created[w])
    BY DEF AppliedOutcome
  <2>2. /\ IsResolved(own) => own.status # "Started"
        /\ CanComplete(own) => own.status = "Started"
        /\ CanSkip(own) => own.status = "Started"
        /\ CanFail(own) => own.status = "Started"
        /\ ~IsResolved(own) => own.status = "Started"
    BY <1>1 DEF IsResolved, CanComplete, CanSkip, CanFail, Skipped, Results
  <2> HIDE DEF applied, own
  <2> QED BY <2>1, <2>2 DEF Results
<1> HIDE DEF applied
<1>3. CASE applied = job /\ own.status # "Started"
  <2>1. IsWorkOf(w, applied.tasks, job.tasks)
    BY <1>3 DEF IsWorkOf, MayBecome
  <2>2. created[w] # {} => IsResult(own)
    BY <1>1, <1>3 DEF IsResult
  <2> QED BY <1>1, <1>3, <2>1, <2>2 DEF applied
<1>4. ASSUME IsResolvedBy(w, applied.tasks, job.tasks, t),
             created[w] \cap DOMAIN applied.tasks # {} => IsResult(applied.tasks[t])
      PROVE  /\ IsWorkOf(w, applied.tasks, job.tasks) /\ AreSound(applied.tasks)
             /\ applied.tasks[t].owner = w
             /\ created[w] \cap DOMAIN applied.tasks # {} => IsResult(applied.tasks[t])
  BY <1>1, <1>4, ResolvingIsWork DEF IsResolvedBy
<1>5. ASSUME own.status = "Started", NEW status \in Results, applied = [job EXCEPT !.tasks[t] = Ended(@, status)]
      PROVE  IsResolvedBy(w, applied.tasks, job.tasks, t) /\ IsResult(applied.tasks[t])
  BY <1>1, <1>5, EndingResolves DEF IsResult
<1>6. ASSUME own.status = "Started", NEW retry \in {"Never", "WhileBudgetLasts"},
             applied = FailTask(job, t, retry, created[w])
      PROVE  IsResolvedBy(w, applied.tasks, job.tasks, t) /\ created[w] \cap DOMAIN applied.tasks = {}
  <2>1. IsResolvedBy(w, applied.tasks, job.tasks, t)
    BY <1>1, <1>6, FailingResolves
  <2>2. KeepsBut(created[w], applied, job)
    BY <1>1, <1>6, FailTaskType
  <2> QED BY <2>1, <2>2 DEF KeepsBut
<1> QED BY <1>2, <1>3, <1>4, <1>5, <1>6 DEF applied

\* The result of an execution is put together from the worker's own copy.
LEMMA ExecutorReturnsHand ==
    ASSUME IInv, CarriedInv, ResultInv, NEW w \in Workers, ExecutorReturns(w)
    PROVE  ResultInv'
<1>1. PICK outcome \in Outcomes :
        LET applied == AppliedOutcome(w, outcome)
        IN /\ mine' = [mine EXCEPT ![w] = TrySettleIteration(applied).job]
           /\ created' = [created EXCEPT ![w] = created[w] \cap DOMAIN applied.tasks]
  BY DEF ExecutorReturns
<1> DEFINE applied == AppliedOutcome(w, outcome)
           job == TrySettleIteration(applied).job
           added == created[w] \cap DOMAIN applied.tasks
           t == task[w]
<1>2. pc[w] = "Execute"
  BY DEF ExecutorReturns
<1>3. /\ AreSound(mine[w].tasks) /\ t \in DOMAIN mine[w].tasks \ created[w]
      /\ created[w] # {} => t \in Planners
      /\ \A u \in created[w] : IsPlannedBy(w, mine[w], u)
  BY <1>2, ExecutingHand
<1>4. /\ IsJob(applied) /\ applied.iter = mine[w].iter
      /\ DOMAIN applied.tasks \in {DOMAIN mine[w].tasks, DOMAIN mine[w].tasks \ created[w]}
  BY <1>2, AppliedOutcomeType
<1>5. /\ IsWorkOf(w, applied.tasks, mine[w].tasks) /\ AreSound(applied.tasks)
      /\ applied.tasks[t].owner = w
      /\ added # {} => IsResult(applied.tasks[t])
  BY <1>2, AppliedOutcomeHand
<1>6. /\ mine' = [mine EXCEPT ![w] = job] /\ created' = [created EXCEPT ![w] = added]
      /\ pc' = [pc EXCEPT ![w] = "SaveResult"] /\ UNCHANGED <<objects, version, task>>
  BY <1>1 DEF ExecutorReturns
<1> HIDE DEF applied
<1>7. job.iter = mine[w].iter /\ DOMAIN job.tasks = DOMAIN applied.tasks
  BY <1>4, TrySettleIterationType DEF Extends
<1>8. IsWorkOf(w, job.tasks, applied.tasks) /\ AreSound(job.tasks)
  BY <1>4, <1>5, SettlingIsWork
<1> HIDE DEF job
<1>9. IsWorkOf(w, job.tasks, mine[w].tasks)
  BY <1>5, <1>7, <1>8, WorkIsTransitive
<1>10. t \in DOMAIN applied.tasks /\ DOMAIN mine[w].tasks \ created[w] \subseteq DOMAIN job.tasks
  BY <1>3, <1>4, <1>7
<1>11. MayBecome(w, job.tasks[t], applied.tasks[t])
  BY <1>7, <1>8, <1>10 DEF IsWorkOf
<1>12. job.tasks[t].owner = w /\ (IsResult(applied.tasks[t]) => IsResult(job.tasks[t]))
  BY <1>5, <1>11 DEF MayBecome, IsDecided, IsResult
<1>13. added # {} => t \in Planners /\ IsResult(job.tasks[t])
  BY <1>3, <1>5, <1>12
<1> HIDE DEF added
<1> QED BY <1>2, <1>3, <1>6, <1>7, <1>8, <1>9, <1>10, <1>12, <1>13, ExecuteHand

\* Time brings every deadline closer in the store and in every copy alike.
LEMMA TickHand ==
    ASSUME IInv, OrderInv, ResultInv, Tick
    PROVE  ResultInv'
<1>1. /\ \A i \in Iterations : objects'[i] = IF Exists(i) THEN Elapse(objects[i]) ELSE Nothing
      /\ \A w \in Workers : mine'[w] = IF mine[w] # Nothing THEN Elapse(mine[w]) ELSE Nothing
      /\ pc' = pc /\ created' = created /\ task' = task /\ version' = version
  BY DEF Tick
<1>2. \A i \in Iterations : Exists(i)' => AreSound(objects'[i].tasks)
  <2> SUFFICES ASSUME NEW i \in Iterations, Exists(i)'
               PROVE  AreSound(objects'[i].tasks)
    OBVIOUS
  <2>1. Exists(i) /\ objects'[i] = Elapse(objects[i])
    BY <1>1 DEF Exists
  <2>2. IsJob(objects[i]) /\ AreSound(objects[i].tasks)
    BY <2>1 DEF IInv, TypeOK, ResultInv
  <2> QED BY <2>1, <2>2, ElapseIsSound
<1>3. ASSUME NEW w \in Workers
      PROVE  HandInv(w)'
  <2>1. HandInv(w) /\ WorkerInv(w) /\ CopyInOrder(w) /\ (mine[w] # Nothing => IsJob(mine[w]))
    BY DEF IInv, TypeOK, OrderInv, ResultInv
  <2>2. CASE mine[w] = Nothing
    <3>1. mine'[w] = Nothing /\ pc'[w] \notin Planning \cup Reading \cup Working
      BY <1>1, <2>1, <2>2, JobIsSomething DEF WorkerInv
    <3> QED BY <3>1 DEF HandInv, Planning, Reading, Working, Saving
  <2>3. CASE mine[w] # Nothing
    <3> DEFINE M == mine[w].tasks
               M2 == mine'[w].tasks
               S == objects[mine[w].iter].tasks
               S2 == objects'[mine[w].iter].tasks
               t == task[w]
    <3>1. mine'[w] = Elapse(mine[w]) /\ IsJob(mine[w])
      BY <1>1, <2>1, <2>3
    <3>2. mine'[w].iter = mine[w].iter /\ DOMAIN M2 = DOMAIN M
      BY <3>1, ElapseType DEF Extends
    <3>3. AreSound(M) /\ AreSound(M2)
      BY <2>1, <2>3, <3>1, ElapseIsSound DEF HandInv
    <3>4. \A u \in DOMAIN M : /\ M2[u].status = M[u].status /\ M2[u].owner = M[u].owner
                              /\ M2[u].expires = Closer(M[u].expires)
      BY <3>1, ElapseEffect
    <3>5. ASSUME pc[w] \in Reading \cup Working
          PROVE  /\ AreRespected(w, M, S) => AreRespected(w, M2, S2)
                 /\ KnowsOwnResults(w, M, S) => KnowsOwnResults(w, M2, S2)
                 /\ t \in DOMAIN S => /\ S2[t].status = S[t].status /\ S2[t].owner = S[t].owner
                                      /\ S2[t].expires = Closer(S[t].expires)
      <4> DEFINE i == mine[w].iter
      <4>1. Exists(i) /\ i \in Iterations
        BY <2>1, <3>1, <3>5, JobIsSomething DEF CopyInOrder
      <4>2. IsJob(objects[i]) /\ objects'[i] = Elapse(objects[i])
        BY <1>1, <4>1 DEF IInv, TypeOK
      <4>3. /\ AreRespected(w, M, S) => AreRespected(w, M2, S2)
            /\ KnowsOwnResults(w, M, S) => KnowsOwnResults(w, M2, S2)
        BY <3>1, <4>2, ElapseRespects
      <4>4. t \in DOMAIN S => /\ S2[t].status = S[t].status /\ S2[t].owner = S[t].owner
                              /\ S2[t].expires = Closer(S[t].expires)
        BY <4>2, ElapseEffect
      <4> QED BY <4>3, <4>4
    <3>6. pc[w] \in {"SaveStart", "Execute", "SaveResult"} => t \in DOMAIN M
      BY <2>1 DEF WorkerInv
    <3>7. pc[w] = "Execute" => t \in DOMAIN S
      BY <2>1, Executing DEF CopyInOrder, Working
    <3> HIDE DEF M, M2, S, S2
    <3>8. ASSUME pc[w] = "Execute", ~IsExpired(M2[t])
          PROVE  S2[t].status = "Started" /\ S2[t].owner = w /\ S2[t].expires = M2[t].expires
      <4>1. ~IsExpired(M[t])
        BY <3>4, <3>6, <3>8 DEF IsExpired, Has_Come, Closer
      <4>2. S[t].status = "Started" /\ S[t].owner = w /\ S[t].expires = M[t].expires
        BY <2>1, <3>8, <4>1 DEF HandInv, M, S
      <4> QED BY <3>4, <3>5, <3>6, <3>7, <3>8, <4>2 DEF Working
    <3>9. /\ mine'[w].tasks = M2 /\ objects'[mine'[w].iter].tasks = S2
          /\ mine[w].tasks = M /\ objects[mine[w].iter].tasks = S
          /\ pc'[w] = pc[w] /\ task'[w] = t /\ created'[w] = created[w] /\ version'[w] = version[w]
      BY <1>1, <3>2 DEF M, M2, S, S2
    <3>10. /\ pc[w] \in Planning => DOMAIN M2 = InitialTasks
           /\ pc[w] \in Reading \cup Working /\ version[w] = "Current" => AreRespected(w, M2, S2)
           /\ pc[w] \in Reading \cup Working => KnowsOwnResults(w, M2, S2)
      BY <2>1, <2>3, <3>2, <3>5, <3>9 DEF HandInv
    <3>11. /\ pc[w] \in {"SaveStart", "Execute", "SaveResult"} => M2[t].owner = w
           /\ pc[w] = "SaveStart" => M2[t].status = "Started"
           /\ pc[w] = "Execute" /\ created[w] # {} => t \in Planners /\ M2[t].status # "Failed"
           /\ pc[w] \in Saving /\ created[w] # {} =>
                pc[w] = "SaveResult" /\ t \in Planners /\ IsResult(M2[t])
      BY <2>1, <3>4, <3>6, <3>9 DEF HandInv, IsResult
    <3> HIDE DEF t
    <3> QED BY <3>3, <3>8, <3>9, <3>10, <3>11 DEF HandInv
  <2> QED BY <2>2, <2>3
<1> QED BY <1>2, <1>3 DEF ResultInv

\* Nothing is stored and nothing is held at first.
LEMMA InitialHand == Init => ResultInv
BY DEF Init, ResultInv, HandInv, Exists, Planning, Reading, Working, Saving

\* Every step keeps what is stored, as long as no merge overwrites what somebody else has by now.
LEMMA InductiveHand ==
    IInv /\ CarriedInv /\ OrderInv /\ ResultInv /\ MergesTakeNothingBack /\ [Next]_vars => ResultInv'
<1> SUFFICES ASSUME IInv, CarriedInv, OrderInv, ResultInv, MergesTakeNothingBack, [Next]_vars
             PROVE  ResultInv'
  OBVIOUS
<1>1. CASE UNCHANGED vars
  BY <1>1 DEF vars, ResultInv, HandInv, Exists
<1>2. CASE Tick
  BY <1>2, TickHand
<1>3. ASSUME NEW w \in Workers, GetJob(w)
      PROVE  ResultInv'
  <2>1. PICK i \in Iterations : IsReadable(i) /\ Hold(w, "Advance", objects[i], "Current", NoTask)
    BY <1>3 DEF GetJob
  <2> QED BY <1>3, <2>1, ReadHand DEF GetJob, Reading
<1>4. ASSUME NEW w \in Workers, CreateNewJob(w)
      PROVE  ResultInv'
  BY <1>4, PlanHand DEF CreateNewJob, Planning
<1>5. ASSUME NEW w \in Workers, PickInNewIteration(w)
      PROVE  ResultInv'
  BY <1>5, RestHand, PickHand DEF PickInNewIteration, Rest, Reading
<1>6. ASSUME NEW w \in Workers, Step(w)
      PROVE  ResultInv'
  BY <1>3, <1>4, <1>5, <1>6, AdvanceHand, SaveAcknowledgedHand, SaveRefusedHand, ExecutorReturnsHand DEF Step
<1>7. ASSUME NEW w \in Workers, Handle(w)
      PROVE  ResultInv'
  BY <1>7, AddTaskHand, CompleteTaskResolves, FailTaskResolves, SkipTaskBranchResolves, ResolveHand, SetNextStartAtHand
  DEF Handle
<1>8. ASSUME NEW w \in Workers, ReleasedByDeadline(w) \/ Fault(w)
      PROVE  ResultInv'
  BY <1>8, RestHand, SaveAnswerLostHand, SaveGivenUpHand DEF Fault, ReleasedByDeadline, Rest, Crash
<1> QED BY <1>1, <1>2, <1>6, <1>7, <1>8 DEF Next

\* What is held takes nothing back of what is stored, in every behaviour in which no merge does.
LEMMA ResultInvariance == Spec /\ []MergesTakeNothingBack => []ResultInv
BY InitialHand, InductiveHand, Invariance, CarriedInvariance, OrderInvariance, PTL DEF Spec

\* A stored result is neither executed again nor overwritten (start_task,
\* merge_with_picked_task, merge_with_processed_task), unless a merge brings a task back that
\* another worker has taken over.
THEOREM ResultsAreFinal == Spec /\ []MergesTakeNothingBack => ResultIsFinal
<1>1. IInv /\ CarriedInv /\ OrderInv /\ ResultInv /\ [Next]_vars =>
        [\A i \in Iterations : Exists(i) =>
            \A t \in DOMAIN objects[i].tasks :
                objects[i].tasks[t].status \in {"Completed", "SkippedByExecutor"} =>
                    /\ t \in DOMAIN objects'[i].tasks
                    /\ objects'[i].tasks[t].status = objects[i].tasks[t].status]_objects
  <2> SUFFICES ASSUME IInv, CarriedInv, OrderInv, ResultInv, [Next]_vars, NEW i \in Iterations, Exists(i),
                      NEW t \in DOMAIN objects[i].tasks,
                      objects[i].tasks[t].status \in {"Completed", "SkippedByExecutor"}
               PROVE  /\ t \in DOMAIN objects'[i].tasks
                      /\ objects'[i].tasks[t].status = objects[i].tasks[t].status
    OBVIOUS
  <2>1. CASE objects' = objects
    BY <2>1
  <2>2. CASE objects' = [k \in Iterations |-> IF Exists(k) THEN Elapse(objects[k]) ELSE Nothing]
    <3>1. IsJob(objects[i]) /\ objects'[i] = Elapse(objects[i])
      BY <2>2 DEF IInv, TypeOK
    <3> QED BY <3>1, ElapseType, ElapseEffect
  <2>3. CASE \E w \in Workers : pc[w] \in Saving /\ IsSaveAllowed(w) /\ Store(w)
    <3>1. PICK w \in Workers : pc[w] \in Saving /\ IsSaveAllowed(w) /\ Store(w)
      BY <2>3
    <3>2. CASE i # mine[w].iter
      BY <3>1, <3>2, WriteEffect
    <3>3. CASE i = mine[w].iter
      <4>1. objects'[i] = mine[w]
        BY <3>1, <3>3, WriteEffect
      <4>2. AreRespected(w, mine[w].tasks, objects[i].tasks)
        BY <3>1, <3>3, WriteRespects
      <4> QED BY <4>1, <4>2 DEF AreRespected, Respects, IsResult, Results
    <3> QED BY <3>2, <3>3
  <2> QED BY <2>1, <2>2, <2>3, StoreEffect
<1> QED BY <1>1, Invariance, CarriedInvariance, OrderInvariance, ResultInvariance, PTL DEF Spec, ResultIsFinal

\* No two workers execute one task within its deadline (check_task_stolen, check_availability_at):
\* a worker whose deadline has not passed has its start in the store.
THEOREM OneExecutorAtATime == Spec /\ []MergesTakeNothingBack => []OneExecutorWithinDeadline
<1>1. ResultInv => OneExecutorWithinDeadline
  <2> SUFFICES ASSUME ResultInv, NEW v \in Workers, NEW w \in Workers,
                      pc[v] = "Execute", pc[w] = "Execute", mine[v].iter = mine[w].iter, task[v] = task[w],
                      ~IsExpired(mine[v].tasks[task[v]]), ~IsExpired(mine[w].tasks[task[w]])
               PROVE  v = w
    BY DEF OneExecutorWithinDeadline
  <2>1. /\ objects[mine[v].iter].tasks[task[v]].owner = v
        /\ objects[mine[w].iter].tasks[task[w]].owner = w
    BY DEF ResultInv, HandInv
  <2> QED BY <2>1
<1> QED BY <1>1, ResultInvariance, PTL

\* A write leaves the planner beside what it added.
LEMMA WritePlanned ==
    ASSUME IInv, CarriedInv, OrderInv, ResultInv, AddedTaskHasPlanner,
           NEW w \in Workers, pc[w] \in Saving, IsSaveAllowed(w), Store(w)
    PROVE  AddedTaskHasPlanner'
<1> DEFINE n == mine[w].iter
           T == mine[w].tasks
           S == objects[n].tasks
<1>1. /\ IsJob(mine[w]) /\ n \in Iterations /\ objects'[n] = mine[w]
      /\ \A i \in Iterations \ {n} : objects'[i] = objects[i]
  BY WriteEffect, JobIsSomething
<1>2. HandInv(w) /\ WorkerInv(w)
  BY DEF IInv, ResultInv
<1>3. ASSUME DOMAIN T \ InitialTasks # {}
      PROVE  \E t \in Planners \cap DOMAIN T : T[t].status \in {"Completed", "SkippedByExecutor"}
  <2>1. Exists(n)
    <3> SUFFICES ASSUME ~Exists(n) PROVE FALSE
      OBVIOUS
    <3>1. pc[w] \in Planning
      BY <1>2 DEF WorkerInv, IsSaveAllowed, Saving, Planning, Reading, Working, IsOpen
    <3> QED BY <1>2, <1>3, <3>1 DEF HandInv
  <2>2. /\ AreRespected(w, T, S) /\ \A t \in DOMAIN T \ DOMAIN S : t \in created[w]
    BY <2>1, WriteRespects
  <2>3. CASE DOMAIN S \ InitialTasks # {}
    <3>1. PICK t \in Planners \cap DOMAIN S : S[t].status \in {"Completed", "SkippedByExecutor"}
      BY <1>1, <2>1, <2>3 DEF AddedTaskHasPlanner
    <3>2. t \in DOMAIN T /\ T[t].status = S[t].status
      BY <2>2, <3>1 DEF AreRespected, Respects, IsResult, Results
    <3> QED BY <3>1, <3>2
  <2>4. CASE DOMAIN S \ InitialTasks = {}
    <3>1. created[w] # {}
      BY <1>3, <2>2, <2>4
    <3>2. pc[w] = "SaveResult" /\ task[w] \in Planners /\ IsResult(T[task[w]])
      BY <1>2, <3>1 DEF HandInv
    <3>3. task[w] \in DOMAIN T
      BY <1>2, <3>2 DEF WorkerInv
    <3> QED BY <3>2, <3>3 DEF IsResult, Results
  <2> QED BY <2>3, <2>4
<1>4. ASSUME NEW i \in Iterations, Exists(i)', DOMAIN objects'[i].tasks \ InitialTasks # {}
      PROVE  \E t \in Planners \cap DOMAIN objects'[i].tasks :
                objects'[i].tasks[t].status \in {"Completed", "SkippedByExecutor"}
  <2>1. CASE i = n
    BY <1>1, <1>3, <1>4, <2>1
  <2>2. CASE i # n
    BY <1>1, <1>4, <2>2 DEF AddedTaskHasPlanner, Exists
  <2> QED BY <2>1, <2>2
<1> QED BY <1>4 DEF AddedTaskHasPlanner

\* Time changes no status.
LEMMA ElapsePlanned ==
    ASSUME IInv, AddedTaskHasPlanner,
           objects' = [i \in Iterations |-> IF Exists(i) THEN Elapse(objects[i]) ELSE Nothing]
    PROVE  AddedTaskHasPlanner'
<1> SUFFICES ASSUME NEW i \in Iterations, Exists(i)', DOMAIN objects'[i].tasks \ InitialTasks # {}
             PROVE  \E t \in Planners \cap DOMAIN objects'[i].tasks :
                        objects'[i].tasks[t].status \in {"Completed", "SkippedByExecutor"}
  BY DEF AddedTaskHasPlanner
<1>1. Exists(i) /\ objects'[i] = Elapse(objects[i])
  BY DEF Exists
<1>2. IsJob(objects[i])
  BY <1>1 DEF IInv, TypeOK
<1>3. DOMAIN objects'[i].tasks = DOMAIN objects[i].tasks
  BY <1>1, <1>2, ElapseType
<1>4. PICK t \in Planners \cap DOMAIN objects[i].tasks :
        objects[i].tasks[t].status \in {"Completed", "SkippedByExecutor"}
  BY <1>1, <1>3 DEF AddedTaskHasPlanner
<1>5. objects'[i].tasks[t].status = objects[i].tasks[t].status
  BY <1>1, <1>2, <1>4, ElapseEffect
<1> QED BY <1>3, <1>4, <1>5

\* What an execution added is stored only beside its result: the rollback of a failed one leaves
\* nothing behind (fail_task, is_created_now in merge_with_processed_task).
THEOREM AddedTasksHavePlanners == Spec /\ []MergesTakeNothingBack => []AddedTaskHasPlanner
<1>1. Init => AddedTaskHasPlanner
  BY DEF Init, AddedTaskHasPlanner, Exists
<1>2. IInv /\ CarriedInv /\ OrderInv /\ ResultInv /\ AddedTaskHasPlanner /\ [Next]_vars => AddedTaskHasPlanner'
  <2> SUFFICES ASSUME IInv, CarriedInv, OrderInv, ResultInv, AddedTaskHasPlanner, [Next]_vars
               PROVE  AddedTaskHasPlanner'
    OBVIOUS
  <2>1. CASE objects' = objects
    BY <2>1 DEF AddedTaskHasPlanner, Exists
  <2>2. CASE objects' = [i \in Iterations |-> IF Exists(i) THEN Elapse(objects[i]) ELSE Nothing]
    BY <2>2, ElapsePlanned
  <2>3. CASE \E w \in Workers : pc[w] \in Saving /\ IsSaveAllowed(w) /\ Store(w)
    BY <2>3, WritePlanned
  <2> QED BY <2>1, <2>2, <2>3, StoreEffect
<1> QED BY <1>1, <1>2, Invariance, CarriedInvariance, OrderInvariance, ResultInvariance, PTL DEF Spec

-----------------------------------------------------------------------------
(* Why no task runs ahead of its dependencies: the fifth invariant *)

Busy == {"SaveStart", "Execute", "SaveResult"}

\* The tasks of a copy are in sequence, and what it takes for completed, except by its own running
\* execution, is stored as such; whoever starts, executes or saves a task has its dependencies
\* completed in the store; it knows the tasks it is stored as the worker of; and in a pipeline
\* whatever else it owns is completed there, as its own.
CopyInSequence(w) ==
    LET stored == objects[mine[w].iter].tasks
        tasks == mine[w].tasks
    IN /\ mine[w] # Nothing => InSequence(tasks)
       /\ pc[w] \in Busy => DependenciesCompleted(stored, task[w])
       /\ pc[w] \in Reading \cup Working =>
            \A t \in DOMAIN tasks :
                /\ tasks[t].status = "Completed"
                /\ ~(pc[w] \in {"Execute", "SaveResult"} /\ tasks[t].owner = w)
                => t \in DOMAIN stored /\ stored[t].status = "Completed" /\ stored[t].owner = tasks[t].owner
       /\ pc[w] \in Reading \cup Working => KnowsOwnTasks(w, tasks, stored)
       /\ IsPipeline /\ pc[w] \in Busy =>
            \A t \in DOMAIN tasks \ {task[w]} : tasks[t].owner = w =>
                t \in DOMAIN stored /\ stored[t].status = "Completed" /\ stored[t].owner = w

SequenceInv ==
    /\ \A i \in Iterations : Exists(i) => InSequence(objects[i].tasks)
    /\ \A w \in Workers : CopyInSequence(w)

\* A step that changes nothing but what one worker holds keeps the sequence if it keeps it for that
\* worker.
LEMMA OwnSequenceStep ==
    ASSUME SequenceInv, NEW w \in Workers, objects' = objects, OthersWait(w), CopyInSequence(w)'
    PROVE  SequenceInv'
<1>1. ASSUME NEW v \in Workers \ {w}
      PROVE  CopyInSequence(v)'
  <2>1. CopyInSequence(v)
    BY DEF SequenceInv
  <2>2. pc'[v] = pc[v] /\ mine'[v] = mine[v] /\ task'[v] = task[v]
    BY DEF OthersWait
  <2> QED BY <2>1, <2>2 DEF CopyInSequence
<1>2. \A i \in Iterations : Exists(i)' => InSequence(objects'[i].tasks)
  BY DEF SequenceInv, Exists
<1> QED BY <1>1, <1>2 DEF SequenceInv

\* A worker that drops what it holds, or dies.
LEMMA RestInSequence ==
    ASSUME IInv, SequenceInv, NEW w \in Workers, NEW place \in {"Idle", "Dead"},
           Hold(w, place, Nothing, "New", NoTask), objects' = objects
    PROVE  SequenceInv'
<1>1. pc'[w] = place /\ mine'[w] = Nothing /\ OthersWait(w)
  BY HeldHand DEF IInv
<1>2. CopyInSequence(w)'
  BY <1>1 DEF CopyInSequence, Reading, Working, Busy
<1> QED BY <1>1, <1>2, OwnSequenceStep

\* What is read is what is stored.
LEMMA ReadInSequence ==
    ASSUME IInv, SequenceInv, NEW w \in Workers, NEW i \in Iterations, IsReadable(i), NEW place \in Reading,
           Hold(w, place, objects[i], "Current", NoTask), objects' = objects
    PROVE  SequenceInv'
<1>1. pc'[w] = place /\ mine'[w] = objects[i] /\ OthersWait(w)
  BY HeldHand DEF IInv
<1>2. objects[i].iter = i /\ InSequence(objects[i].tasks)
  BY DEF IInv, TypeOK, SequenceInv, IsReadable, IsNewest, IsClosed
<1>3. CopyInSequence(w)'
  BY <1>1, <1>2 DEF CopyInSequence, Reading, Working, Busy, KnowsOwnTasks
<1> QED BY <1>1, <1>3, OwnSequenceStep

\* What is planned waits for its dependencies.
LEMMA PlanInSequence ==
    ASSUME IInv, SequenceInv, NEW w \in Workers, NEW i, NEW place \in Planning,
           Hold(w, place, NewJob(w, i), "New", NoTask), objects' = objects
    PROVE  SequenceInv'
<1>1. pc'[w] = place /\ mine'[w] = NewJob(w, i) /\ OthersWait(w)
  BY HeldHand DEF IInv
<1>2. InSequence(NewJob(w, i).tasks)
  BY NewJobInSequence
<1>3. CopyInSequence(w)'
  BY <1>1, <1>2 DEF CopyInSequence, Planning, Reading, Working, Busy
<1> QED BY <1>1, <1>3, OwnSequenceStep

\* A task is picked only in a copy that holds its dependencies as completed, and so are they in the
\* store.
LEMMA PickInSequence ==
    ASSUME NoTolerance, IInv, ResultInv, SequenceInv, NEW w \in Workers, pc[w] \in Reading, PickTask(w),
           objects' = objects
    PROVE  SequenceInv'
<1> DEFINE stored == objects[mine[w].iter].tasks
           M == mine[w].tasks
<1>1. /\ IsJob(mine[w]) /\ AreSound(M) /\ InSequence(M) /\ w # NoWorker /\ DOMAIN M \subseteq TaskIds
      /\ \A t \in DOMAIN M : M[t].status = "Completed" =>
            t \in DOMAIN stored /\ stored[t].status = "Completed" /\ stored[t].owner = M[t].owner
      /\ KnowsOwnTasks(w, M, stored)
  <2>1. IsJob(mine[w]) /\ HandInv(w) /\ CopyInSequence(w) /\ mine[w] # Nothing
    BY JobIsSomething DEF IInv, WorkerInv, ResultInv, SequenceInv
  <2>2. pc[w] \notin {"Execute", "SaveResult"}
    BY DEF Reading
  <2> QED BY <2>1, <2>2, WorkersAssumption DEF HandInv, CopyInSequence, IsJob
<1> HIDE DEF stored
<1>2. PICK pickup \in Pickups(mine[w]) :
        \/ /\ pickup.kind = "Ready"
           /\ Hold(w, "SaveStart", StartTask(pickup.job, pickup.task, w), version[w], pickup.task)
        \/ /\ pickup.kind = "IterationSettled"
           /\ Hold(w, "SaveSettled", pickup.job, version[w], NoTask)
        \/ Rest(w)
  BY DEF PickTask
<1>3. ASSUME pickup.kind \in {"Ready", "IterationSettled"}
      PROVE  LET P == pickup.job.tasks
             IN /\ IsJob(pickup.job) /\ pickup.job.iter = mine[w].iter /\ DOMAIN P = DOMAIN M
                /\ AreSound(P) /\ InSequence(P)
                /\ \A u \in DOMAIN P : /\ P[u].owner = M[u].owner
                                       /\ IsResult(P[u]) => P[u] = M[u]
  <2> DEFINE P == pickup.job.tasks
  <2>1. IsJob(pickup.job) /\ pickup.job.iter = mine[w].iter /\ DOMAIN P = DOMAIN M
    BY <1>1, <1>3, PickupsType DEF Extends
  <2>2. IsWorkOf(NoWorker, P, M) /\ AreSound(P) /\ InSequence(P)
    BY <1>1, <1>3, PickupIsWork, PickupInSequence
  <2> HIDE DEF P
  <2>3. \A u \in DOMAIN P : /\ P[u].owner = M[u].owner
                            /\ IsResult(P[u]) => P[u] = M[u]
    BY <2>1, <2>2, NobodysWork
  <2> QED BY <2>1, <2>2, <2>3 DEF P
<1>4. CASE /\ pickup.kind = "Ready"
           /\ Hold(w, "SaveStart", StartTask(pickup.job, pickup.task, w), version[w], pickup.task)
  <2> DEFINE job == StartTask(pickup.job, pickup.task, w)
             N == job.tasks
             P == pickup.job.tasks
             t == pickup.task
  <2>1. t \in DOMAIN P /\ Availability(P[t]) = "Pickable"
    BY <1>1, <1>4, PickupTasks
  <2>2. /\ IsJob(pickup.job) /\ pickup.job.iter = mine[w].iter /\ DOMAIN P = DOMAIN M
        /\ AreSound(P) /\ InSequence(P)
        /\ \A u \in DOMAIN P : /\ P[u].owner = M[u].owner
                               /\ IsResult(P[u]) => P[u] = M[u]
    BY <1>3, <1>4
  <2>3. /\ InSequence(N) /\ IsReleased(P[t]) /\ P[t].status # "Completed" /\ N[t].status = "Started"
    BY <2>1, <2>2, StartInSequence, StartIsWork
  <2>4. /\ job.iter = mine[w].iter /\ DOMAIN N = DOMAIN P /\ \A u \in DOMAIN P \ {t} : N[u] = P[u]
    BY <2>2 DEF StartTask, IsJob
  <2>5. pc'[w] = "SaveStart" /\ mine'[w] = job /\ task'[w] = t /\ OthersWait(w)
    BY <1>4, HeldHand DEF IInv
  <2> HIDE DEF job, P, t
  <2>6. \A u \in DOMAIN P : P[u].status = "Completed" =>
            u \in DOMAIN stored /\ stored[u].status = "Completed" /\ stored[u].owner = P[u].owner
    BY <1>1, <2>2 DEF IsResult, Results
  <2>7. DependenciesCompleted(stored, t)
    BY <2>1, <2>2, <2>3, <2>6 DEF InSequence, DependenciesCompleted
  <2>8. \A u \in DOMAIN N : N[u].status = "Completed" =>
            u \in DOMAIN stored /\ stored[u].status = "Completed" /\ stored[u].owner = N[u].owner
    BY <2>3, <2>4, <2>6
  <2>9. ASSUME IsPipeline, NEW u \in DOMAIN N \ {t}, N[u].owner = w
        PROVE  u \in DOMAIN stored /\ stored[u].status = "Completed" /\ stored[u].owner = w
    <3>1. u \in DOMAIN P /\ P[u].owner = w
      BY <2>4, <2>9
    <3>2. IsReleased(P[u])
      BY <1>1, <2>2, <3>1 DEF AreSound, IsSound, IsReleased, Released
    <3>3. P[u].status = "Completed"
      BY <1>1, <2>1, <2>2, <2>3, <2>9, <3>1, <3>2, OneAtATime
    <3> QED BY <2>6, <3>1, <3>3
  <2>10. KnowsOwnTasks(w, N, stored)
    <3>1. N[t].owner = w
      BY <2>1, <2>2, StartIsWork DEF job, P, t
    <3> QED BY <1>1, <2>2, <2>4, <3>1 DEF KnowsOwnTasks
  <2>11. stored = objects'[mine'[w].iter].tasks
    BY <2>4, <2>5 DEF stored
  <2>12. CopyInSequence(w)'
    BY <2>3, <2>5, <2>7, <2>8, <2>9, <2>10, <2>11 DEF CopyInSequence
  <2> QED BY <2>5, <2>12, OwnSequenceStep
<1>5. CASE pickup.kind = "IterationSettled" /\ Hold(w, "SaveSettled", pickup.job, version[w], NoTask)
  <2> DEFINE P == pickup.job.tasks
  <2>1. /\ pickup.job.iter = mine[w].iter /\ DOMAIN P = DOMAIN M /\ InSequence(P)
        /\ \A u \in DOMAIN P : P[u].owner = M[u].owner /\ (IsResult(P[u]) => P[u] = M[u])
    BY <1>3, <1>5
  <2>2. pc'[w] = "SaveSettled" /\ mine'[w] = pickup.job /\ OthersWait(w)
    BY <1>5, HeldHand DEF IInv
  <2>3. \A u \in DOMAIN P : P[u].status = "Completed" =>
            u \in DOMAIN stored /\ stored[u].status = "Completed" /\ stored[u].owner = P[u].owner
    BY <1>1, <2>1 DEF IsResult, Results
  <2>4. stored = objects'[mine'[w].iter].tasks
    BY <2>1, <2>2 DEF stored
  <2>5. KnowsOwnTasks(w, P, stored)
    BY <1>1, <2>1 DEF KnowsOwnTasks
  <2>6. CopyInSequence(w)'
    BY <2>1, <2>2, <2>3, <2>4, <2>5 DEF CopyInSequence, Busy
  <2> QED BY <2>2, <2>6, OwnSequenceStep
<1>6. CASE Rest(w)
  BY <1>6, RestInSequence DEF Rest
<1> QED BY <1>2, <1>4, <1>5, <1>6

\* Advancing picks in the iteration that was read, or plans the next one.
LEMMA AdvanceInSequence ==
    ASSUME NoTolerance, IInv, ResultInv, SequenceInv, NEW w \in Workers, AdvanceJobIteration(w)
    PROVE  SequenceInv'
<1>1. pc[w] \in Reading /\ objects' = objects
  BY DEF AdvanceJobIteration, Reading
<1>2. CASE PickTask(w)
  BY <1>1, <1>2, PickInSequence
<1>3. CASE Hold(w, "SaveNewIteration", NewJob(w, mine[w].iter + 1), "New", NoTask)
  <2> DEFINE i == mine[w].iter + 1
  <2>1. Hold(w, "SaveNewIteration", NewJob(w, i), "New", NoTask)
    BY <1>3
  <2> HIDE DEF i
  <2> QED BY <1>1, <2>1, PlanInSequence DEF Planning
<1>4. CASE Rest(w)
  BY <1>1, <1>4, RestInSequence DEF Rest
<1> QED BY <1>2, <1>3, <1>4 DEF AdvanceJobIteration

\* A write keeps what is completed, so everybody else stays right about it.
LEMMA WriteInSequence ==
    ASSUME IInv, CarriedInv, OrderInv, ResultInv, SequenceInv,
           NEW w \in Workers, pc[w] \in Saving, IsSaveAllowed(w), Store(w)
    PROVE  /\ objects'[mine[w].iter] = mine[w] /\ InSequence(mine[w].tasks)
           /\ pc[w] \in Busy => DependenciesCompleted(mine[w].tasks, task[w])
           /\ \A i \in Iterations : Exists(i)' => InSequence(objects'[i].tasks)
           /\ \A v \in Workers \ {w} :
                pc'[v] = pc[v] /\ mine'[v] = mine[v] /\ task'[v] = task[v] => CopyInSequence(v)'
<1> DEFINE n == mine[w].iter
<1>1. /\ IsJob(mine[w]) /\ objects'[n] = mine[w] /\ mine[w] # Nothing
      /\ \A i \in Iterations \ {n} : objects'[i] = objects[i]
  BY WriteEffect, JobIsSomething
<1>2. InSequence(mine[w].tasks) /\ HandInv(w) /\ WorkerInv(w)
  BY <1>1 DEF SequenceInv, CopyInSequence, ResultInv, IInv
<1>3. ASSUME pc[w] \in Busy
      PROVE  DependenciesCompleted(mine[w].tasks, task[w])
  <2>1. /\ task[w] \in DOMAIN mine[w].tasks /\ mine[w].tasks[task[w]].owner = w
        /\ AreSound(mine[w].tasks) /\ w # NoWorker
    BY <1>1, <1>2, <1>3, WorkersAssumption DEF WorkerInv, HandInv, Busy
  <2>2. IsReleased(mine[w].tasks[task[w]])
    BY <2>1 DEF AreSound, IsSound, IsReleased, Released
  <2> QED BY <1>2, <2>1, <2>2 DEF InSequence
<1>4. \A i \in Iterations : Exists(i)' => InSequence(objects'[i].tasks)
  BY <1>1, <1>2 DEF SequenceInv, Exists
<1>5. ASSUME NEW v \in Workers \ {w}, pc'[v] = pc[v], mine'[v] = mine[v], task'[v] = task[v]
      PROVE  CopyInSequence(v)'
  <2>1. CopyInSequence(v) /\ WorkerInv(v) /\ CopyInOrder(v)
    BY DEF IInv, SequenceInv, OrderInv
  <2>2. CASE pc[v] \notin Reading \cup Working
    BY <1>5, <2>1, <2>2 DEF CopyInSequence, Reading, Working, Busy
  <2>3. CASE pc[v] \in Reading \cup Working /\ mine[v].iter # n
    <3>1. mine[v].iter \in Iterations
      BY <2>1, <2>3, JobIsSomething DEF WorkerInv
    <3>2. objects'[mine[v].iter] = objects[mine[v].iter]
      BY <1>1, <2>3, <3>1
    <3> QED BY <1>5, <2>1, <3>2 DEF CopyInSequence
  <2>4. CASE pc[v] \in Reading \cup Working /\ mine[v].iter = n
    <3> DEFINE S == objects[n].tasks
               T == mine[w].tasks
    <3>1. Exists(n)
      BY <2>1, <2>4 DEF CopyInOrder
    <3>2. AreRespected(w, T, S) /\ \A u \in DOMAIN T \ DOMAIN S : T[u].owner = NoWorker
      BY <3>1, WriteRespects
    <3>3. \A u \in DOMAIN S : S[u].status = "Completed" =>
            u \in DOMAIN T /\ T[u].status = "Completed" /\ T[u].owner = S[u].owner
      BY <3>2 DEF AreRespected, Respects, IsResult, Results
    <3>4. objects'[mine'[v].iter].tasks = T /\ objects[mine[v].iter].tasks = S
      BY <1>1, <1>5, <2>4
    <3> HIDE DEF S, T
    <3>5. pc[v] \in Busy => DependenciesCompleted(T, task[v])
      BY <2>1, <3>3, <3>4 DEF CopyInSequence, DependenciesCompleted
    <3>6. KnowsOwnTasks(v, mine[v].tasks, T)
      <4>1. v # w /\ v # NoWorker
        BY WorkersAssumption
      <4>2. \A u \in DOMAIN T : T[u].owner = v => u \in DOMAIN S /\ S[u].owner = v
        BY <3>2, <4>1 DEF AreRespected, Respects
      <4> QED BY <2>1, <2>4, <3>4, <4>2 DEF CopyInSequence, KnowsOwnTasks
    <3> QED BY <1>5, <2>1, <3>3, <3>4, <3>5, <3>6 DEF CopyInSequence
  <2> QED BY <2>2, <2>3, <2>4
<1> QED BY <1>1, <1>2, <1>3, <1>4, <1>5

\* In a pipeline whatever else a worker owns is completed.
LEMMA OwnIsCompleted ==
    ASSUME ResultInv, SequenceInv, IsPipeline, NEW w \in Workers, pc[w] \in Busy,
           NEW t \in DOMAIN mine[w].tasks \ {task[w]}, mine[w].tasks[t].owner = w
    PROVE  mine[w].tasks[t].status = "Completed"
<1> DEFINE stored == objects[mine[w].iter].tasks
<1>1. t \in DOMAIN stored /\ stored[t].status = "Completed" /\ stored[t].owner = w
  BY DEF SequenceInv, CopyInSequence
<1>2. KnowsOwnResults(w, mine[w].tasks, stored)
  BY DEF ResultInv, HandInv, Busy, Working
<1> QED BY <1>1, <1>2 DEF KnowsOwnResults, IsResult, Results

\* A worker whose write is acknowledged goes on with what is stored.
LEMMA SaveAcknowledgedInSequence ==
    ASSUME IInv, CarriedInv, OrderInv, ResultInv, SequenceInv, NEW w \in Workers, SaveAcknowledged(w)
    PROVE  SequenceInv'
<1> DEFINE place == AfterSave(w)
<1>1. place \in {"Advance", "Pick", "Execute", "Idle"} /\ (place = "Execute" => pc[w] = "SaveStart")
  BY DEF AfterSave
<1> HIDE DEF place
<1>2. /\ pc'[w] = place /\ mine'[w] = (IF place = "Idle" THEN Nothing ELSE mine[w])
      /\ task'[w] = (IF place = "Idle" THEN NoTask ELSE task[w])
  BY DEF SaveAcknowledged, IInv, TypeOK, place
<1>3. \A v \in Workers \ {w} : pc'[v] = pc[v] /\ mine'[v] = mine[v] /\ task'[v] = task[v]
  BY DEF SaveAcknowledged, IInv, TypeOK
<1>4. pc[w] \in Saving /\ IsSaveAllowed(w) /\ Store(w)
  BY DEF SaveAcknowledged
<1>5. /\ objects'[mine[w].iter] = mine[w] /\ InSequence(mine[w].tasks)
      /\ pc[w] \in Busy => DependenciesCompleted(mine[w].tasks, task[w])
      /\ \A i \in Iterations : Exists(i)' => InSequence(objects'[i].tasks)
      /\ \A v \in Workers \ {w} : CopyInSequence(v)'
  BY <1>3, <1>4, WriteInSequence
<1>6. CopyInSequence(w)'
  <2>1. CASE place = "Idle"
    BY <1>2, <2>1 DEF CopyInSequence, Reading, Working, Busy
  <2>2. CASE place \in {"Advance", "Pick"}
    BY <1>2, <1>5, <2>2 DEF CopyInSequence, Busy, KnowsOwnTasks
  <2>3. CASE place = "Execute"
    <3> DEFINE M == mine[w].tasks
    <3>1. pc[w] = "SaveStart" /\ mine'[w] = mine[w] /\ task'[w] = task[w]
      BY <1>1, <1>2, <2>3
    <3>2. IsPipeline => \A t \in DOMAIN M \ {task[w]} : M[t].owner = w => M[t].status = "Completed"
      BY <3>1, OwnIsCompleted DEF Busy
    <3>3. objects'[mine'[w].iter].tasks = M /\ mine'[w].tasks = M
      BY <1>5, <3>1
    <3> HIDE DEF M
    <3> QED BY <1>2, <1>5, <2>3, <3>1, <3>2, <3>3 DEF CopyInSequence, Busy, M, KnowsOwnTasks
  <2> QED BY <1>1, <2>1, <2>2, <2>3
<1> QED BY <1>5, <1>6 DEF SequenceInv

\* A lost answer leaves the worker with the copy it wrote.
LEMMA SaveAnswerLostInSequence ==
    ASSUME IInv, CarriedInv, OrderInv, ResultInv, SequenceInv, NEW w \in Workers, SaveAnswerLost(w)
    PROVE  SequenceInv'
<1> DEFINE M == mine[w].tasks
<1>1. pc' = pc /\ mine' = mine /\ task' = task /\ pc[w] \in Saving /\ IsSaveAllowed(w) /\ Store(w)
  BY DEF SaveAnswerLost
<1>2. /\ objects'[mine[w].iter] = mine[w] /\ InSequence(M)
      /\ pc[w] \in Busy => DependenciesCompleted(M, task[w])
      /\ \A i \in Iterations : Exists(i)' => InSequence(objects'[i].tasks)
      /\ \A v \in Workers \ {w} : CopyInSequence(v)'
  BY <1>1, WriteInSequence
<1>3. IsPipeline /\ pc[w] \in Busy =>
        \A t \in DOMAIN M \ {task[w]} : M[t].owner = w => M[t].status = "Completed"
  BY OwnIsCompleted
<1>4. objects'[mine'[w].iter].tasks = M /\ mine'[w].tasks = M
  BY <1>1, <1>2
<1> HIDE DEF M
<1>5. CopyInSequence(w)'
  BY <1>1, <1>2, <1>3, <1>4 DEF CopyInSequence, KnowsOwnTasks
<1> QED BY <1>2, <1>5 DEF SequenceInv

\* A write that was given up may have been applied.
LEMMA SaveGivenUpInSequence ==
    ASSUME IInv, CarriedInv, OrderInv, ResultInv, SequenceInv, NEW w \in Workers, SaveGivenUp(w)
    PROVE  SequenceInv'
<1>1. pc'[w] = "Idle" /\ mine'[w] = Nothing
  BY DEF SaveGivenUp, IInv, TypeOK
<1>2. CopyInSequence(w)'
  BY <1>1 DEF CopyInSequence, Reading, Working, Busy
<1>3. CASE UNCHANGED objects /\ version' = [version EXCEPT ![w] = "New"]
  <2>1. OthersWait(w)
    BY <1>3 DEF SaveGivenUp, OthersWait, IInv, TypeOK
  <2> QED BY <1>2, <1>3, <2>1, OwnSequenceStep
<1>4. CASE IsSaveAllowed(w) /\ Store(w)
  <2>1. \A v \in Workers \ {w} : pc'[v] = pc[v] /\ mine'[v] = mine[v] /\ task'[v] = task[v]
    BY DEF SaveGivenUp, IInv, TypeOK
  <2>2. pc[w] \in Saving
    BY DEF SaveGivenUp
  <2>3. /\ \A i \in Iterations : Exists(i)' => InSequence(objects'[i].tasks)
        /\ \A v \in Workers \ {w} : CopyInSequence(v)'
    BY <1>4, <2>1, <2>2, WriteInSequence
  <2> QED BY <1>2, <2>3 DEF SequenceInv
<1> QED BY <1>3, <1>4 DEF SaveGivenUp

\* A merge finds the dependencies of the carried task completed in what is stored.
LEMMA SaveRefusedInSequence ==
    ASSUME NoTolerance, IInv, OrderInv, ResultInv, SequenceInv, MergesTakeNothingBack,
           NEW w \in Workers, SaveRefused(w)
    PROVE  SequenceInv'
<1> DEFINE Merge(i) == IF pc[w] = "SaveStart"
                       THEN MergePickedTask(objects[i], mine[w], w, task[w])
                       ELSE MergeProcessedTask(objects[i], mine[w], w, task[w])
<1>1. PICK i \in Iterations :
        /\ IsReadable(i)
        /\ \/ Hold(w, "Advance", objects[i], "Current", NoTask)
           \/ Hold(w, "Pick", objects[i], "Current", NoTask)
           \/ Rest(w)
           \/ /\ pc[w] \in {"SaveStart", "SaveResult"} /\ Merge(i).answer = "Merged"
              /\ mine' = [mine EXCEPT ![w] = Merge(i).job]
              /\ version' = [version EXCEPT ![w] = "Current"]
              /\ UNCHANGED <<pc, task, created>>
  BY DEF SaveRefused
<1>2. objects' = objects
  BY DEF SaveRefused
<1>3. CASE Hold(w, "Advance", objects[i], "Current", NoTask) \/ Hold(w, "Pick", objects[i], "Current", NoTask)
  BY <1>1, <1>2, <1>3, ReadInSequence DEF Reading
<1>4. CASE Rest(w)
  BY <1>2, <1>4, RestInSequence DEF Rest
<1>5. CASE /\ pc[w] \in {"SaveStart", "SaveResult"} /\ Merge(i).answer = "Merged"
           /\ mine' = [mine EXCEPT ![w] = Merge(i).job]
           /\ version' = [version EXCEPT ![w] = "Current"]
           /\ UNCHANGED <<pc, task, created>>
  <2> DEFINE merged == Merge(i).job
             N == merged.tasks
             S == objects[i].tasks
             M == mine[w].tasks
             t == task[w]
  <2>1. /\ HandInv(w) /\ CopyInSequence(w) /\ IsJob(mine[w]) /\ mine[w] # Nothing
        /\ IsJob(objects[i]) /\ objects[i].iter = i /\ AreSound(S) /\ InSequence(S) /\ t \in DOMAIN M
        /\ w # NoWorker
    BY <1>1, <1>5, JobIsSomething, WorkersAssumption
       DEF IInv, TypeOK, WorkerInv, Working, ResultInv, SequenceInv, IsReadable, IsNewest, IsClosed
  <2>2. /\ mine'[w] = merged /\ pc'[w] = pc[w] /\ task'[w] = t /\ OthersWait(w)
    BY <1>5 DEF IInv, TypeOK, OthersWait
  <2>3. objects[i].iter = mine[w].iter /\ merged.iter = i
    <3>1. CASE pc[w] = "SaveStart"
      BY <1>5, <2>1, <3>1, MergePickedTaskType DEF Extends
    <3>2. CASE pc[w] = "SaveResult"
      BY <1>5, <2>1, <3>2, MergeProcessedTaskType DEF Extends
    <3> QED BY <1>5, <3>1, <3>2
  <2>4. i = mine[w].iter /\ pc[w] \in {"SaveStart", "SaveResult"}
    BY <1>5, <2>1, <2>3
  <2>5. /\ AreSound(M) /\ M[t].owner = w /\ (pc[w] = "SaveStart" => M[t].status = "Started")
        /\ KnowsOwnResults(w, M, S)
    BY <2>1, <2>4 DEF HandInv, Working
  <2>6. /\ InSequence(M) /\ DependenciesCompleted(S, t)
        /\ \A u \in DOMAIN M : M[u].status = "Completed" /\ M[u].owner # w =>
                u \in DOMAIN S /\ S[u].status = "Completed"
        /\ IsPipeline => \A u \in DOMAIN M \ {t} : M[u].owner = w =>
                u \in DOMAIN S /\ S[u].status = "Completed" /\ S[u].owner = w
        /\ KnowsOwnTasks(w, M, S)
    BY <2>1, <2>4 DEF CopyInSequence, Busy, Working
  <2>7. /\ InSequence(N) /\ AreRespected(w, N, S) /\ AreSound(N)
        /\ \A u \in DOMAIN N \ {t} : N[u].owner # NoWorker =>
            \/ pc[w] = "SaveResult" /\ u \in DOMAIN M /\ M[u].owner = w /\ N[u].owner = w
            \/ /\ u \in DOMAIN S /\ N[u].owner = S[u].owner
               /\ IsResult(N[u]) => N[u] = S[u]
        /\ t \in DOMAIN N /\ N[t].owner = w /\ (pc[w] = "SaveStart" => N[t].status = "Started")
        /\ KnowsOwnTasks(w, N, S)
    <3>1. CASE pc[w] = "SaveStart"
      <4>1. MergePickedTask(objects[i], mine[w], w, t).answer = "Merged"
            /\ merged = MergePickedTask(objects[i], mine[w], w, t).job
        BY <1>5, <3>1
      <4> HIDE DEF merged, Merge
      <4>2. /\ InSequence(N)
            /\ \A u \in DOMAIN N \ {t} :
                    /\ u \in DOMAIN S
                    /\ N[u].owner = S[u].owner
                    /\ IsResult(N[u]) => N[u] = S[u]
        BY <2>1, <2>5, <2>6, <4>1, MergePickedTaskInSequence
      <4>3. AreRespected(w, N, S) /\ AreSound(N) /\ N[t] = M[t]
        BY <2>1, <2>5, <4>1, MergePickedTaskRespects
      <4>4. t \in DOMAIN N
        BY <2>1, <4>1, MergePickedTaskType
      <4>5. KnowsOwnTasks(w, N, S)
        BY <2>5, <4>2, <4>3 DEF KnowsOwnTasks, AreRespected
      <4> QED BY <2>5, <3>1, <4>2, <4>3, <4>4, <4>5
    <3>2. CASE pc[w] = "SaveResult"
      <4>1. MergeProcessedTask(objects[i], mine[w], w, t).answer = "Merged"
            /\ merged = MergeProcessedTask(objects[i], mine[w], w, t).job
        BY <1>5, <3>2
      <4> HIDE DEF merged, Merge
      <4>2. \A u \in (DOMAIN S \cap CarriedOver(objects[i], mine[w], w)) \ {t} : ~OwnedByOther(S[u], w)
        BY <2>4, <3>2 DEF MergesTakeNothingBack
      <4>3. InSequence(N)
        BY <2>1, <2>5, <2>6, <4>1, <4>2, MergeProcessedTaskInSequence
      <4>4. AreRespected(w, N, S) /\ AreSound(N) /\ t \in DOMAIN N /\ N[t].owner = w
        BY <2>1, <2>5, <4>1, <4>2, MergeProcessedTaskRespects
      <4>5. /\ \A u \in DOMAIN N : N[u].owner # NoWorker =>
                    \/ u \in DOMAIN M /\ M[u].owner = w /\ N[u].owner = w
                    \/ /\ u \in DOMAIN S /\ N[u].owner = S[u].owner
                       /\ IsResult(N[u]) => N[u] = S[u]
            /\ KnowsOwnTasks(w, N, S)
        BY <2>1, <2>5, <4>1, MergeProcessedTaskHands DEF KnowsOwnTasks
      <4> QED BY <3>2, <4>3, <4>4, <4>5
    <3> QED BY <1>5, <3>1, <3>2
  <2> HIDE DEF merged, Merge, S
  <2>8. ASSUME NEW u \in DOMAIN N, N[u].status = "Completed",
               ~(pc[w] \in {"Execute", "SaveResult"} /\ N[u].owner = w)
        PROVE  u \in DOMAIN S /\ S[u].status = "Completed" /\ S[u].owner = N[u].owner
    <3>1. N[u].owner # NoWorker /\ IsResult(N[u])
      BY <2>7, <2>8 DEF AreSound, IsSound, IsResult, Results
    <3>2. u # t
      BY <1>5, <2>7, <2>8
    <3> QED BY <2>7, <2>8, <3>1, <3>2
  <2>9. ASSUME IsPipeline, NEW u \in DOMAIN N \ {t}, N[u].owner = w
        PROVE  u \in DOMAIN S /\ S[u].status = "Completed" /\ S[u].owner = w
    <3>1. CASE u \in DOMAIN M /\ M[u].owner = w
      BY <2>6, <2>9, <3>1
    <3>2. CASE u \in DOMAIN S /\ S[u].owner = w
      BY <2>6, <2>9, <3>2 DEF KnowsOwnTasks
    <3> QED BY <2>1, <2>7, <2>9, <3>1, <3>2
  <2>10. S = objects'[mine'[w].iter].tasks
    BY <1>2, <2>2, <2>3 DEF S
  <2>11. CopyInSequence(w)'
    BY <2>2, <2>6, <2>7, <2>8, <2>9, <2>10 DEF CopyInSequence
  <2> QED BY <1>2, <2>2, <2>11, OwnSequenceStep
<1> QED BY <1>1, <1>3, <1>4, <1>5

\* What an executor does to a copy: it hands no task to anybody, and results are its own.
IsExecutionOf(w, next, tasks) ==
    \A u \in DOMAIN next :
        \/ /\ u \in DOMAIN tasks /\ next[u].owner = tasks[u].owner
           /\ IsResult(next[u]) => next[u].owner = w \/ next[u] = tasks[u]
        \/ u \notin DOMAIN tasks /\ next[u].owner = NoWorker

\* Resolving a task hands none to anybody.
LEMMA ResolvingIsExecution ==
    ASSUME NEW w, NEW tasks, NEW next, NEW t, IsResolvedBy(w, next, tasks, t)
    PROVE  IsExecutionOf(w, next, tasks)
<1>1. \A u \in DOMAIN next : u \in DOMAIN tasks /\ (u # t => next[u] = tasks[u])
  BY DEF IsResolvedBy
<1>2. next[t].owner = w /\ tasks[t].owner = w
  BY DEF IsResolvedBy
<1> QED BY <1>1, <1>2 DEF IsExecutionOf

\* An executor moves nothing of what others have completed.
LEMMA ExecuteInSequence ==
    ASSUME IInv, CarriedInv, ResultInv, SequenceInv, NEW w \in Workers, pc[w] = "Execute",
           NEW place \in {"Execute", "SaveResult"}, NEW job, NEW added,
           job.iter = mine[w].iter, InSequence(job.tasks), AreSound(job.tasks),
           IsExecutionOf(w, job.tasks, mine[w].tasks),
           DOMAIN mine[w].tasks \ created[w] \subseteq DOMAIN job.tasks,
           pc' = [pc EXCEPT ![w] = place], mine' = [mine EXCEPT ![w] = job],
           created' = [created EXCEPT ![w] = added], UNCHANGED <<objects, version, task>>
    PROVE  SequenceInv'
<1> DEFINE stored == objects[mine[w].iter].tasks
           M == mine[w].tasks
           N == job.tasks
           t == task[w]
<1>1. pc'[w] = place /\ mine'[w] = job /\ task'[w] = t /\ OthersWait(w)
  BY DEF IInv, TypeOK, OthersWait
<1>2. /\ DependenciesCompleted(stored, t) /\ KnowsOwnTasks(w, M, stored)
      /\ \A u \in DOMAIN M : M[u].status = "Completed" /\ M[u].owner # w =>
            u \in DOMAIN stored /\ stored[u].status = "Completed" /\ stored[u].owner = M[u].owner
      /\ IsPipeline => \A u \in DOMAIN M \ {t} : M[u].owner = w =>
            u \in DOMAIN stored /\ stored[u].status = "Completed" /\ stored[u].owner = w
  BY DEF SequenceInv, CopyInSequence, Busy, Working
<1>3. w # NoWorker /\ \A u \in created[w] : M[u].owner = NoWorker
  BY ExecutingHand, WorkersAssumption DEF IsPlannedBy
<1> HIDE DEF stored, M, t
<1>4. KnowsOwnTasks(w, N, stored)
  <2> SUFFICES ASSUME NEW u \in DOMAIN stored, stored[u].owner = w
               PROVE  u \in DOMAIN N /\ N[u].owner = w
    BY DEF KnowsOwnTasks
  <2>1. u \in DOMAIN M /\ M[u].owner = w
    BY <1>2 DEF KnowsOwnTasks
  <2>2. u \in DOMAIN N
    BY <1>3, <2>1 DEF M
  <2> QED BY <2>1, <2>2 DEF IsExecutionOf, M
<1>5. ASSUME NEW u \in DOMAIN N, N[u].status = "Completed", N[u].owner # w
      PROVE  u \in DOMAIN stored /\ stored[u].status = "Completed" /\ stored[u].owner = N[u].owner
  <2>1. IsResult(N[u]) /\ N[u].owner # NoWorker
    BY <1>5 DEF IsResult, Results, AreSound, IsSound
  <2>2. u \in DOMAIN M /\ N[u] = M[u]
    BY <1>5, <2>1 DEF IsExecutionOf, M
  <2> QED BY <1>2, <1>5, <2>2
<1>6. ASSUME IsPipeline, NEW u \in DOMAIN N \ {t}, N[u].owner = w
      PROVE  u \in DOMAIN stored /\ stored[u].status = "Completed" /\ stored[u].owner = w
  <2>1. u \in DOMAIN M /\ M[u].owner = w
    BY <1>3, <1>6 DEF IsExecutionOf, M
  <2> QED BY <1>2, <1>6, <2>1
<1>7. objects'[mine'[w].iter].tasks = stored /\ mine'[w].tasks = N /\ InSequence(N)
  BY <1>1 DEF stored
<1> HIDE DEF N
<1>8. pc'[w] \in Busy \cap Working /\ pc'[w] \in {"Execute", "SaveResult"}
  BY <1>1 DEF Busy, Working
<1>9. CopyInSequence(w)'
  BY <1>1, <1>2, <1>4, <1>5, <1>6, <1>7, <1>8 DEF CopyInSequence
<1> QED BY <1>1, <1>9, OwnSequenceStep

\* A task added through the handle waits for its dependencies.
LEMMA AddTaskInSequence ==
    ASSUME IInv, CarriedInv, ResultInv, SequenceInv, NEW w \in Workers, AddTask(w)
    PROVE  SequenceInv'
<1>1. PICK t \in TaskIds \ InitialTasks :
        /\ IsFresh(t, mine[w].iter)
        /\ mine' = [mine EXCEPT ![w] = [mine[w] EXCEPT !.tasks = WithTask(mine[w].tasks, t, NewTask(t, w))]]
        /\ created' = [created EXCEPT ![w] = created[w] \cup {t}]
        /\ UNCHANGED <<objects, pc, version, task>>
  BY DEF AddTask, Change
<1> DEFINE tasks == WithTask(mine[w].tasks, t, NewTask(t, w))
           job == [mine[w] EXCEPT !.tasks = tasks]
           M == mine[w].tasks
<1>2. pc[w] = "Execute"
  BY DEF AddTask
<1>3. IsJob(mine[w]) /\ AreSound(M) /\ InSequence(M)
  <2>1. IsJob(mine[w]) /\ AreSound(M) /\ mine[w] # Nothing
    BY <1>2, ExecutingHand, JobIsSomething
  <2> QED BY <2>1 DEF SequenceInv, CopyInSequence
<1>4. job.tasks = tasks /\ job.iter = mine[w].iter
  <2> HIDE DEF tasks
  <2> QED BY <1>3 DEF IsJob
<1>5. DOMAIN tasks = DOMAIN M \cup {t} /\ t \notin DOMAIN M
  BY <1>1 DEF WithTask, IsFresh
<1>6. tasks[t] = NewTask(t, w) /\ \A u \in DOMAIN M : tasks[u] = M[u]
  BY <1>5 DEF WithTask
<1>7. mine' = [mine EXCEPT ![w] = job] /\ pc' = [pc EXCEPT ![w] = "Execute"]
  BY <1>1, <1>2 DEF IInv, TypeOK
<1> HIDE DEF tasks, job, M
<1>8. IsSound(tasks[t]) /\ tasks[t].owner = NoWorker
  BY <1>6, NewTaskIsSound
<1>9. AreSound(tasks) /\ IsExecutionOf(w, tasks, M)
  BY <1>3, <1>5, <1>6, <1>8 DEF AreSound, IsExecutionOf
<1>10. InSequence(tasks)
  <2>1. KeepsCompleted(tasks, M)
    BY <1>5, <1>6 DEF KeepsCompleted
  <2>2. IsReleased(tasks[t]) => DependenciesCompleted(tasks, t)
    BY <1>6, NewTaskReleased
  <2> QED BY <1>3, <1>5, <1>6, <2>1, <2>2, SequenceKept
<1>11. DOMAIN mine[w].tasks \ created[w] \subseteq DOMAIN tasks
  BY <1>5 DEF M
<1>12. IsExecutionOf(w, tasks, mine[w].tasks)
  BY <1>9 DEF M
<1> QED BY <1>1, <1>2, <1>4, <1>7, <1>9, <1>10, <1>11, <1>12, ExecuteInSequence

\* Resolving a task and rolling back what nobody has started keep the sequence.
LEMMA ResolvedInSequence ==
    ASSUME IInv, CarriedInv, ResultInv, SequenceInv, NEW w \in Workers, pc[w] = "Execute",
           NEW t, NEW next, IsResolvedBy(w, next, mine[w].tasks, t),
           DOMAIN mine[w].tasks \ created[w] \subseteq DOMAIN next
    PROVE  InSequence(next) /\ AreSound(next) /\ IsExecutionOf(w, next, mine[w].tasks)
<1> DEFINE M == mine[w].tasks
<1>1. IsJob(mine[w]) /\ AreSound(M) /\ \A u \in created[w] : IsPlannedBy(w, mine[w], u)
  BY ExecutingHand
<1>2. InSequence(M)
  BY <1>1, JobIsSomething DEF SequenceInv, CopyInSequence
<1>3. \A u \in DOMAIN M \ DOMAIN next : M[u].status # "Completed"
  BY <1>1 DEF IsPlannedBy, AreSound, IsSound, Results
<1> HIDE DEF M
<1>4. IsResolvedBy(w, next, M, t)
  BY DEF M
<1>5. InSequence(next)
  BY <1>1, <1>2, <1>3, <1>4, ResolvingInSequence
<1>6. AreSound(next)
  BY <1>1, <1>4, ResolvingIsWork
<1>7. IsExecutionOf(w, next, M)
  BY <1>4, ResolvingIsExecution
<1> QED BY <1>5, <1>6, <1>7 DEF M

\* So does whatever the handle resolves.
LEMMA ResolveInSequence ==
    ASSUME IInv, CarriedInv, ResultInv, SequenceInv, NEW w \in Workers, Resolves(w)
    PROVE  SequenceInv'
<1> PICK t, job, added : ResolvesTask(w, t, job, added)
  BY DEF Resolves
<1>1. /\ pc[w] = "Execute" /\ job.iter = mine[w].iter /\ IsResolvedBy(w, job.tasks, mine[w].tasks, t)
      /\ DOMAIN mine[w].tasks \ created[w] \subseteq DOMAIN job.tasks
      /\ Change(w, job) /\ created' = [created EXCEPT ![w] = added]
  BY DEF ResolvesTask
<1>2. InSequence(job.tasks) /\ AreSound(job.tasks) /\ IsExecutionOf(w, job.tasks, mine[w].tasks)
  BY <1>1, ResolvedInSequence
<1>3. /\ mine' = [mine EXCEPT ![w] = job] /\ UNCHANGED <<objects, version, task>>
      /\ pc' = [pc EXCEPT ![w] = "Execute"]
  BY <1>1 DEF Change, IInv, TypeOK
<1> QED BY <1>1, <1>2, <1>3, ExecuteInSequence

\* Moving the start of the next iteration touches no task.
LEMMA SetNextStartAtInSequence ==
    ASSUME IInv, CarriedInv, ResultInv, SequenceInv, NEW w \in Workers, SetNextStartAt(w)
    PROVE  SequenceInv'
<1>1. PICK delay \in StartDelays : Change(w, [mine[w] EXCEPT !.next = delay])
  BY DEF SetNextStartAt
<1> DEFINE job == [mine[w] EXCEPT !.next = delay]
<1>2. pc[w] = "Execute" /\ UNCHANGED created
  BY DEF SetNextStartAt
<1>3. IsJob(mine[w]) /\ AreSound(mine[w].tasks)
  BY <1>2, ExecutingHand
<1>4. job.tasks = mine[w].tasks /\ job.iter = mine[w].iter
  BY <1>3 DEF IsJob
<1>5. InSequence(mine[w].tasks) /\ IsExecutionOf(w, mine[w].tasks, mine[w].tasks)
  BY <1>3, JobIsSomething DEF SequenceInv, CopyInSequence, IsExecutionOf
<1>6. /\ mine' = [mine EXCEPT ![w] = job] /\ UNCHANGED <<objects, version, task>>
      /\ pc' = [pc EXCEPT ![w] = "Execute"] /\ created' = [created EXCEPT ![w] = created[w]]
  BY <1>1, <1>2 DEF Change, IInv, TypeOK
<1> HIDE DEF job
<1> QED BY <1>2, <1>3, <1>4, <1>5, <1>6, ExecuteInSequence

\* The outcome of an executor resolves its task, and settling releases what was waiting for it.
LEMMA ExecutorReturnsInSequence ==
    ASSUME NoTolerance, IInv, CarriedInv, ResultInv, SequenceInv, NEW w \in Workers, ExecutorReturns(w)
    PROVE  SequenceInv'
<1>1. PICK outcome \in Outcomes :
        LET applied == AppliedOutcome(w, outcome)
        IN /\ mine' = [mine EXCEPT ![w] = TrySettleIteration(applied).job]
           /\ created' = [created EXCEPT ![w] = created[w] \cap DOMAIN applied.tasks]
  BY DEF ExecutorReturns
<1> DEFINE applied == AppliedOutcome(w, outcome)
           job == TrySettleIteration(applied).job
           added == created[w] \cap DOMAIN applied.tasks
           M == mine[w].tasks
<1>2. pc[w] = "Execute"
  BY DEF ExecutorReturns
<1>3. /\ IsJob(applied) /\ applied.iter = mine[w].iter
      /\ DOMAIN M \ created[w] \subseteq DOMAIN applied.tasks /\ DOMAIN applied.tasks \subseteq DOMAIN M
  BY <1>2, AppliedOutcomeType
<1>4. applied = mine[w] \/ IsResolvedBy(w, applied.tasks, M, task[w])
  BY <1>2, AppliedOutcomeHand
<1>5. /\ mine' = [mine EXCEPT ![w] = job] /\ created' = [created EXCEPT ![w] = added]
      /\ pc' = [pc EXCEPT ![w] = "SaveResult"] /\ UNCHANGED <<objects, version, task>>
  BY <1>1 DEF ExecutorReturns
<1> HIDE DEF applied
<1>6. InSequence(applied.tasks) /\ AreSound(applied.tasks) /\ IsExecutionOf(w, applied.tasks, M)
  <2>1. CASE applied = mine[w]
    <3>1. IsJob(mine[w]) /\ AreSound(M)
      BY <1>2, ExecutingHand
    <3> QED BY <2>1, <3>1, JobIsSomething DEF SequenceInv, CopyInSequence, IsExecutionOf
  <2>2. CASE IsResolvedBy(w, applied.tasks, M, task[w])
    BY <1>2, <1>3, <2>2, ResolvedInSequence
  <2> QED BY <1>4, <2>1, <2>2
<1>7. /\ job.iter = mine[w].iter /\ DOMAIN job.tasks = DOMAIN applied.tasks
      /\ IsWorkOf(NoWorker, job.tasks, applied.tasks) /\ AreSound(job.tasks)
  BY <1>3, <1>6, TrySettleIterationType, SettlingIsWork DEF Extends
<1>8. InSequence(job.tasks)
  BY <1>3, <1>6, SettlingInSequence
<1> HIDE DEF job, M
<1>9. \A u \in DOMAIN job.tasks : /\ job.tasks[u].owner = applied.tasks[u].owner
                                  /\ IsResult(job.tasks[u]) => job.tasks[u] = applied.tasks[u]
  BY <1>7, NobodysWork
<1>10. IsExecutionOf(w, job.tasks, M)
  BY <1>6, <1>7, <1>9 DEF IsExecutionOf
<1>11. IsExecutionOf(w, job.tasks, mine[w].tasks) /\ DOMAIN mine[w].tasks \ created[w] \subseteq DOMAIN job.tasks
  BY <1>3, <1>7, <1>10 DEF M
<1> HIDE DEF added
<1> QED BY <1>2, <1>5, <1>7, <1>8, <1>11, ExecuteInSequence

\* Time moves no task on.
LEMMA TickInSequence ==
    ASSUME IInv, OrderInv, SequenceInv, Tick
    PROVE  SequenceInv'
<1>1. /\ \A i \in Iterations : objects'[i] = IF Exists(i) THEN Elapse(objects[i]) ELSE Nothing
      /\ \A w \in Workers : mine'[w] = IF mine[w] # Nothing THEN Elapse(mine[w]) ELSE Nothing
      /\ pc' = pc /\ task' = task
  BY DEF Tick
<1>2. ASSUME NEW i \in Iterations, Exists(i)'
      PROVE  InSequence(objects'[i].tasks)
  <2>1. Exists(i) /\ objects'[i] = Elapse(objects[i])
    BY <1>1, <1>2 DEF Exists
  <2>2. IsJob(objects[i]) /\ InSequence(objects[i].tasks)
    BY <2>1 DEF IInv, TypeOK, SequenceInv
  <2> QED BY <2>1, <2>2, ElapseInSequence
<1>3. ASSUME NEW w \in Workers
      PROVE  CopyInSequence(w)'
  <2>1. CopyInSequence(w) /\ WorkerInv(w) /\ CopyInOrder(w) /\ (mine[w] # Nothing => IsJob(mine[w]))
    BY DEF IInv, TypeOK, OrderInv, SequenceInv
  <2>2. CASE mine[w] = Nothing
    <3>1. mine'[w] = Nothing /\ pc'[w] \notin Planning \cup Reading \cup Working
      BY <1>1, <2>1, <2>2, JobIsSomething DEF WorkerInv
    <3> QED BY <3>1 DEF CopyInSequence, Reading, Working, Busy
  <2>3. CASE mine[w] # Nothing
    <3> DEFINE M == mine[w].tasks
               M2 == mine'[w].tasks
               S == objects[mine[w].iter].tasks
               S2 == objects'[mine[w].iter].tasks
    <3>1. mine'[w] = Elapse(mine[w]) /\ IsJob(mine[w])
      BY <1>1, <2>1, <2>3
    <3>2. /\ mine'[w].iter = mine[w].iter /\ DOMAIN M2 = DOMAIN M
          /\ \A u \in DOMAIN M : M2[u].status = M[u].status /\ M2[u].owner = M[u].owner
      BY <3>1, ElapseType, ElapseEffect DEF Extends
    <3>3. InSequence(M2)
      BY <2>1, <2>3, <3>1, ElapseInSequence DEF CopyInSequence
    <3>4. ASSUME pc[w] \in Reading \cup Working
          PROVE  /\ DOMAIN S2 = DOMAIN S
                 /\ \A u \in DOMAIN S : S2[u].status = S[u].status /\ S2[u].owner = S[u].owner
      <4> DEFINE i == mine[w].iter
      <4>1. Exists(i) /\ i \in Iterations
        BY <2>1, <3>1, <3>4, JobIsSomething DEF CopyInOrder
      <4>2. IsJob(objects[i]) /\ objects'[i] = Elapse(objects[i])
        BY <1>1, <4>1 DEF IInv, TypeOK
      <4> QED BY <4>2, ElapseType, ElapseEffect DEF Extends
    <3>5. /\ mine'[w].tasks = M2 /\ objects'[mine'[w].iter].tasks = S2
          /\ mine[w].tasks = M /\ objects[mine[w].iter].tasks = S
          /\ pc'[w] = pc[w] /\ task'[w] = task[w]
      BY <1>1, <3>2
    <3> HIDE DEF M, M2, S, S2
    <3>6. pc[w] \in Busy => DependenciesCompleted(S2, task[w])
      BY <2>1, <3>4, <3>5 DEF CopyInSequence, DependenciesCompleted, Busy, Working
    <3>7. pc[w] \in Reading \cup Working => KnowsOwnTasks(w, M2, S2)
      BY <2>1, <3>2, <3>4, <3>5 DEF CopyInSequence, KnowsOwnTasks
    <3>8. ASSUME pc[w] \in Reading \cup Working, NEW u \in DOMAIN M2, M2[u].status = "Completed",
                 ~(pc[w] \in {"Execute", "SaveResult"} /\ M2[u].owner = w)
          PROVE  u \in DOMAIN S2 /\ S2[u].status = "Completed" /\ S2[u].owner = M2[u].owner
      BY <2>1, <3>2, <3>4, <3>5, <3>8 DEF CopyInSequence
    <3>9. ASSUME IsPipeline, pc[w] \in Busy, NEW u \in DOMAIN M2 \ {task[w]}, M2[u].owner = w
          PROVE  u \in DOMAIN S2 /\ S2[u].status = "Completed" /\ S2[u].owner = w
      BY <2>1, <3>2, <3>4, <3>5, <3>9 DEF CopyInSequence, Busy, Working
    <3> QED BY <3>3, <3>5, <3>6, <3>7, <3>8, <3>9 DEF CopyInSequence
  <2> QED BY <2>2, <2>3
<1> QED BY <1>2, <1>3 DEF SequenceInv

\* Nothing is stored and nothing is held at first.
LEMMA InitialSequence == Init => SequenceInv
BY DEF Init, SequenceInv, CopyInSequence, Exists, Reading, Working, Busy

\* Every step keeps the tasks in sequence, as long as no merge takes anything back and every task
\* waits for its dependencies to complete.
LEMMA InductiveSequence ==
    ASSUME NoTolerance
    PROVE  IInv /\ CarriedInv /\ OrderInv /\ ResultInv /\ SequenceInv /\ MergesTakeNothingBack /\ [Next]_vars
                => SequenceInv'
<1> SUFFICES ASSUME IInv, CarriedInv, OrderInv, ResultInv, SequenceInv, MergesTakeNothingBack, [Next]_vars
             PROVE  SequenceInv'
  OBVIOUS
<1>1. CASE UNCHANGED vars
  BY <1>1 DEF vars, SequenceInv, CopyInSequence, Exists
<1>2. CASE Tick
  BY <1>2, TickInSequence
<1>3. ASSUME NEW w \in Workers, GetJob(w)
      PROVE  SequenceInv'
  <2>1. PICK i \in Iterations : IsReadable(i) /\ Hold(w, "Advance", objects[i], "Current", NoTask)
    BY <1>3 DEF GetJob
  <2> QED BY <1>3, <2>1, ReadInSequence DEF GetJob, Reading
<1>4. ASSUME NEW w \in Workers, CreateNewJob(w)
      PROVE  SequenceInv'
  BY <1>4, PlanInSequence DEF CreateNewJob, Planning
<1>5. ASSUME NEW w \in Workers, PickInNewIteration(w)
      PROVE  SequenceInv'
  BY <1>5, RestInSequence, PickInSequence DEF PickInNewIteration, Rest, Reading
<1>6. ASSUME NEW w \in Workers, Step(w)
      PROVE  SequenceInv'
  BY <1>3, <1>4, <1>5, <1>6, AdvanceInSequence, SaveAcknowledgedInSequence, SaveRefusedInSequence,
     ExecutorReturnsInSequence DEF Step
<1>7. ASSUME NEW w \in Workers, Handle(w)
      PROVE  SequenceInv'
  BY <1>7, AddTaskInSequence, CompleteTaskResolves, FailTaskResolves, SkipTaskBranchResolves,
     ResolveInSequence, SetNextStartAtInSequence DEF Handle
<1>8. ASSUME NEW w \in Workers, ReleasedByDeadline(w) \/ Fault(w)
      PROVE  SequenceInv'
  BY <1>8, RestInSequence, SaveAnswerLostInSequence, SaveGivenUpInSequence
  DEF Fault, ReleasedByDeadline, Rest, Crash
<1> QED BY <1>1, <1>2, <1>6, <1>7, <1>8 DEF Next

\* No task runs ahead of its dependencies (find_unreachable_dependency_of, unblock, the merges),
\* where every task waits for all of them to complete: when a worker executes it, they are stored
\* as completed.
THEOREM DependenciesComeFirst ==
    ASSUME NoTolerance
    PROVE  Spec /\ []MergesTakeNothingBack => []DependenciesBeforeExecution
<1>1. SequenceInv => DependenciesBeforeExecution
  BY DEF SequenceInv, CopyInSequence, DependenciesBeforeExecution, DependenciesCompleted, Busy
<1> QED BY <1>1, InitialSequence, InductiveSequence, Invariance, CarriedInvariance, OrderInvariance,
           ResultInvariance, PTL DEF Spec

\* In a pipeline a worker never carries back what somebody else has taken over.
LEMMA PipelinesTakeNothingBack ==
    IsPipeline /\ IInv /\ ResultInv /\ SequenceInv => MergesTakeNothingBack
<1> SUFFICES ASSUME IsPipeline, SequenceInv, NEW w \in Workers, pc[w] = "SaveResult",
                    NEW t \in (DOMAIN objects[mine[w].iter].tasks
                                    \cap CarriedOver(objects[mine[w].iter], mine[w], w)) \ {task[w]}
             PROVE  ~OwnedByOther(objects[mine[w].iter].tasks[t], w)
  BY DEF MergesTakeNothingBack
<1>1. t \in DOMAIN mine[w].tasks /\ mine[w].tasks[t].owner = w
  BY DEF CarriedOver
<1>2. objects[mine[w].iter].tasks[t].owner = w
  BY <1>1 DEF SequenceInv, CopyInSequence, Busy
<1> QED BY <1>2 DEF OwnedByOther

\* Where the tasks of a job come one after another and each waits for the one before it to complete,
\* no merge takes anything back (merge_with_processed_task), however often a task is retried or
\* taken over and whatever is lost on the way.
THEOREM PipelineMerges ==
    ASSUME NoTolerance, IsPipeline
    PROVE  Spec => []MergesTakeNothingBack
<1> DEFINE Inv == ResultInv /\ SequenceInv
<1>1. Init => Inv
  BY InitialHand, InitialSequence
<1>2. IInv /\ CarriedInv /\ OrderInv /\ Inv /\ [Next]_vars => Inv'
  BY InductiveHand, InductiveSequence, PipelinesTakeNothingBack
<1>3. IInv /\ Inv => MergesTakeNothingBack
  BY PipelinesTakeNothingBack
<1> HIDE DEF Inv
<1> QED BY <1>1, <1>2, <1>3, Invariance, CarriedInvariance, OrderInvariance, PTL DEF Spec

\* So in a pipeline stored results are final, a task has one executor within its deadline, added
\* tasks have their planner, and nothing runs ahead of its dependencies, without any reservation.
THEOREM PipelinesAreSafe ==
    ASSUME NoTolerance, IsPipeline
    PROVE  /\ Spec => ResultIsFinal
           /\ Spec => []OneExecutorWithinDeadline
           /\ Spec => []AddedTaskHasPlanner
           /\ Spec => []DependenciesBeforeExecution
<1>1. Spec => []MergesTakeNothingBack
  BY PipelineMerges
<1> QED BY <1>1, ResultsAreFinal, OneExecutorAtATime, AddedTasksHavePlanners, DependenciesComeFirst, PTL

-----------------------------------------------------------------------------
(* Why a task that is started once keeps its worker: the sixth invariant *)

\* Nobody starts what somebody was stored as the worker of: a copy that matches the store knows every
\* worker stored there, and what it holds as its worker's own, except a start not written yet, is
\* stored as that worker's.
CopyOnce(w) ==
    LET stored == objects[mine[w].iter].tasks
        tasks == mine[w].tasks
    IN /\ mine[w] # Nothing => AreOnce(tasks)
       /\ pc[w] \in Reading \cup Working =>
            /\ version[w] = "Current" =>
                \A t \in DOMAIN stored : stored[t].owner # NoWorker =>
                    t \in DOMAIN tasks /\ tasks[t].owner = stored[t].owner
            /\ \A t \in DOMAIN tasks : tasks[t].owner = w /\ ~(pc[w] = "SaveStart" /\ t = task[w]) =>
                    t \in DOMAIN stored /\ stored[t].owner = w

OnceInv ==
    /\ \A i \in Iterations : Exists(i) => AreOnce(objects[i].tasks)
    /\ \A w \in Workers : CopyOnce(w)

\* A step that changes nothing but what one worker holds keeps this if it keeps it for that worker.
LEMMA OwnOnceStep ==
    ASSUME OnceInv, NEW w \in Workers, objects' = objects, OthersWait(w), CopyOnce(w)'
    PROVE  OnceInv'
<1>1. ASSUME NEW v \in Workers \ {w}
      PROVE  CopyOnce(v)'
  <2>1. CopyOnce(v)
    BY DEF OnceInv
  <2>2. pc'[v] = pc[v] /\ mine'[v] = mine[v] /\ task'[v] = task[v] /\ version'[v] = version[v]
    BY DEF OthersWait
  <2> QED BY <2>1, <2>2 DEF CopyOnce
<1>2. \A i \in Iterations : Exists(i)' => AreOnce(objects'[i].tasks)
  BY DEF OnceInv, Exists
<1> QED BY <1>1, <1>2 DEF OnceInv

\* A worker that drops what it holds, or dies.
LEMMA RestOnce ==
    ASSUME IInv, OnceInv, NEW w \in Workers, NEW place \in {"Idle", "Dead"},
           Hold(w, place, Nothing, "New", NoTask), objects' = objects
    PROVE  OnceInv'
<1>1. pc'[w] = place /\ mine'[w] = Nothing /\ OthersWait(w)
  BY HeldHand DEF IInv
<1>2. CopyOnce(w)'
  BY <1>1 DEF CopyOnce, Reading, Working
<1> QED BY <1>1, <1>2, OwnOnceStep

\* What is read is what is stored.
LEMMA ReadOnce ==
    ASSUME IInv, OnceInv, NEW w \in Workers, NEW i \in Iterations, IsReadable(i), NEW place \in Reading,
           Hold(w, place, objects[i], "Current", NoTask), objects' = objects
    PROVE  OnceInv'
<1>1. pc'[w] = place /\ mine'[w] = objects[i] /\ OthersWait(w)
  BY HeldHand DEF IInv
<1>2. objects[i].iter = i /\ AreOnce(objects[i].tasks)
  BY DEF IInv, TypeOK, OnceInv, IsReadable, IsNewest, IsClosed
<1>3. CopyOnce(w)'
  BY <1>1, <1>2 DEF CopyOnce
<1> QED BY <1>1, <1>3, OwnOnceStep

\* What is planned was not started.
LEMMA PlanOnce ==
    ASSUME IInv, OnceInv, NEW w \in Workers, NEW i, NEW place \in Planning,
           Hold(w, place, NewJob(w, i), "New", NoTask), objects' = objects
    PROVE  OnceInv'
<1>1. pc'[w] = place /\ mine'[w] = NewJob(w, i) /\ OthersWait(w)
  BY HeldHand DEF IInv
<1>2. AreOnce(NewJob(w, i).tasks)
  BY NewJobOnce
<1>3. CopyOnce(w)'
  BY <1>1, <1>2 DEF CopyOnce, Planning, Reading, Working
<1> QED BY <1>1, <1>3, OwnOnceStep

\* Only a task without a worker is picked.
LEMMA PickOnce ==
    ASSUME StartsOnce, IInv, ResultInv, OnceInv, NEW w \in Workers, pc[w] \in Reading, PickTask(w),
           objects' = objects
    PROVE  OnceInv'
<1> DEFINE stored == objects[mine[w].iter].tasks
           M == mine[w].tasks
<1>1. /\ IsJob(mine[w]) /\ AreSound(M) /\ AreOnce(M)
      /\ version[w] = "Current" => \A t \in DOMAIN stored : stored[t].owner # NoWorker =>
            t \in DOMAIN M /\ M[t].owner = stored[t].owner
      /\ \A t \in DOMAIN M : M[t].owner = w => t \in DOMAIN stored /\ stored[t].owner = w
  <2>1. IsJob(mine[w]) /\ HandInv(w) /\ CopyOnce(w) /\ mine[w] # Nothing
    BY JobIsSomething DEF IInv, WorkerInv, ResultInv, OnceInv
  <2>2. pc[w] # "SaveStart"
    BY DEF Reading
  <2> QED BY <2>1, <2>2 DEF HandInv, CopyOnce
<1> HIDE DEF stored
<1>2. PICK pickup \in Pickups(mine[w]) :
        \/ /\ pickup.kind = "Ready"
           /\ Hold(w, "SaveStart", StartTask(pickup.job, pickup.task, w), version[w], pickup.task)
        \/ /\ pickup.kind = "IterationSettled"
           /\ Hold(w, "SaveSettled", pickup.job, version[w], NoTask)
        \/ Rest(w)
  BY DEF PickTask
<1>3. ASSUME pickup.kind \in {"Ready", "IterationSettled"}
      PROVE  LET P == pickup.job.tasks
             IN /\ IsJob(pickup.job) /\ pickup.job.iter = mine[w].iter /\ DOMAIN P = DOMAIN M
                /\ AreSound(P) /\ AreOnce(P)
                /\ \A u \in DOMAIN P : P[u].owner = M[u].owner
  <2> DEFINE P == pickup.job.tasks
  <2>1. IsJob(pickup.job) /\ pickup.job.iter = mine[w].iter /\ DOMAIN P = DOMAIN M
    BY <1>1, <1>3, PickupsType DEF Extends
  <2>2. IsWorkOf(NoWorker, P, M) /\ AreSound(P) /\ AreOnce(P)
    BY <1>1, <1>3, PickupIsWork, PickupOnce
  <2> HIDE DEF P
  <2>3. \A u \in DOMAIN P : P[u].owner = M[u].owner
    BY <2>1, <2>2, NobodysWork
  <2> QED BY <2>1, <2>2, <2>3 DEF P
<1>4. CASE /\ pickup.kind = "Ready"
           /\ Hold(w, "SaveStart", StartTask(pickup.job, pickup.task, w), version[w], pickup.task)
  <2> DEFINE job == StartTask(pickup.job, pickup.task, w)
             N == job.tasks
             P == pickup.job.tasks
             t == pickup.task
  <2>1. t \in DOMAIN P /\ P[t].status = "Todo" /\ AreOnce(N)
    BY <1>1, <1>4, PickupOnce
  <2>2. /\ IsJob(pickup.job) /\ pickup.job.iter = mine[w].iter /\ DOMAIN P = DOMAIN M
        /\ AreSound(P) /\ \A u \in DOMAIN P : P[u].owner = M[u].owner
    BY <1>3, <1>4
  <2>3. P[t].owner = NoWorker
    BY <2>1, <2>2 DEF AreSound, IsSound, Results
  <2>4. /\ job.iter = mine[w].iter /\ DOMAIN N = DOMAIN P /\ \A u \in DOMAIN P \ {t} : N[u] = P[u]
    BY <2>2 DEF StartTask, IsJob
  <2>5. /\ pc'[w] = "SaveStart" /\ mine'[w] = job /\ task'[w] = t /\ version'[w] = version[w]
        /\ OthersWait(w)
    BY <1>4, HeldHand DEF IInv
  <2>6. stored = objects'[mine'[w].iter].tasks /\ mine'[w].tasks = N
    BY <2>4, <2>5 DEF stored
  <2> HIDE DEF N, job, P, t
  <2>7. version[w] = "Current" => \A u \in DOMAIN stored : stored[u].owner # NoWorker =>
            u \in DOMAIN N /\ N[u].owner = stored[u].owner
    BY <1>1, <2>1, <2>2, <2>3, <2>4
  <2>8. \A u \in DOMAIN N : N[u].owner = w /\ u # t => u \in DOMAIN stored /\ stored[u].owner = w
    BY <1>1, <2>2, <2>4
  <2>9. CopyOnce(w)'
    BY <2>1, <2>5, <2>6, <2>7, <2>8 DEF CopyOnce
  <2> QED BY <2>5, <2>9, OwnOnceStep
<1>5. CASE pickup.kind = "IterationSettled" /\ Hold(w, "SaveSettled", pickup.job, version[w], NoTask)
  <2> DEFINE P == pickup.job.tasks
  <2>1. /\ pickup.job.iter = mine[w].iter /\ DOMAIN P = DOMAIN M /\ AreOnce(P)
        /\ \A u \in DOMAIN P : P[u].owner = M[u].owner
    BY <1>3, <1>5
  <2>2. pc'[w] = "SaveSettled" /\ mine'[w] = pickup.job /\ version'[w] = version[w] /\ OthersWait(w)
    BY <1>5, HeldHand DEF IInv
  <2>3. stored = objects'[mine'[w].iter].tasks /\ mine'[w].tasks = P
    BY <2>1, <2>2 DEF stored
  <2> HIDE DEF P
  <2>4. CopyOnce(w)'
    BY <1>1, <2>1, <2>2, <2>3 DEF CopyOnce
  <2> QED BY <2>2, <2>4, OwnOnceStep
<1>6. CASE Rest(w)
  BY <1>6, RestOnce DEF Rest
<1> QED BY <1>2, <1>4, <1>5, <1>6

\* Advancing picks in the iteration that was read, or plans the next one.
LEMMA AdvanceOnce ==
    ASSUME StartsOnce, IInv, ResultInv, OnceInv, NEW w \in Workers, AdvanceJobIteration(w)
    PROVE  OnceInv'
<1>1. pc[w] \in Reading /\ objects' = objects
  BY DEF AdvanceJobIteration, Reading
<1>2. CASE PickTask(w)
  BY <1>1, <1>2, PickOnce
<1>3. CASE Hold(w, "SaveNewIteration", NewJob(w, mine[w].iter + 1), "New", NoTask)
  <2> DEFINE i == mine[w].iter + 1
  <2>1. Hold(w, "SaveNewIteration", NewJob(w, i), "New", NoTask)
    BY <1>3
  <2> HIDE DEF i
  <2> QED BY <1>1, <2>1, PlanOnce DEF Planning
<1>4. CASE Rest(w)
  BY <1>1, <1>4, RestOnce DEF Rest
<1> QED BY <1>2, <1>3, <1>4 DEF AdvanceJobIteration

\* A write names every worker the store names, so everybody else keeps what is stored as its own.
LEMMA WriteOnce ==
    ASSUME IInv, CarriedInv, OrderInv, ResultInv, OnceInv,
           NEW w \in Workers, pc[w] \in Saving, IsSaveAllowed(w), Store(w)
    PROVE  /\ objects'[mine[w].iter] = mine[w] /\ AreOnce(mine[w].tasks)
           /\ \A i \in Iterations : Exists(i)' => AreOnce(objects'[i].tasks)
           /\ \A v \in Workers \ {w} :
                /\ pc'[v] = pc[v] /\ mine'[v] = mine[v] /\ task'[v] = task[v]
                /\ version'[v] = OthersStale(w)[v]
                => CopyOnce(v)'
<1> DEFINE n == mine[w].iter
<1>1. /\ IsJob(mine[w]) /\ objects'[n] = mine[w] /\ mine[w] # Nothing
      /\ \A i \in Iterations \ {n} : objects'[i] = objects[i]
  BY WriteEffect, JobIsSomething
<1>2. AreOnce(mine[w].tasks) /\ CopyOnce(w)
  BY <1>1 DEF OnceInv, CopyOnce
<1>3. \A i \in Iterations : Exists(i)' => AreOnce(objects'[i].tasks)
  BY <1>1, <1>2 DEF OnceInv, Exists
<1>4. ASSUME NEW v \in Workers \ {w}, pc'[v] = pc[v], mine'[v] = mine[v], task'[v] = task[v],
             version'[v] = OthersStale(w)[v]
      PROVE  CopyOnce(v)'
  <2>1. CopyOnce(v) /\ WorkerInv(v) /\ CopyInOrder(v)
    BY DEF IInv, OnceInv, OrderInv
  <2>2. /\ version'[v] = "Current" => version[v] = "Current"
        /\ mine[v].iter = n => version'[v] # "Current"
    BY <1>4 DEF OthersStale
  <2>3. CASE pc[v] \notin Reading \cup Working
    BY <1>4, <2>1, <2>3 DEF CopyOnce
  <2>4. CASE pc[v] \in Reading \cup Working /\ mine[v].iter # n
    <3>1. mine[v].iter \in Iterations
      BY <2>1, <2>4, JobIsSomething DEF WorkerInv
    <3>2. objects'[mine[v].iter] = objects[mine[v].iter]
      BY <1>1, <2>4, <3>1
    <3> QED BY <1>4, <2>1, <2>2, <3>2 DEF CopyOnce
  <2>5. CASE pc[v] \in Reading \cup Working /\ mine[v].iter = n
    <3> DEFINE S == objects[n].tasks
               T == mine[w].tasks
    <3>1. Exists(n)
      BY <2>1, <2>5 DEF CopyInOrder
    <3>2. pc[w] \in Working /\ version[w] = "Current"
      BY <3>1, WriteRespects DEF IsSaveAllowed
    <3>3. \A u \in DOMAIN S : S[u].owner # NoWorker => u \in DOMAIN T /\ T[u].owner = S[u].owner
      BY <1>2, <3>2 DEF CopyOnce
    <3>4. /\ objects'[mine'[v].iter].tasks = T /\ objects[mine[v].iter].tasks = S
          /\ v # NoWorker
      BY <1>1, <1>4, <2>5, WorkersAssumption
    <3> HIDE DEF S, T
    <3> QED BY <1>4, <2>1, <2>2, <2>5, <3>3, <3>4 DEF CopyOnce
  <2> QED BY <2>3, <2>4, <2>5
<1> QED BY <1>1, <1>2, <1>3, <1>4

\* A worker whose write is acknowledged goes on with what is stored.
LEMMA SaveAcknowledgedOnce ==
    ASSUME IInv, CarriedInv, OrderInv, ResultInv, OnceInv, NEW w \in Workers, SaveAcknowledged(w)
    PROVE  OnceInv'
<1> DEFINE place == AfterSave(w)
           M == mine[w].tasks
<1>1. pc'[w] = place /\ mine'[w] = (IF place = "Idle" THEN Nothing ELSE mine[w])
  BY DEF SaveAcknowledged, IInv, TypeOK
<1>2. \A v \in Workers \ {w} : /\ pc'[v] = pc[v] /\ mine'[v] = mine[v] /\ task'[v] = task[v]
                               /\ version'[v] = OthersStale(w)[v]
  BY DEF SaveAcknowledged, OthersStale, IInv, TypeOK
<1>3. pc[w] \in Saving /\ IsSaveAllowed(w) /\ Store(w)
  BY DEF SaveAcknowledged
<1>4. /\ objects'[mine[w].iter] = mine[w] /\ AreOnce(M)
      /\ \A i \in Iterations : Exists(i)' => AreOnce(objects'[i].tasks)
      /\ \A v \in Workers \ {w} : CopyOnce(v)'
  BY <1>2, <1>3, WriteOnce
<1> HIDE DEF place
<1>5. CopyOnce(w)'
  <2>1. CASE place = "Idle"
    BY <1>1, <2>1 DEF CopyOnce, Reading, Working
  <2>2. CASE place # "Idle"
    <3>1. objects'[mine'[w].iter].tasks = M /\ mine'[w].tasks = M
      BY <1>1, <1>4, <2>2
    <3> HIDE DEF M
    <3> QED BY <1>4, <3>1 DEF CopyOnce
  <2> QED BY <2>1, <2>2
<1> QED BY <1>4, <1>5 DEF OnceInv

\* A lost answer leaves the worker with the copy it wrote.
LEMMA SaveAnswerLostOnce ==
    ASSUME IInv, CarriedInv, OrderInv, ResultInv, OnceInv, NEW w \in Workers, SaveAnswerLost(w)
    PROVE  OnceInv'
<1> DEFINE M == mine[w].tasks
<1>1. pc' = pc /\ mine' = mine /\ task' = task /\ pc[w] \in Saving /\ IsSaveAllowed(w) /\ Store(w)
  BY DEF SaveAnswerLost
<1>2. \A v \in Workers \ {w} : version'[v] = OthersStale(w)[v]
  BY DEF SaveAnswerLost, OthersStale, IInv, TypeOK
<1>3. /\ objects'[mine[w].iter] = mine[w] /\ AreOnce(M)
      /\ \A i \in Iterations : Exists(i)' => AreOnce(objects'[i].tasks)
      /\ \A v \in Workers \ {w} : CopyOnce(v)'
  BY <1>1, <1>2, WriteOnce
<1>4. objects'[mine'[w].iter].tasks = M /\ mine'[w].tasks = M
  BY <1>1, <1>3
<1> HIDE DEF M
<1>5. CopyOnce(w)'
  BY <1>3, <1>4 DEF CopyOnce
<1> QED BY <1>3, <1>5 DEF OnceInv

\* A write that was given up may have been applied.
LEMMA SaveGivenUpOnce ==
    ASSUME IInv, CarriedInv, OrderInv, ResultInv, OnceInv, NEW w \in Workers, SaveGivenUp(w)
    PROVE  OnceInv'
<1>1. pc'[w] = "Idle" /\ mine'[w] = Nothing
  BY DEF SaveGivenUp, IInv, TypeOK
<1>2. CopyOnce(w)'
  BY <1>1 DEF CopyOnce, Reading, Working
<1>3. CASE UNCHANGED objects /\ version' = [version EXCEPT ![w] = "New"]
  <2>1. OthersWait(w)
    BY <1>3 DEF SaveGivenUp, OthersWait, IInv, TypeOK
  <2> QED BY <1>2, <1>3, <2>1, OwnOnceStep
<1>4. CASE /\ IsSaveAllowed(w) /\ Store(w)
           /\ version' = [OthersStale(w) EXCEPT ![w] = "New"]
  <2>1. \A v \in Workers \ {w} : /\ pc'[v] = pc[v] /\ mine'[v] = mine[v] /\ task'[v] = task[v]
                                 /\ version'[v] = OthersStale(w)[v]
    BY <1>4 DEF SaveGivenUp, OthersStale, IInv, TypeOK
  <2>2. pc[w] \in Saving
    BY DEF SaveGivenUp
  <2>3. /\ \A i \in Iterations : Exists(i)' => AreOnce(objects'[i].tasks)
        /\ \A v \in Workers \ {w} : CopyOnce(v)'
    BY <1>4, <2>1, <2>2, WriteOnce
  <2> QED BY <1>2, <2>3 DEF OnceInv
<1> QED BY <1>3, <1>4 DEF SaveGivenUp
\* A merge leaves every stored task with its worker.
LEMMA SaveRefusedOnce ==
    ASSUME IInv, ResultInv, OnceInv, NEW w \in Workers, SaveRefused(w)
    PROVE  OnceInv'
<1> DEFINE Merge(i) == IF pc[w] = "SaveStart"
                       THEN MergePickedTask(objects[i], mine[w], w, task[w])
                       ELSE MergeProcessedTask(objects[i], mine[w], w, task[w])
<1>1. PICK i \in Iterations :
        /\ IsReadable(i)
        /\ \/ Hold(w, "Advance", objects[i], "Current", NoTask)
           \/ Hold(w, "Pick", objects[i], "Current", NoTask)
           \/ Rest(w)
           \/ /\ pc[w] \in {"SaveStart", "SaveResult"} /\ Merge(i).answer = "Merged"
              /\ mine' = [mine EXCEPT ![w] = Merge(i).job]
              /\ version' = [version EXCEPT ![w] = "Current"]
              /\ UNCHANGED <<pc, task, created>>
  BY DEF SaveRefused
<1>2. objects' = objects
  BY DEF SaveRefused
<1>3. CASE Hold(w, "Advance", objects[i], "Current", NoTask) \/ Hold(w, "Pick", objects[i], "Current", NoTask)
  BY <1>1, <1>2, <1>3, ReadOnce DEF Reading
<1>4. CASE Rest(w)
  BY <1>2, <1>4, RestOnce DEF Rest
<1>5. CASE /\ pc[w] \in {"SaveStart", "SaveResult"} /\ Merge(i).answer = "Merged"
           /\ mine' = [mine EXCEPT ![w] = Merge(i).job]
           /\ version' = [version EXCEPT ![w] = "Current"]
           /\ UNCHANGED <<pc, task, created>>
  <2> DEFINE merged == Merge(i).job
             N == merged.tasks
             S == objects[i].tasks
             M == mine[w].tasks
             t == task[w]
  <2>1. /\ HandInv(w) /\ CopyOnce(w) /\ IsJob(mine[w]) /\ mine[w] # Nothing
        /\ IsJob(objects[i]) /\ objects[i].iter = i /\ AreSound(S) /\ AreOnce(S) /\ t \in DOMAIN M
        /\ w # NoWorker
    BY <1>1, <1>5, JobIsSomething, WorkersAssumption
       DEF IInv, TypeOK, WorkerInv, Working, ResultInv, OnceInv, IsReadable, IsNewest, IsClosed
  <2>2. /\ mine'[w] = merged /\ pc'[w] = pc[w] /\ task'[w] = t /\ OthersWait(w)
    BY <1>5 DEF IInv, TypeOK, OthersWait
  <2>3. objects[i].iter = mine[w].iter /\ merged.iter = i
    <3>1. CASE pc[w] = "SaveStart"
      BY <1>5, <2>1, <3>1, MergePickedTaskType DEF Extends
    <3>2. CASE pc[w] = "SaveResult"
      BY <1>5, <2>1, <3>2, MergeProcessedTaskType DEF Extends
    <3> QED BY <1>5, <3>1, <3>2
  <2>4. i = mine[w].iter
    BY <2>1, <2>3
  <2>5. AreSound(M) /\ AreOnce(M) /\ M[t].owner = w
    BY <1>5, <2>1 DEF HandInv, CopyOnce
  <2>6. \A u \in DOMAIN M : M[u].owner = w /\ ~(pc[w] = "SaveStart" /\ u = t) => u \in DOMAIN S /\ S[u].owner = w
    BY <1>5, <2>1, <2>4 DEF CopyOnce, Working
  <2>7. /\ AreOnce(N)
        /\ \A u \in DOMAIN S : S[u].owner # NoWorker => u \in DOMAIN N /\ N[u].owner = S[u].owner
        /\ \A u \in DOMAIN N : N[u].owner = w /\ ~(pc[w] = "SaveStart" /\ u = t) =>
                u \in DOMAIN S /\ S[u].owner = w
    <3>1. CASE pc[w] = "SaveStart"
      <4>1. MergePickedTask(objects[i], mine[w], w, t).answer = "Merged"
            /\ merged = MergePickedTask(objects[i], mine[w], w, t).job
        BY <1>5, <3>1
      <4>2. /\ AreOnce(N) /\ DOMAIN N = DOMAIN S /\ N[t] = M[t] /\ ~OwnedByOther(S[t], w)
            /\ \A u \in DOMAIN S \ {t} : N[u].owner = S[u].owner
        BY <2>1, <2>5, <4>1, MergePickedOnce
      <4> HIDE DEF merged, S, M
      <4> QED BY <2>5, <3>1, <4>2 DEF OwnedByOther
    <3>2. CASE pc[w] = "SaveResult"
      <4>1. MergeProcessedTask(objects[i], mine[w], w, t).answer = "Merged"
            /\ merged = MergeProcessedTask(objects[i], mine[w], w, t).job
        BY <1>5, <3>2
      <4>2. \A u \in DOMAIN M : M[u].owner = w => u \in DOMAIN S /\ S[u].owner = w
        BY <2>6, <3>2
      <4>3. /\ AreOnce(N) /\ DOMAIN S \subseteq DOMAIN N
            /\ \A u \in DOMAIN S : N[u].owner = S[u].owner
        BY <2>1, <2>5, <4>1, <4>2, MergeProcessedOnce
      <4>4. \A u \in DOMAIN N : N[u].owner # NoWorker =>
                \/ u \in DOMAIN M /\ M[u].owner = w /\ N[u].owner = w
                \/ u \in DOMAIN S /\ N[u].owner = S[u].owner
        BY <2>1, <2>5, <4>1, MergeProcessedTaskHands
      <4> HIDE DEF merged, S, M
      <4> QED BY <2>1, <4>2, <4>3, <4>4
    <3> QED BY <1>5, <3>1, <3>2
  <2>8. S = objects'[mine'[w].iter].tasks /\ mine'[w].tasks = N
    BY <1>2, <2>2, <2>3
  <2> HIDE DEF merged, Merge, S, N
  <2>9. CopyOnce(w)'
    BY <2>2, <2>7, <2>8 DEF CopyOnce
  <2> QED BY <1>2, <2>2, <2>9, OwnOnceStep
<1> QED BY <1>1, <1>3, <1>4, <1>5

\* An executor hands no task to anybody.
LEMMA ExecuteOnce ==
    ASSUME IInv, CarriedInv, ResultInv, OnceInv, NEW w \in Workers, pc[w] = "Execute",
           NEW place \in {"Execute", "SaveResult"}, NEW job, NEW added,
           job.iter = mine[w].iter, AreOnce(job.tasks), IsExecutionOf(w, job.tasks, mine[w].tasks),
           DOMAIN mine[w].tasks \ created[w] \subseteq DOMAIN job.tasks,
           pc' = [pc EXCEPT ![w] = place], mine' = [mine EXCEPT ![w] = job],
           created' = [created EXCEPT ![w] = added], UNCHANGED <<objects, version, task>>
    PROVE  OnceInv'
<1> DEFINE stored == objects[mine[w].iter].tasks
           M == mine[w].tasks
           N == job.tasks
<1>1. pc'[w] = place /\ mine'[w] = job /\ version'[w] = version[w] /\ OthersWait(w)
  BY DEF IInv, TypeOK, OthersWait
<1>2. /\ version[w] = "Current" => \A u \in DOMAIN stored : stored[u].owner # NoWorker =>
            u \in DOMAIN M /\ M[u].owner = stored[u].owner
      /\ \A u \in DOMAIN M : M[u].owner = w => u \in DOMAIN stored /\ stored[u].owner = w
  BY DEF OnceInv, CopyOnce, Working
<1>3. w # NoWorker /\ \A u \in created[w] : M[u].owner = NoWorker
  BY ExecutingHand, WorkersAssumption DEF IsPlannedBy
<1>4. objects'[mine'[w].iter].tasks = stored /\ mine'[w].tasks = N
  BY <1>1
<1>5. /\ IsExecutionOf(w, N, M) /\ AreOnce(N) /\ DOMAIN M \ created[w] \subseteq DOMAIN N
  OBVIOUS
<1> HIDE DEF stored, M, N
<1>6. version[w] = "Current" => \A u \in DOMAIN stored : stored[u].owner # NoWorker =>
            u \in DOMAIN N /\ N[u].owner = stored[u].owner
  BY <1>2, <1>3, <1>5 DEF IsExecutionOf
<1>7. \A u \in DOMAIN N : N[u].owner = w => u \in DOMAIN stored /\ stored[u].owner = w
  BY <1>2, <1>3, <1>5 DEF IsExecutionOf
<1>8. CopyOnce(w)'
  BY <1>1, <1>4, <1>5, <1>6, <1>7 DEF CopyOnce
<1> QED BY <1>1, <1>8, OwnOnceStep

\* A task added through the handle was not started.
LEMMA AddTaskOnce ==
    ASSUME IInv, CarriedInv, ResultInv, OnceInv, NEW w \in Workers, AddTask(w)
    PROVE  OnceInv'
<1>1. PICK t \in TaskIds \ InitialTasks :
        /\ IsFresh(t, mine[w].iter)
        /\ mine' = [mine EXCEPT ![w] = [mine[w] EXCEPT !.tasks = WithTask(mine[w].tasks, t, NewTask(t, w))]]
        /\ created' = [created EXCEPT ![w] = created[w] \cup {t}]
        /\ UNCHANGED <<objects, pc, version, task>>
  BY DEF AddTask, Change
<1> DEFINE tasks == WithTask(mine[w].tasks, t, NewTask(t, w))
           job == [mine[w] EXCEPT !.tasks = tasks]
           M == mine[w].tasks
<1>2. pc[w] = "Execute"
  BY DEF AddTask
<1>3. IsJob(mine[w]) /\ AreOnce(M)
  <2>1. IsJob(mine[w]) /\ mine[w] # Nothing
    BY <1>2, ExecutingHand, JobIsSomething
  <2> QED BY <2>1 DEF OnceInv, CopyOnce
<1>4. job.tasks = tasks /\ job.iter = mine[w].iter
  <2> HIDE DEF tasks
  <2> QED BY <1>3 DEF IsJob
<1>5. DOMAIN tasks = DOMAIN M \cup {t} /\ t \notin DOMAIN M
  BY <1>1 DEF WithTask, IsFresh
<1>6. tasks[t] = NewTask(t, w) /\ \A u \in DOMAIN M : tasks[u] = M[u]
  BY <1>5 DEF WithTask
<1>7. mine' = [mine EXCEPT ![w] = job] /\ pc' = [pc EXCEPT ![w] = "Execute"]
  BY <1>1, <1>2 DEF IInv, TypeOK
<1> HIDE DEF tasks, job, M
<1>8. tasks[t].owner = NoWorker /\ IsOnce(tasks[t])
  BY <1>6, NewTaskIsSound, NewOnce
<1>9. IsExecutionOf(w, tasks, M) /\ AreOnce(tasks)
  BY <1>3, <1>5, <1>6, <1>8 DEF IsExecutionOf, AreOnce
<1>10. DOMAIN mine[w].tasks \ created[w] \subseteq DOMAIN tasks
  BY <1>5 DEF M
<1>11. IsExecutionOf(w, tasks, mine[w].tasks)
  BY <1>9 DEF M
<1> QED BY <1>1, <1>2, <1>4, <1>7, <1>9, <1>10, <1>11, ExecuteOnce

\* Whatever the handle resolves was started once.
LEMMA ResolveOnce ==
    ASSUME IInv, CarriedInv, ResultInv, OnceInv, NEW w \in Workers, Resolves(w)
    PROVE  OnceInv'
<1> PICK t, job, added : ResolvesTask(w, t, job, added)
  BY DEF Resolves
<1>1. /\ pc[w] = "Execute" /\ job.iter = mine[w].iter /\ IsResolvedBy(w, job.tasks, mine[w].tasks, t)
      /\ DOMAIN mine[w].tasks \ created[w] \subseteq DOMAIN job.tasks
      /\ Change(w, job) /\ created' = [created EXCEPT ![w] = added]
  BY DEF ResolvesTask
<1>2. AreOnce(mine[w].tasks)
  <2>1. IsJob(mine[w])
    BY <1>1, ExecutingHand
  <2> QED BY <2>1, JobIsSomething DEF OnceInv, CopyOnce
<1>3. AreOnce(job.tasks) /\ IsExecutionOf(w, job.tasks, mine[w].tasks)
  BY <1>1, <1>2, ResolvingOnce, ResolvingIsExecution
<1>4. /\ mine' = [mine EXCEPT ![w] = job] /\ UNCHANGED <<objects, version, task>>
      /\ pc' = [pc EXCEPT ![w] = "Execute"]
  BY <1>1 DEF Change, IInv, TypeOK
<1> QED BY <1>1, <1>3, <1>4, ExecuteOnce

\* Moving the start of the next iteration touches no task.
LEMMA SetNextStartAtOnce ==
    ASSUME IInv, CarriedInv, ResultInv, OnceInv, NEW w \in Workers, SetNextStartAt(w)
    PROVE  OnceInv'
<1>1. PICK delay \in StartDelays : Change(w, [mine[w] EXCEPT !.next = delay])
  BY DEF SetNextStartAt
<1> DEFINE job == [mine[w] EXCEPT !.next = delay]
<1>2. pc[w] = "Execute" /\ UNCHANGED created
  BY DEF SetNextStartAt
<1>3. IsJob(mine[w])
  BY <1>2, ExecutingHand
<1>4. job.tasks = mine[w].tasks /\ job.iter = mine[w].iter
  BY <1>3 DEF IsJob
<1>5. AreOnce(mine[w].tasks) /\ IsExecutionOf(w, mine[w].tasks, mine[w].tasks)
  BY <1>3, JobIsSomething DEF OnceInv, CopyOnce, IsExecutionOf
<1>6. /\ mine' = [mine EXCEPT ![w] = job] /\ UNCHANGED <<objects, version, task>>
      /\ pc' = [pc EXCEPT ![w] = "Execute"] /\ created' = [created EXCEPT ![w] = created[w]]
  BY <1>1, <1>2 DEF Change, IInv, TypeOK
<1> HIDE DEF job
<1> QED BY <1>2, <1>4, <1>5, <1>6, ExecuteOnce

\* The outcome of an executor resolves its task, and settling starts none.
LEMMA ExecutorReturnsOnce ==
    ASSUME IInv, CarriedInv, ResultInv, OnceInv, NEW w \in Workers, ExecutorReturns(w)
    PROVE  OnceInv'
<1>1. PICK outcome \in Outcomes :
        LET applied == AppliedOutcome(w, outcome)
        IN /\ mine' = [mine EXCEPT ![w] = TrySettleIteration(applied).job]
           /\ created' = [created EXCEPT ![w] = created[w] \cap DOMAIN applied.tasks]
  BY DEF ExecutorReturns
<1> DEFINE applied == AppliedOutcome(w, outcome)
           job == TrySettleIteration(applied).job
           added == created[w] \cap DOMAIN applied.tasks
           M == mine[w].tasks
<1>2. pc[w] = "Execute"
  BY DEF ExecutorReturns
<1>3. /\ IsJob(applied) /\ applied.iter = mine[w].iter
      /\ DOMAIN M \ created[w] \subseteq DOMAIN applied.tasks /\ DOMAIN applied.tasks \subseteq DOMAIN M
  BY <1>2, AppliedOutcomeType
<1>4. applied = mine[w] \/ IsResolvedBy(w, applied.tasks, M, task[w])
  BY <1>2, AppliedOutcomeHand
<1>5. /\ mine' = [mine EXCEPT ![w] = job] /\ created' = [created EXCEPT ![w] = added]
      /\ pc' = [pc EXCEPT ![w] = "SaveResult"] /\ UNCHANGED <<objects, version, task>>
  BY <1>1 DEF ExecutorReturns
<1> HIDE DEF applied
<1>6. AreSound(applied.tasks) /\ AreOnce(applied.tasks) /\ IsExecutionOf(w, applied.tasks, M)
  <2>1. IsJob(mine[w]) /\ AreSound(M)
    BY <1>2, ExecutingHand
  <2>2. AreOnce(M)
    BY <2>1, JobIsSomething DEF OnceInv, CopyOnce
  <2> HIDE DEF M
  <2>3. CASE applied = mine[w]
    BY <2>1, <2>2, <2>3 DEF IsExecutionOf, M
  <2>4. CASE IsResolvedBy(w, applied.tasks, M, task[w])
    BY <2>1, <2>2, <2>4, ResolvingIsWork, ResolvingOnce, ResolvingIsExecution
  <2> QED BY <1>4, <2>3, <2>4
<1>7. /\ job.iter = mine[w].iter /\ DOMAIN job.tasks = DOMAIN applied.tasks
      /\ IsWorkOf(NoWorker, job.tasks, applied.tasks) /\ AreOnce(job.tasks)
  BY <1>3, <1>6, TrySettleIterationType, SettlingIsWork, SettlingOnce DEF Extends
<1> HIDE DEF job, M
<1>8. \A u \in DOMAIN job.tasks : /\ job.tasks[u].owner = applied.tasks[u].owner
                                  /\ IsResult(job.tasks[u]) => job.tasks[u] = applied.tasks[u]
  BY <1>7, NobodysWork
<1>9. IsExecutionOf(w, job.tasks, M)
  BY <1>6, <1>7, <1>8 DEF IsExecutionOf
<1>10. IsExecutionOf(w, job.tasks, mine[w].tasks) /\ DOMAIN mine[w].tasks \ created[w] \subseteq DOMAIN job.tasks
  BY <1>3, <1>7, <1>9 DEF M
<1> HIDE DEF added
<1> QED BY <1>2, <1>5, <1>7, <1>10, ExecuteOnce

\* Time gives no task to anybody.
LEMMA TickOnce ==
    ASSUME IInv, OrderInv, OnceInv, Tick
    PROVE  OnceInv'
<1>1. /\ \A i \in Iterations : objects'[i] = IF Exists(i) THEN Elapse(objects[i]) ELSE Nothing
      /\ \A w \in Workers : mine'[w] = IF mine[w] # Nothing THEN Elapse(mine[w]) ELSE Nothing
      /\ pc' = pc /\ task' = task /\ version' = version
  BY DEF Tick
<1>2. ASSUME NEW i \in Iterations, Exists(i)'
      PROVE  AreOnce(objects'[i].tasks)
  <2>1. Exists(i) /\ objects'[i] = Elapse(objects[i])
    BY <1>1, <1>2 DEF Exists
  <2>2. IsJob(objects[i]) /\ AreOnce(objects[i].tasks)
    BY <2>1 DEF IInv, TypeOK, OnceInv
  <2> QED BY <2>1, <2>2, ElapseOnce
<1>3. ASSUME NEW w \in Workers
      PROVE  CopyOnce(w)'
  <2>1. CopyOnce(w) /\ WorkerInv(w) /\ CopyInOrder(w) /\ (mine[w] # Nothing => IsJob(mine[w]))
    BY DEF IInv, TypeOK, OrderInv, OnceInv
  <2>2. CASE mine[w] = Nothing
    <3>1. mine'[w] = Nothing /\ pc'[w] \notin Planning \cup Reading \cup Working
      BY <1>1, <2>1, <2>2, JobIsSomething DEF WorkerInv
    <3> QED BY <3>1 DEF CopyOnce
  <2>3. CASE mine[w] # Nothing
    <3> DEFINE M == mine[w].tasks
               M2 == mine'[w].tasks
               S == objects[mine[w].iter].tasks
               S2 == objects'[mine[w].iter].tasks
    <3>1. mine'[w] = Elapse(mine[w]) /\ IsJob(mine[w])
      BY <1>1, <2>1, <2>3
    <3>2. /\ mine'[w].iter = mine[w].iter /\ DOMAIN M2 = DOMAIN M
          /\ \A u \in DOMAIN M : M2[u].owner = M[u].owner
      BY <3>1, ElapseType, ElapseEffect DEF Extends
    <3>3. AreOnce(M2)
      BY <2>1, <2>3, <3>1, ElapseOnce DEF CopyOnce
    <3>4. ASSUME pc[w] \in Reading \cup Working
          PROVE  DOMAIN S2 = DOMAIN S /\ \A u \in DOMAIN S : S2[u].owner = S[u].owner
      <4> DEFINE i == mine[w].iter
      <4>1. Exists(i) /\ i \in Iterations
        BY <2>1, <3>1, <3>4, JobIsSomething DEF CopyInOrder
      <4>2. IsJob(objects[i]) /\ objects'[i] = Elapse(objects[i])
        BY <1>1, <4>1 DEF IInv, TypeOK
      <4> QED BY <4>2, ElapseType, ElapseEffect DEF Extends
    <3>5. /\ mine'[w].tasks = M2 /\ objects'[mine'[w].iter].tasks = S2
          /\ mine[w].tasks = M /\ objects[mine[w].iter].tasks = S
          /\ pc'[w] = pc[w] /\ task'[w] = task[w] /\ version'[w] = version[w]
      BY <1>1, <3>2
    <3> HIDE DEF M, M2, S, S2
    <3> QED BY <2>1, <3>2, <3>3, <3>4, <3>5 DEF CopyOnce
  <2> QED BY <2>2, <2>3
<1> QED BY <1>2, <1>3 DEF OnceInv

\* Nothing is stored and nothing is held at first.
LEMMA InitialOnce == Init => OnceInv
BY DEF Init, OnceInv, CopyOnce, Exists, Reading, Working

\* Every step leaves a task that somebody started with its worker.
LEMMA InductiveOnce ==
    ASSUME StartsOnce
    PROVE  IInv /\ CarriedInv /\ OrderInv /\ ResultInv /\ OnceInv /\ [Next]_vars => OnceInv'
<1> SUFFICES ASSUME IInv, CarriedInv, OrderInv, ResultInv, OnceInv, [Next]_vars
             PROVE  OnceInv'
  OBVIOUS
<1>1. CASE UNCHANGED vars
  BY <1>1 DEF vars, OnceInv, CopyOnce, Exists
<1>2. CASE Tick
  BY <1>2, TickOnce
<1>3. ASSUME NEW w \in Workers, GetJob(w)
      PROVE  OnceInv'
  <2>1. PICK i \in Iterations : IsReadable(i) /\ Hold(w, "Advance", objects[i], "Current", NoTask)
    BY <1>3 DEF GetJob
  <2> QED BY <1>3, <2>1, ReadOnce DEF GetJob, Reading
<1>4. ASSUME NEW w \in Workers, CreateNewJob(w)
      PROVE  OnceInv'
  BY <1>4, PlanOnce DEF CreateNewJob, Planning
<1>5. ASSUME NEW w \in Workers, PickInNewIteration(w)
      PROVE  OnceInv'
  BY <1>5, RestOnce, PickOnce DEF PickInNewIteration, Rest, Reading
<1>6. ASSUME NEW w \in Workers, Step(w)
      PROVE  OnceInv'
  BY <1>3, <1>4, <1>5, <1>6, AdvanceOnce, SaveAcknowledgedOnce, SaveRefusedOnce, ExecutorReturnsOnce DEF Step
<1>7. ASSUME NEW w \in Workers, Handle(w)
      PROVE  OnceInv'
  BY <1>7, AddTaskOnce, CompleteTaskResolves, FailTaskResolves, SkipTaskBranchResolves,
     ResolveOnce, SetNextStartAtOnce DEF Handle
<1>8. ASSUME NEW w \in Workers, ReleasedByDeadline(w) \/ Fault(w)
      PROVE  OnceInv'
  BY <1>8, RestOnce, SaveAnswerLostOnce, SaveGivenUpOnce DEF Fault, ReleasedByDeadline, Rest, Crash
<1> QED BY <1>1, <1>2, <1>6, <1>7, <1>8 DEF Next

\* What a worker carries over is stored as its own.
LEMMA OnceTakesNothingBack == OnceInv => MergesTakeNothingBack
<1> SUFFICES ASSUME OnceInv, NEW w \in Workers, pc[w] = "SaveResult",
                    NEW t \in (DOMAIN objects[mine[w].iter].tasks
                                    \cap CarriedOver(objects[mine[w].iter], mine[w], w)) \ {task[w]}
             PROVE  ~OwnedByOther(objects[mine[w].iter].tasks[t], w)
  BY DEF MergesTakeNothingBack
<1>1. t \in DOMAIN mine[w].tasks /\ mine[w].tasks[t].owner = w
  BY DEF CarriedOver
<1>2. objects[mine[w].iter].tasks[t].owner = w
  BY <1>1 DEF OnceInv, CopyOnce, Working
<1> QED BY <1>2 DEF OwnedByOther

\* Where a task has one attempt and a deadline that is the end of its lifetime, no merge takes
\* anything back (merge_with_processed_task), whatever the tasks depend on or tolerate.
THEOREM SingleStartMerges ==
    ASSUME StartsOnce
    PROVE  Spec => []MergesTakeNothingBack
<1> DEFINE Inv == ResultInv /\ OnceInv
<1>1. Init => Inv
  BY InitialHand, InitialOnce
<1>2. IInv /\ CarriedInv /\ OrderInv /\ Inv /\ [Next]_vars => Inv'
  BY InductiveHand, InductiveOnce, OnceTakesNothingBack
<1>3. Inv => MergesTakeNothingBack
  BY OnceTakesNothingBack
<1> HIDE DEF Inv
<1> QED BY <1>1, <1>2, <1>3, Invariance, CarriedInvariance, OrderInvariance, PTL DEF Spec

\* So there stored results are final, a task has one executor within its deadline and added tasks
\* have their planner, without any reservation; and nothing runs ahead of its dependencies where
\* every task waits for all of them to complete.
THEOREM SingleStartsAreSafe ==
    ASSUME StartsOnce
    PROVE  /\ Spec => ResultIsFinal
           /\ Spec => []OneExecutorWithinDeadline
           /\ Spec => []AddedTaskHasPlanner
           /\ NoTolerance => (Spec => []DependenciesBeforeExecution)
<1>1. Spec => []MergesTakeNothingBack
  BY SingleStartMerges
<1>2. NoTolerance => (Spec => []DependenciesBeforeExecution)
  <2> HAVE NoTolerance
  <2> QED BY <1>1, DependenciesComeFirst, PTL
<1> QED BY <1>1, <1>2, ResultsAreFinal, OneExecutorAtATime, AddedTasksHavePlanners, PTL

=============================================================================
