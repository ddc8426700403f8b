-------------------------- MODULE JobState_proofs ---------------------------
(***************************************************************************)
(* What the operators of JobState preserve, for every set of workers and   *)
(* tasks and every limit: the types, the number of the iteration, the      *)
(* tasks it holds, and which of them may close it; where the cascade ends; *)
(* that tasks in an order are never deadlocked; what a single task may     *)
(* become, who its worker may be, when it is released and how often it is  *)
(* started.                                                                *)
(***************************************************************************)
EXTENDS JobState, Extrema, FiniteSetTheorems, TLAPS

IsTaskMap(tasks) == DOMAIN tasks \subseteq TaskIds /\ \A t \in DOMAIN tasks : tasks[t] \in Task

-----------------------------------------------------------------------------
(* Tasks *)

\* A tick keeps a moment a moment.
LEMMA CloserType ==
    ASSUME NEW moment \in Moment
    PROVE  Closer(moment) \in Moment
BY DEF Closer, Moment, Unset

\* A planned task has the type of a task (Task::new).
LEMMA NewTaskType ==
    ASSUME NEW t \in TaskIds, NEW w \in Workers
    PROVE  NewTask(t, w) \in Task
BY DEF NewTask, Task, TaskStatus, Moment, Unset

\* A started task has the type of a task (Task::start).
LEMMA StartedTaskType ==
    ASSUME NEW task \in Task, NEW w \in Workers
    PROVE  StartedTask(task, w) \in Task
<1> DEFINE outlives == IF task.outlives = Unset THEN MaxLifetime + 1 ELSE task.outlives
           expires == IF Timeout + 1 < outlives THEN Timeout + 1 ELSE outlives
           attempt == IF task.status = "Started" THEN task.attempt ELSE task.attempt + 1
<1>1. outlives \in Moment /\ expires \in Moment /\ attempt \in Nat
  BY LimitsAssumption DEF Task, Moment, Unset
<1>2. StartedTask(task, w) = [task EXCEPT !.status = "Started", !.owner = w, !.attempt = attempt,
                                          !.expires = expires, !.outlives = outlives, !.pause = Unset]
  BY DEF StartedTask
<1> HIDE DEF outlives, expires, attempt
<1> QED BY <1>1, <1>2 DEF Task, TaskStatus, Moment

\* Completing, skipping and failing keep the type (Task::complete, Task::skip, Task::fail).
LEMMA EndedTaskType ==
    ASSUME NEW task \in Task, NEW status \in TaskStatus
    PROVE  Ended(task, status) \in Task
BY DEF Ended, Task, Moment

\* A failed task is a task.
LEMMA FailedTaskType ==
    ASSUME NEW task \in Task, NEW retry \in {"WhileBudgetLasts", "Never"}
    PROVE  FailedTask(task, retry) \in Task
BY LimitsAssumption DEF FailedTask, Task, TaskStatus, Moment

-----------------------------------------------------------------------------
(* Task maps *)

\* Failing what outlived its lifetime neither adds nor drops a task.
LEMMA FailTasksByLifetimeType ==
    ASSUME NEW tasks, IsTaskMap(tasks)
    PROVE  IsTaskMap(FailTasksByLifetime(tasks)) /\ DOMAIN FailTasksByLifetime(tasks) = DOMAIN tasks
BY FailedTaskType DEF FailTasksByLifetime, IsTaskMap

\* Neither does the cascade, whatever its generations come to.
LEMMA SkipUnreachableTasksType ==
    ASSUME NEW tasks, IsTaskMap(tasks)
    PROVE  IsTaskMap(SkipUnreachableTasks(tasks)) /\ DOMAIN SkipUnreachableTasks(tasks) = DOMAIN tasks
<1> DEFINE generation[n \in Nat] == IF n = 0 THEN tasks ELSE PutOutGeneration(generation[n - 1])
           last == generation[Cardinality(DOMAIN tasks)]
<1>1. SkipUnreachableTasks(tasks) =
        [t \in DOMAIN tasks |-> IF tasks[t].status = "Blocked" /\ last[t].status \in Skipped
                                THEN Ended(tasks[t], last[t].status) ELSE tasks[t]]
  BY Zenon DEF SkipUnreachableTasks
<1> HIDE DEF last
<1>2. \A t \in DOMAIN tasks : last[t].status \in Skipped => last[t].status \in TaskStatus
  BY DEF TaskStatus
<1> QED BY <1>1, <1>2, EndedTaskType DEF IsTaskMap

\* unblock_satisfied_tasks neither adds nor removes a task.
LEMMA UnblockSatisfiedTasksType ==
    ASSUME NEW tasks, IsTaskMap(tasks)
    PROVE  IsTaskMap(UnblockSatisfiedTasks(tasks)) /\ DOMAIN UnblockSatisfiedTasks(tasks) = DOMAIN tasks
<1>1. \A t \in DOMAIN tasks : [tasks[t] EXCEPT !.status = "Todo"] \in Task
  BY DEF IsTaskMap, Task, TaskStatus
<1> QED BY <1>1 DEF UnblockSatisfiedTasks, IsTaskMap

\* An insert into tasks_by_id adds at most the one task.
LEMMA WithTaskType ==
    ASSUME NEW tasks, IsTaskMap(tasks), NEW t \in TaskIds, NEW task \in Task
    PROVE  IsTaskMap(WithTask(tasks, t, task)) /\ DOMAIN WithTask(tasks, t, task) = DOMAIN tasks \cup {t}
BY DEF WithTask, IsTaskMap

-----------------------------------------------------------------------------
(* Jobs *)

\* next has the number, the type and at least the tasks of job.
Extends(next, job) ==
    IsJob(next) /\ next.iter = job.iter /\ DOMAIN job.tasks \subseteq DOMAIN next.tasks

\* Replacing the tasks of a job by a map that holds at least as many extends it.
LEMMA WithTasksExtends ==
    ASSUME NEW job, IsJob(job), NEW tasks, IsTaskMap(tasks), DOMAIN job.tasks \subseteq DOMAIN tasks
    PROVE  /\ Extends([job EXCEPT !.tasks = tasks], job)
           /\ [job EXCEPT !.tasks = tasks].tasks = tasks
           /\ [job EXCEPT !.tasks = tasks].status = job.status
BY DEF Extends, IsJob, IsTaskMap

\* A planned iteration is open and has the type of a job (Job::new, Job::next_iteration).
LEMMA NewJobType ==
    ASSUME NEW w \in Workers, NEW iter \in 1 .. MaxIterations
    PROVE  IsJob(NewJob(w, iter)) /\ NewJob(w, iter).iter = iter /\ ~IsProcessed(NewJob(w, iter))
<1> DEFINE tasks == [t \in InitialTasks |-> NewTask(t, w)]
<1>1. IsTaskMap(tasks)
  BY NewTaskType, TasksAssumption DEF IsTaskMap
<1> HIDE DEF tasks
<1>2. NewJob(w, iter) = [iter |-> iter, status |-> "Started", tasks |-> tasks,
                         due |-> IterationInterval, next |-> Unset]
  BY DEF NewJob, tasks
<1> QED BY <1>1, <1>2, LimitsAssumption
        DEF IsJob, IsTaskMap, IsProcessed, Verdicts, JobStatus, Moment, Unset

\* Time changes neither what an iteration is nor what it holds.
LEMMA ElapseType ==
    ASSUME NEW job, IsJob(job)
    PROVE  /\ Extends(Elapse(job), job) /\ Elapse(job).status = job.status
           /\ DOMAIN Elapse(job).tasks = DOMAIN job.tasks
<1> DEFINE tasks == [t \in DOMAIN job.tasks |-> ElapsedTask(job.tasks[t])]
<1>1. IsTaskMap(tasks) /\ DOMAIN tasks = DOMAIN job.tasks
  <2>1. ASSUME NEW task \in Task
        PROVE  ElapsedTask(task) \in Task
    <3>1. /\ Closer(task.expires) \in Moment /\ Closer(task.outlives) \in Moment
          /\ Closer(task.pause) \in Moment
      BY CloserType DEF Task
    <3> QED BY <3>1 DEF ElapsedTask, Task
  <2> QED BY <2>1 DEF IsTaskMap, IsJob
<1>2. Elapse(job) = [job EXCEPT !.tasks = tasks, !.due = Closer(job.due), !.next = Closer(job.next)]
  BY DEF Elapse, IsJob
<1>3. Closer(job.due) \in Moment /\ Closer(job.next) \in Moment
  BY CloserType DEF IsJob
<1> HIDE DEF tasks
<1> QED BY <1>1, <1>2, <1>3 DEF IsJob, Extends, IsTaskMap

\* try_settle_iteration keeps the tasks, and closes the iteration only where it answers so.
LEMMA TrySettleIterationType ==
    ASSUME NEW job, IsJob(job)
    PROVE  LET settling == TrySettleIteration(job)
           IN /\ Extends(settling.job, job) /\ DOMAIN settling.job.tasks = DOMAIN job.tasks
              /\ settling.answer # "Settled" => settling.job.status = job.status
<1> DEFINE tasks == UnblockSatisfiedTasks(SkipUnreachableTasks(job.tasks))
           answer == TrySettleIteration(job).answer
           verdict == IF answer = "Settled" THEN IterationVerdict(tasks) ELSE job.status
<1>1. IsTaskMap(tasks) /\ DOMAIN tasks = DOMAIN job.tasks
  <2>1. IsTaskMap(job.tasks)
    BY DEF IsJob, IsTaskMap
  <2> QED BY <2>1, SkipUnreachableTasksType, UnblockSatisfiedTasksType
<1>2. verdict \in JobStatus
  BY DEF IterationVerdict, JobStatus, Verdicts, IsJob
<1>3. TrySettleIteration(job).job = [job EXCEPT !.tasks = tasks, !.status = verdict]
  BY DEF TrySettleIteration
<1> HIDE DEF tasks, answer
<1> QED BY <1>1, <1>2, <1>3 DEF Extends, IsJob, IsTaskMap, answer

\* Whatever a pick comes to, it stays in the iteration, keeps its tasks, and hands out a task
\* only of an open iteration (pick_task_to_execute).
LEMMA PickupsType ==
    ASSUME NEW job, IsJob(job), NEW pickup \in Pickups(job)
    PROVE  /\ pickup.kind \in {"Ready", "IterationSettled"} =>
                Extends(pickup.job, job) /\ DOMAIN pickup.job.tasks = DOMAIN job.tasks
           /\ pickup.kind = "Ready" => /\ ~IsProcessed(pickup.job)
                                       /\ pickup.task \in DOMAIN pickup.job.tasks
<1> DEFINE tasks == FailTasksByLifetime(job.tasks)
           running == [job EXCEPT !.status = "Running", !.tasks = tasks]
           settling == TrySettleIteration(running)
           Ready(j) == {[kind |-> "Ready", job |-> j, task |-> t] : t \in PickableTasks(j.tasks)}
<1>1. IsTaskMap(tasks) /\ DOMAIN tasks = DOMAIN job.tasks
  <2>1. IsTaskMap(job.tasks)
    BY DEF IsJob, IsTaskMap
  <2> QED BY <2>1, FailTasksByLifetimeType
<1>2. Extends(running, job) /\ running.status = "Running" /\ DOMAIN running.tasks = DOMAIN job.tasks
  <2> HIDE DEF tasks
  <2> QED BY <1>1 DEF Extends, IsJob, IsTaskMap, JobStatus
<1>3. /\ Extends(settling.job, job) /\ DOMAIN settling.job.tasks = DOMAIN job.tasks
      /\ settling.answer # "Settled" => settling.job.status = "Running"
  <2> HIDE DEF running
  <2> QED BY <1>2, TrySettleIterationType DEF Extends
<1>4. \/ pickup \in Ready(running)
      \/ settling.answer = "Settled" /\ pickup = [kind |-> "IterationSettled", job |-> settling.job]
      \/ pickup = [kind |-> "Deadlock"]
      \/ settling.answer # "Settled" /\ pickup \in Ready(settling.job)
      \/ pickup = [kind |-> "Waiting"]
  <2>1. running = [job EXCEPT !.status = "Running", !.tasks = FailTasksByLifetime(@)]
    OBVIOUS
  <2> HIDE DEF running, settling, Ready
  <2>2. \/ Ready(running) # {} /\ Pickups(job) = Ready(running)
        \/ /\ Ready(running) = {} /\ settling.answer = "Settled"
           /\ Pickups(job) = {[kind |-> "IterationSettled", job |-> settling.job]}
        \/ /\ Ready(running) = {} /\ settling.answer = "Deadlock"
           /\ Pickups(job) = {[kind |-> "Deadlock"]}
        \/ /\ Ready(running) = {} /\ settling.answer \notin {"Settled", "Deadlock"}
           /\ Pickups(job) \in {Ready(settling.job), {[kind |-> "Waiting"]}}
    BY <2>1 DEF Pickups, settling, Ready
  <2> QED BY <2>2
<1> HIDE DEF running, settling
<1> QED BY <1>2, <1>3, <1>4 DEF PickableTasks, IsProcessed, Verdicts

\* Starting a task changes no other part of the job.
LEMMA StartTaskType ==
    ASSUME NEW job, IsJob(job), NEW t \in TaskIds, NEW w \in Workers
    PROVE  /\ Extends(StartTask(job, t, w), job) /\ StartTask(job, t, w).status = job.status
           /\ DOMAIN StartTask(job, t, w).tasks = DOMAIN job.tasks
<1> DEFINE tasks == [job.tasks EXCEPT ![t] = StartedTask(@, w)]
<1>1. IsTaskMap(tasks) /\ DOMAIN tasks = DOMAIN job.tasks
  BY StartedTaskType DEF IsJob, IsTaskMap
<1>2. StartTask(job, t, w) = [job EXCEPT !.tasks = tasks]
  BY DEF StartTask
<1> HIDE DEF tasks
<1> QED BY <1>1, <1>2, WithTasksExtends

\* An execution that resolves a task leaves the rest of the job alone (complete_task,
\* skip_task_by_executor).
LEMMA EndTaskType ==
    ASSUME NEW job, IsJob(job), NEW t, NEW status \in TaskStatus
    PROVE  /\ Extends([job EXCEPT !.tasks[t] = Ended(@, status)], job)
           /\ [job EXCEPT !.tasks[t] = Ended(@, status)].status = job.status
<1> DEFINE tasks == [job.tasks EXCEPT ![t] = Ended(@, status)]
<1>1. IsTaskMap(tasks) /\ DOMAIN tasks = DOMAIN job.tasks
  BY EndedTaskType DEF IsJob, IsTaskMap
<1>2. [job EXCEPT !.tasks[t] = Ended(@, status)] = [job EXCEPT !.tasks = tasks]
  OBVIOUS
<1> HIDE DEF tasks
<1> QED BY <1>1, <1>2, WithTasksExtends

\* Nor does it drop a task.
LEMMA EndTaskKeepsTasks ==
    ASSUME NEW job, IsJob(job), NEW t, NEW status \in TaskStatus
    PROVE  DOMAIN [job EXCEPT !.tasks[t] = Ended(@, status)].tasks = DOMAIN job.tasks
BY DEF IsJob

\* next is job, but for what became of the tasks it holds and for the ones that were dropped.
KeepsBut(dropped, next, job) ==
    /\ IsJob(next) /\ next.iter = job.iter /\ next.status = job.status
    /\ DOMAIN next.tasks = DOMAIN job.tasks \ dropped

\* The rollback of fail_task drops nothing but what the execution created.
LEMMA FailTaskType ==
    ASSUME NEW job, IsJob(job), NEW t, NEW retry \in {"WhileBudgetLasts", "Never"}, NEW dropped
    PROVE  KeepsBut(dropped, FailTask(job, t, retry, dropped), job)
<1> DEFINE tasks == [u \in DOMAIN job.tasks \ dropped |->
                        IF u = t THEN FailedTask(job.tasks[t], retry) ELSE job.tasks[u]]
<1>1. IsTaskMap(tasks) /\ DOMAIN tasks = DOMAIN job.tasks \ dropped
  BY FailedTaskType DEF IsJob, IsTaskMap
<1>2. FailTask(job, t, retry, dropped) = [job EXCEPT !.tasks = tasks]
  BY DEF FailTask
<1> HIDE DEF tasks
<1> QED BY <1>1, <1>2 DEF KeepsBut, IsJob, IsTaskMap

\* A start is merged into its own iteration only, while that is open, and takes no task away
\* (merge_with_picked_task).
LEMMA MergePickedTaskType ==
    ASSUME NEW stored, IsJob(stored), NEW mine, IsJob(mine), NEW w,
           NEW t, t \in DOMAIN mine.tasks,
           MergePickedTask(stored, mine, w, t).answer = "Merged"
    PROVE  LET merged == MergePickedTask(stored, mine, w, t).job
           IN /\ Extends(merged, stored) /\ merged.status = mine.status
              /\ stored.iter = mine.iter /\ ~IsProcessed(stored)
              /\ DOMAIN merged.tasks = DOMAIN stored.tasks /\ t \in DOMAIN merged.tasks
<1> DEFINE kept == SkipUnreachableTasks(FailTasksByLifetime(stored.tasks))
           tasks == WithTask(kept, t, mine.tasks[t])
<1>1. IsTaskMap(kept) /\ DOMAIN kept = DOMAIN stored.tasks
  <2>1. IsTaskMap(stored.tasks)
    BY DEF IsJob, IsTaskMap
  <2> QED BY <2>1, FailTasksByLifetimeType, SkipUnreachableTasksType
<1>2. t \in TaskIds /\ mine.tasks[t] \in Task
  BY DEF IsJob
<1>3. IsTaskMap(tasks) /\ DOMAIN tasks = DOMAIN stored.tasks \cup {t}
  <2> HIDE DEF kept
  <2> QED BY <1>1, <1>2, WithTaskType
<1>4. /\ TaskStolen(stored, mine, w, t) = "No" /\ ~IsProcessed(stored)
      /\ MergePickedTask(stored, mine, w, t).job = [stored EXCEPT !.status = mine.status, !.tasks = tasks]
  BY DEF MergePickedTask, TaskStolen
<1>5. stored.iter = mine.iter /\ t \in DOMAIN stored.tasks
  BY <1>4 DEF TaskStolen
<1> HIDE DEF tasks
<1> QED BY <1>3, <1>4, <1>5 DEF Extends, IsJob, IsTaskMap

\* Neither does a result (merge_with_processed_task).
LEMMA MergeProcessedTaskType ==
    ASSUME NEW stored, IsJob(stored), NEW mine, IsJob(mine), NEW w, NEW t,
           MergeProcessedTask(stored, mine, w, t).answer = "Merged"
    PROVE  LET merged == MergeProcessedTask(stored, mine, w, t).job
           IN /\ Extends(merged, stored)
              /\ stored.iter = mine.iter /\ ~IsProcessed(stored)
              /\ DOMAIN merged.tasks = DOMAIN stored.tasks \cup CarriedOver(stored, mine, w)
              /\ t \in DOMAIN merged.tasks
<1> DEFINE carried == CarriedOver(stored, mine, w)
           tasks == [u \in DOMAIN stored.tasks \cup carried |->
                        IF u \in carried THEN mine.tasks[u] ELSE stored.tasks[u]]
           next == IF mine.next # Unset THEN mine.next ELSE stored.next
           both == [stored EXCEPT !.status = "Running", !.tasks = tasks, !.next = next]
<1>1. IsTaskMap(tasks) /\ DOMAIN tasks = DOMAIN stored.tasks \cup carried
  BY DEF CarriedOver, IsJob, IsTaskMap
<1>2. next \in Moment
  BY DEF IsJob
<1>3. Extends(both, stored) /\ DOMAIN both.tasks = DOMAIN stored.tasks \cup carried
  <2> HIDE DEF tasks, next, carried
  <2> QED BY <1>1, <1>2 DEF Extends, IsJob, IsTaskMap, JobStatus
<1>4. /\ TaskStolen(stored, mine, w, t) = "No" /\ ~IsProcessed(stored)
      /\ MergeProcessedTask(stored, mine, w, t).job = TrySettleIteration(both).job
  BY DEF MergeProcessedTask, TaskStolen
<1>5. stored.iter = mine.iter /\ t \in DOMAIN stored.tasks
  BY <1>4 DEF TaskStolen
<1> HIDE DEF both
<1>6. /\ Extends(TrySettleIteration(both).job, both)
      /\ DOMAIN TrySettleIteration(both).job.tasks = DOMAIN both.tasks
  BY <1>3, TrySettleIterationType DEF Extends
<1> QED BY <1>3, <1>4, <1>5, <1>6 DEF Extends

-----------------------------------------------------------------------------
(* What a closed iteration holds, and whose its tasks are *)

\* A job that is closed holds no task anybody may still execute.
HoldsNoWork(job) ==
    IsProcessed(job) => \A t \in DOMAIN job.tasks :
        IsResolved(job.tasks[t]) /\ Availability(job.tasks[t]) = "Unavailable"

\* Nobody took the tasks of job over on the way to next.
SameHands(next, job) ==
    \A t \in DOMAIN job.tasks \cap DOMAIN next.tasks :
        next.tasks[t].owner = job.tasks[t].owner /\ next.tasks[t].creator = job.tasks[t].creator

\* A task that is resolved and neither pickable nor waiting for its retry is unavailable.
LEMMA ResolvedAvailability ==
    ASSUME NEW task, IsResolved(task), Availability(task) \notin {"Pickable", "AwaitingRetry"}
    PROVE  Availability(task) = "Unavailable"
<1>1. task.status \notin {"Todo", "Started"}
  BY DEF IsResolved, Skipped
<1>2. CASE task.status = "Failed" /\ ~IsTerminallyFailed(task)
  BY <1>1, <1>2 DEF Availability
<1>3. CASE ~(task.status = "Failed" /\ ~IsTerminallyFailed(task))
  BY <1>1, <1>3 DEF Availability
<1> QED BY <1>2, <1>3

\* try_settle_iteration closes only what holds no work.
LEMMA SettledHoldsNoWork ==
    ASSUME NEW job, IsJob(job), ~IsProcessed(job)
    PROVE  HoldsNoWork(TrySettleIteration(job).job)
<1> DEFINE settling == TrySettleIteration(job)
           tasks == UnblockSatisfiedTasks(SkipUnreachableTasks(job.tasks))
           moves == \E t \in DOMAIN tasks :
                        \/ tasks[t].status = "Started"
                        \/ Availability(tasks[t]) \in {"Pickable", "AwaitingRetry"}
           verdict == IF settling.answer = "Settled" THEN IterationVerdict(tasks) ELSE job.status
<1>1. CASE settling.answer # "Settled"
  BY <1>1, TrySettleIterationType DEF HoldsNoWork, IsProcessed
<1>2. CASE settling.answer = "Settled"
  <2>1. settling.answer = IF moves THEN "Open"
                          ELSE IF ~AllTasksResolved(tasks) THEN "Deadlock" ELSE "Settled"
    BY DEF TrySettleIteration
  <2>2. settling.job.tasks = tasks
    <3>1. settling.job = [job EXCEPT !.tasks = tasks, !.status = verdict]
      BY DEF TrySettleIteration
    <3> HIDE DEF tasks, verdict, settling
    <3> QED BY <3>1 DEF IsJob
  <2> HIDE DEF settling, tasks
  <2>3. ~moves /\ AllTasksResolved(tasks)
    BY <1>2, <2>1
  <2>4. \A t \in DOMAIN tasks : IsResolved(tasks[t]) /\ Availability(tasks[t]) = "Unavailable"
    BY <2>3, ResolvedAvailability DEF AllTasksResolved
  <2> QED BY <2>2, <2>4 DEF HoldsNoWork, settling
<1> QED BY <1>1, <1>2

\* The passing of time gives no work back to a closed iteration: a failure that was final
\* stays final.
LEMMA ElapseHoldsNoWork ==
    ASSUME NEW job, IsJob(job), HoldsNoWork(job)
    PROVE  HoldsNoWork(Elapse(job))
<1> SUFFICES ASSUME IsProcessed(Elapse(job)), NEW t \in DOMAIN Elapse(job).tasks
             PROVE  /\ IsResolved(Elapse(job).tasks[t])
                    /\ Availability(Elapse(job).tasks[t]) = "Unavailable"
  BY DEF HoldsNoWork
<1> DEFINE task == job.tasks[t]
           later == ElapsedTask(task)
<1>1. IsProcessed(job) /\ t \in DOMAIN job.tasks
  BY ElapseType DEF IsProcessed
<1>2. task \in Task /\ IsResolved(task) /\ Availability(task) = "Unavailable"
  BY <1>1 DEF HoldsNoWork, IsJob
<1>3. Elapse(job).tasks[t] = later
  BY <1>1 DEF Elapse, IsJob
<1> HIDE DEF task
<1>4. /\ later.status = task.status /\ later.retry = task.retry /\ later.attempt = task.attempt
      /\ later.outlives = Closer(task.outlives)
  BY <1>2 DEF ElapsedTask, Task
<1>5. task.outlives = 0 => later.outlives = 0
  BY <1>4 DEF Closer
<1>6. task.status = "Failed" => IsTerminallyFailed(task)
  BY <1>2 DEF Availability
<1>7. later.status = "Failed" => IsTerminallyFailed(later)
  BY <1>4, <1>5, <1>6 DEF IsTerminallyFailed, IsLifetimeExpired, Has_Come
<1> HIDE DEF later
<1>8. IsResolved(later) /\ later.status \notin {"Todo", "Started"}
  BY <1>2, <1>4 DEF IsResolved, Skipped
<1>9. Availability(later) = "Unavailable"
  BY <1>7, <1>8 DEF Availability
<1> QED BY <1>3, <1>8, <1>9

\* A pick that closes the iteration leaves no work behind (pick_task_to_execute).
LEMMA PickupHoldsNoWork ==
    ASSUME NEW job, IsJob(job), NEW pickup \in Pickups(job), pickup.kind = "IterationSettled"
    PROVE  HoldsNoWork(pickup.job)
<1> DEFINE tasks == FailTasksByLifetime(job.tasks)
           running == [job EXCEPT !.status = "Running", !.tasks = tasks]
           settling == TrySettleIteration(running)
           Ready(j) == {[kind |-> "Ready", job |-> j, task |-> t] : t \in PickableTasks(j.tasks)}
<1>1. IsTaskMap(tasks) /\ DOMAIN tasks = DOMAIN job.tasks
  BY FailTasksByLifetimeType DEF IsJob, IsTaskMap
<1>2. IsJob(running) /\ ~IsProcessed(running)
  <2> HIDE DEF tasks
  <2> QED BY <1>1 DEF IsJob, IsTaskMap, JobStatus, IsProcessed, Verdicts
<1>3. pickup = [kind |-> "IterationSettled", job |-> settling.job]
  <2>1. running = [job EXCEPT !.status = "Running", !.tasks = FailTasksByLifetime(@)]
    OBVIOUS
  <2> HIDE DEF running, settling
  <2>2. Pickups(job) \in {Ready(running), {[kind |-> "IterationSettled", job |-> settling.job]},
                          {[kind |-> "Deadlock"]}, Ready(settling.job), {[kind |-> "Waiting"]}}
    BY <2>1 DEF Pickups, settling
  <2> QED BY <2>2
<1> HIDE DEF running
<1> QED BY <1>2, <1>3, SettledHoldsNoWork

\* Settling takes no task from its worker: it skips and unblocks.
LEMMA SettlingKeepsHands ==
    ASSUME NEW job, IsJob(job)
    PROVE  SameHands(TrySettleIteration(job).job, job)
<1> DEFINE skipped == SkipUnreachableTasks(job.tasks)
           tasks == UnblockSatisfiedTasks(skipped)
           generation[n \in Nat] == IF n = 0 THEN job.tasks ELSE PutOutGeneration(generation[n - 1])
           last == generation[Cardinality(DOMAIN job.tasks)]
           verdict == IF TrySettleIteration(job).answer = "Settled" THEN IterationVerdict(tasks) ELSE job.status
<1>1. IsTaskMap(job.tasks) /\ IsTaskMap(skipped) /\ DOMAIN skipped = DOMAIN job.tasks
  BY SkipUnreachableTasksType DEF IsJob, IsTaskMap
<1>2. \A t \in DOMAIN job.tasks :
        skipped[t].owner = job.tasks[t].owner /\ skipped[t].creator = job.tasks[t].creator
  <2>1. skipped = [t \in DOMAIN job.tasks |->
                    IF job.tasks[t].status = "Blocked" /\ last[t].status \in Skipped
                    THEN Ended(job.tasks[t], last[t].status) ELSE job.tasks[t]]
    BY Zenon DEF SkipUnreachableTasks
  <2> HIDE DEF last, skipped
  <2>2. ASSUME NEW task \in Task, NEW status
        PROVE  Ended(task, status).owner = task.owner /\ Ended(task, status).creator = task.creator
    BY DEF Ended, Task
  <2> QED BY <1>1, <2>1, <2>2 DEF IsTaskMap
<1> HIDE DEF skipped
<1>3. /\ DOMAIN tasks = DOMAIN job.tasks
      /\ \A t \in DOMAIN job.tasks :
            tasks[t].owner = skipped[t].owner /\ tasks[t].creator = skipped[t].creator
  BY <1>1 DEF UnblockSatisfiedTasks, IsTaskMap, Task
<1>4. TrySettleIteration(job).job = [job EXCEPT !.tasks = tasks, !.status = verdict]
  BY DEF TrySettleIteration, skipped
<1> HIDE DEF tasks, verdict
<1>5. TrySettleIteration(job).job.tasks = tasks
  BY <1>4 DEF IsJob
<1> QED BY <1>2, <1>3, <1>5 DEF SameHands

\* A result that is merged leaves no work behind either: the verdict is derived on the merged
\* state.  What is carried over keeps its workers (merge_with_processed_task).
LEMMA MergeProcessedTaskEffect ==
    ASSUME NEW stored, IsJob(stored), NEW mine, IsJob(mine), NEW w, NEW t,
           MergeProcessedTask(stored, mine, w, t).answer = "Merged"
    PROVE  LET merged == MergeProcessedTask(stored, mine, w, t).job
           IN /\ HoldsNoWork(merged)
              /\ \A u \in CarriedOver(stored, mine, w) :
                    /\ u \in DOMAIN merged.tasks
                    /\ merged.tasks[u].owner = mine.tasks[u].owner
                    /\ merged.tasks[u].creator = mine.tasks[u].creator
<1> DEFINE carried == CarriedOver(stored, mine, w)
           tasks == [u \in DOMAIN stored.tasks \cup carried |->
                        IF u \in carried THEN mine.tasks[u] ELSE stored.tasks[u]]
           next == IF mine.next # Unset THEN mine.next ELSE stored.next
           both == [stored EXCEPT !.status = "Running", !.tasks = tasks, !.next = next]
<1>1. IsTaskMap(tasks) /\ next \in Moment
  BY DEF CarriedOver, IsJob, IsTaskMap
<1>2. /\ \A u \in carried : u \in DOMAIN tasks /\ tasks[u] = mine.tasks[u]
  OBVIOUS
<1>3. MergeProcessedTask(stored, mine, w, t).job = TrySettleIteration(both).job
  BY DEF MergeProcessedTask, TaskStolen
<1> HIDE DEF tasks, next, carried
<1>4. IsJob(both) /\ ~IsProcessed(both) /\ both.tasks = tasks
  BY <1>1 DEF IsJob, IsTaskMap, JobStatus, IsProcessed, Verdicts
<1> HIDE DEF both
<1>5. /\ HoldsNoWork(TrySettleIteration(both).job)
      /\ SameHands(TrySettleIteration(both).job, both)
      /\ DOMAIN tasks \subseteq DOMAIN TrySettleIteration(both).job.tasks
  BY <1>4, SettledHoldsNoWork, SettlingKeepsHands, TrySettleIterationType DEF Extends
<1> QED BY <1>2, <1>3, <1>4, <1>5 DEF SameHands, carried

\* A resolution leaves every task with its worker (complete_task, skip_task_by_executor).
LEMMA EndingKeepsHands ==
    ASSUME NEW job, IsJob(job), NEW t, NEW status
    PROVE  SameHands([job EXCEPT !.tasks[t] = Ended(@, status)], job)
<1> DEFINE ended == [job.tasks EXCEPT ![t] = Ended(@, status)]
<1>1. ASSUME NEW task \in Task
      PROVE  Ended(task, status).owner = task.owner /\ Ended(task, status).creator = task.creator
  BY DEF Ended, Task
<1>2. /\ \A u \in DOMAIN job.tasks : ended[u].owner = job.tasks[u].owner /\ ended[u].creator = job.tasks[u].creator
      /\ [job EXCEPT !.tasks[t] = Ended(@, status)] = [job EXCEPT !.tasks = ended]
  BY <1>1 DEF IsJob
<1> HIDE DEF ended
<1>3. [job EXCEPT !.tasks = ended].tasks = ended
  BY DEF IsJob
<1> QED BY <1>2, <1>3 DEF SameHands

\* So does a failure (fail_task).
LEMMA FailingKeepsHands ==
    ASSUME NEW job, IsJob(job), NEW t, NEW retry, NEW dropped
    PROVE  SameHands(FailTask(job, t, retry, dropped), job)
<1> DEFINE failed == [u \in DOMAIN job.tasks \ dropped |->
                        IF u = t THEN FailedTask(job.tasks[t], retry) ELSE job.tasks[u]]
<1>1. ASSUME NEW task \in Task
      PROVE  FailedTask(task, retry).owner = task.owner /\ FailedTask(task, retry).creator = task.creator
  BY DEF FailedTask, Task
<1>2. /\ \A u \in DOMAIN failed : failed[u].owner = job.tasks[u].owner /\ failed[u].creator = job.tasks[u].creator
      /\ FailTask(job, t, retry, dropped) = [job EXCEPT !.tasks = failed]
  BY <1>1 DEF IsJob, FailTask
<1> HIDE DEF failed
<1>3. [job EXCEPT !.tasks = failed].tasks = failed
  BY DEF IsJob
<1> QED BY <1>2, <1>3 DEF SameHands

-----------------------------------------------------------------------------
(* The cascade *)

\* No blocked task is left that one of its dependencies puts out.
IsPutOut(tasks) ==
    \A t \in DOMAIN tasks : tasks[t].status = "Blocked" => Causes(tasks, t) = {}

\* The tasks that are still blocked.
BlockedIn(tasks) == {t \in DOMAIN tasks : tasks[t].status = "Blocked"}

\* What a generation may have made of tasks.
IsCascadeOf(tasks, first) ==
    /\ tasks = [t \in DOMAIN first |-> tasks[t]]
    /\ \A t \in DOMAIN first :
            \/ tasks[t] = first[t]
            \/ /\ first[t].status = "Blocked"
               /\ tasks[t].status \in {"SkippedFailedDependency", "SkippedDependency"}
               /\ tasks[t] = Ended(first[t], tasks[t].status)

\* f holds the first n generations of the cascade that begins with tasks.
AreGenerations(f, n, tasks) ==
    f = [i \in 0 .. n |-> IF i = 0 THEN tasks ELSE PutOutGeneration(f[i - 1])]

\* The generations of the cascade are well defined, as many as one asks for.
LEMMA GenerationsUpTo ==
    ASSUME NEW tasks, NEW n \in Nat
    PROVE  \E f : AreGenerations(f, n, tasks)
<1> USE DEF AreGenerations
<1> DEFINE Bad == {m \in Nat : ~\E f : AreGenerations(f, m, tasks)}
<1>1. SUFFICES ASSUME Bad # {} PROVE FALSE
  OBVIOUS
<1>2. PICK m \in Bad : \A j \in Bad : m <= j
  BY <1>1, MinExists
<1>3. m # 0
  <2> DEFINE g == [i \in 0 .. 0 |-> tasks]
  <2>1. g = [i \in 0 .. 0 |-> IF i = 0 THEN tasks ELSE PutOutGeneration(g[i - 1])]
    OBVIOUS
  <2> QED BY <2>1
<1>4. m - 1 \in Nat /\ m - 1 \notin Bad
  <2> m \in Nat
    BY <1>2
  <2> HIDE DEF Bad
  <2> QED BY <1>2, <1>3
<1>5. PICK g : g = [i \in 0 .. m - 1 |-> IF i = 0 THEN tasks ELSE PutOutGeneration(g[i - 1])]
  BY <1>4
<1> DEFINE f == [i \in 0 .. m |-> IF i = m THEN PutOutGeneration(g[m - 1]) ELSE g[i]]
<1>6. ASSUME NEW i \in 0 .. m
      PROVE  f[i] = IF i = 0 THEN tasks ELSE PutOutGeneration(f[i - 1])
  <2>1. m \in Nat \ {0}
    BY <1>2, <1>3
  <2> HIDE DEF Bad
  <2>2. CASE i = m
    <3>1. i # 0 /\ f[i - 1] = g[m - 1] /\ f[i] = PutOutGeneration(g[m - 1])
      BY <2>1, <2>2
    <3> QED BY <3>1
  <2>3. CASE i # m
    <3>1. i \in 0 .. m - 1 /\ f[i] = g[i] /\ (i # 0 => i - 1 \in 0 .. m /\ i - 1 # m)
      BY <2>1, <2>3
    <3>2. g[i] = IF i = 0 THEN tasks ELSE PutOutGeneration(g[i - 1])
      BY <1>5, <3>1
    <3>3. i # 0 => f[i - 1] = g[i - 1]
      BY <3>1
    <3> QED BY <3>1, <3>2, <3>3
  <2> QED BY <2>2, <2>3
<1>7. f = [i \in 0 .. m |-> IF i = 0 THEN tasks ELSE PutOutGeneration(f[i - 1])]
  BY <1>6
<1> QED BY <1>2, <1>7

\* Two runs of the cascade agree as far as both go.
LEMMA GenerationsAgree ==
    ASSUME NEW tasks, NEW m \in Nat, NEW n \in Nat, m <= n, NEW f, NEW g,
           AreGenerations(f, m, tasks), AreGenerations(g, n, tasks)
    PROVE  \A i \in 0 .. m : f[i] = g[i]
<1> DEFINE Bad == {i \in 0 .. m : f[i] # g[i]}
<1>1. SUFFICES ASSUME Bad # {} PROVE FALSE
  OBVIOUS
<1>2. PICK k \in Bad : \A j \in Bad : k <= j
  <2>1. Bad \in SUBSET Nat
    OBVIOUS
  <2> QED BY <1>1, <2>1, MinExists
<1>3. k \in 0 .. m /\ f[k] # g[k] /\ k \in 0 .. n
  BY <1>2
<1>4. /\ f[k] = IF k = 0 THEN tasks ELSE PutOutGeneration(f[k - 1])
      /\ g[k] = IF k = 0 THEN tasks ELSE PutOutGeneration(g[k - 1])
  BY <1>3 DEF AreGenerations
<1>5. k # 0 /\ k - 1 \in 0 .. m
  BY <1>3, <1>4
<1>6. f[k - 1] = g[k - 1]
  <2>1. k - 1 \notin Bad
    <3> HIDE DEF Bad
    <3> QED BY <1>2, <1>3, <1>5
  <2> QED BY <1>5, <2>1
<1> QED BY <1>3, <1>4, <1>5, <1>6

\* So there is the function that skip_unreachable_tasks speaks of.
LEMMA GenerationsExist ==
    ASSUME NEW tasks
    PROVE  \E f : f = [n \in Nat |-> IF n = 0 THEN tasks ELSE PutOutGeneration(f[n - 1])]
<1> DEFINE upTo(n) == CHOOSE g : AreGenerations(g, n, tasks)
           f == [n \in Nat |-> upTo(n)[n]]
<1>1. ASSUME NEW n \in Nat
      PROVE  AreGenerations(upTo(n), n, tasks)
  <2>1. \E g : AreGenerations(g, n, tasks)
    BY GenerationsUpTo
  <2> QED BY <2>1
<1>2. ASSUME NEW n \in Nat, n # 0
      PROVE  upTo(n)[n - 1] = upTo(n - 1)[n - 1]
  <2>1. n - 1 \in Nat /\ n - 1 <= n /\ n - 1 \in 0 .. n - 1
    BY <1>2
  <2>2. AreGenerations(upTo(n), n, tasks) /\ AreGenerations(upTo(n - 1), n - 1, tasks)
    BY <1>1, <2>1
  <2> DEFINE long == upTo(n)
             short == upTo(n - 1)
             k == n - 1
  <2> HIDE DEF upTo, long, short, k
  <2>3. AreGenerations(long, n, tasks) /\ AreGenerations(short, k, tasks)
    BY <2>2 DEF long, short, k
  <2>4. k \in Nat /\ k <= n /\ k \in 0 .. k
    BY <2>1 DEF k
  <2>5. \A i \in 0 .. k : short[i] = long[i]
    BY <2>3, <2>4, GenerationsAgree
  <2> QED BY <2>4, <2>5 DEF long, short, k
<1>3. ASSUME NEW n \in Nat
      PROVE  f[n] = IF n = 0 THEN tasks ELSE PutOutGeneration(f[n - 1])
  <2> HIDE DEF upTo
  <2>1. AreGenerations(upTo(n), n, tasks) /\ n \in 0 .. n
    BY <1>1
  <2>2. upTo(n)[n] = IF n = 0 THEN tasks ELSE PutOutGeneration(upTo(n)[n - 1])
    BY <2>1 DEF AreGenerations
  <2>3. n # 0 => n - 1 \in Nat /\ upTo(n)[n - 1] = f[n - 1]
    BY <1>2
  <2> QED BY <2>2, <2>3
<1>4. f = [n \in Nat |-> IF n = 0 THEN tasks ELSE PutOutGeneration(f[n - 1])]
  <2> HIDE DEF upTo
  <2> QED BY <1>3
<1> QED BY <1>4

\* A generation ends blocked tasks and touches no others.
LEMMA GenerationIsCascade ==
    ASSUME NEW first, NEW tasks, IsCascadeOf(tasks, first), IsTaskMap(first)
    PROVE  /\ IsCascadeOf(PutOutGeneration(tasks), first)
           /\ BlockedIn(PutOutGeneration(tasks)) \subseteq BlockedIn(tasks)
           /\ IsPutOut(tasks) => PutOutGeneration(tasks) = tasks
           /\ ~IsPutOut(tasks) => \E t \in BlockedIn(tasks) : t \notin BlockedIn(PutOutGeneration(tasks))
<1> DEFINE next == PutOutGeneration(tasks)
           Label(t) == IF "SkippedFailedDependency" \in Causes(tasks, t)
                       THEN "SkippedFailedDependency" ELSE "SkippedDependency"
<1>1. DOMAIN tasks = DOMAIN first
  BY DEF IsCascadeOf
<1>2. next = [t \in DOMAIN tasks |-> IF tasks[t].status = "Blocked" /\ Causes(tasks, t) # {}
                                     THEN Ended(tasks[t], Label(t)) ELSE tasks[t]]
  BY DEF PutOutGeneration
<1>3. \A t \in DOMAIN first : Label(t) \in {"SkippedFailedDependency", "SkippedDependency"}
  OBVIOUS
<1> HIDE DEF Label, next
<1>4. DOMAIN next = DOMAIN first /\ next = [t \in DOMAIN first |-> next[t]]
  BY <1>1, <1>2
<1>5. ASSUME NEW t \in DOMAIN first, tasks[t].status = "Blocked", Causes(tasks, t) # {}
      PROVE  /\ first[t].status = "Blocked" /\ next[t] = Ended(first[t], Label(t))
             /\ next[t].status = Label(t)
  <2>1. tasks[t] = first[t] /\ first[t] \in Task
    BY <1>5 DEF IsCascadeOf, IsTaskMap
  <2>2. next[t] = Ended(first[t], Label(t))
    BY <1>1, <1>2, <1>5, <2>1
  <2> QED BY <1>5, <2>1, <2>2 DEF Ended, Task
<1>6. ASSUME NEW t \in DOMAIN first, ~(tasks[t].status = "Blocked" /\ Causes(tasks, t) # {})
      PROVE  next[t] = tasks[t]
  BY <1>1, <1>2, <1>6
<1>7. IsCascadeOf(next, first)
  BY <1>3, <1>4, <1>5, <1>6 DEF IsCascadeOf
<1>8. BlockedIn(next) \subseteq BlockedIn(tasks)
  BY <1>1, <1>3, <1>4, <1>5, <1>6 DEF BlockedIn
<1>9. IsPutOut(tasks) => next = tasks
  <2> SUFFICES ASSUME IsPutOut(tasks) PROVE next = tasks
    OBVIOUS
  <2>1. \A t \in DOMAIN first : next[t] = tasks[t]
    BY <1>1, <1>6 DEF IsPutOut
  <2>2. tasks = [t \in DOMAIN first |-> tasks[t]]
    BY DEF IsCascadeOf
  <2> QED BY <1>4, <2>1, <2>2
<1>10. ~IsPutOut(tasks) => \E t \in BlockedIn(tasks) : t \notin BlockedIn(next)
  BY <1>1, <1>3, <1>5 DEF IsPutOut, BlockedIn
<1> QED BY <1>7, <1>8, <1>9, <1>10 DEF next

\* The cascade is over after as many generations as there are tasks: a generation that is not
\* the last one ends at least one task.  So skip_unreachable_tasks leaves no blocked task that
\* a dependency puts out.
LEMMA CascadeEnds ==
    ASSUME NEW tasks, IsTaskMap(tasks), tasks = [t \in DOMAIN tasks |-> tasks[t]]
    PROVE  IsPutOut(SkipUnreachableTasks(tasks))
<1> DEFINE generation[n \in Nat] == IF n = 0 THEN tasks ELSE PutOutGeneration(generation[n - 1])
           N == Cardinality(DOMAIN tasks)
           last == generation[N]
<1>1. IsFiniteSet(DOMAIN tasks) /\ N \in Nat
  BY TasksAssumption, FS_Subset, FS_CardinalityType DEF IsTaskMap
<1>2. generation = [n \in Nat |-> IF n = 0 THEN tasks ELSE PutOutGeneration(generation[n - 1])]
  BY GenerationsExist
<1>3. SkipUnreachableTasks(tasks) =
        [t \in DOMAIN tasks |-> IF tasks[t].status = "Blocked" /\ last[t].status \in Skipped
                                THEN Ended(tasks[t], last[t].status) ELSE tasks[t]]
  BY Zenon DEF SkipUnreachableTasks
<1> HIDE DEF generation, N
<1>4. /\ generation[0] = tasks
      /\ \A n \in Nat : n # 0 => generation[n] = PutOutGeneration(generation[n - 1])
  BY <1>2
<1> DEFINE Good(n) == /\ IsCascadeOf(generation[n], tasks)
                      /\ IsPutOut(generation[n]) \/ Cardinality(BlockedIn(generation[n])) <= N - n
           Bad == {n \in 0 .. N : ~Good(n)}
<1>5. Bad = {}
  <2>1. SUFFICES ASSUME Bad # {} PROVE FALSE
    OBVIOUS
  <2>2. PICK m \in Bad : \A j \in Bad : m <= j
    <3>1. Bad \in SUBSET Nat
      BY <1>1
    <3> QED BY <2>1, <3>1, MinExists
  <2>3. m \in 0 .. N /\ ~Good(m)
    BY <2>2
  <2>4. CASE m = 0
    <3>1. IsCascadeOf(tasks, tasks)
      BY DEF IsCascadeOf
    <3>2. Cardinality(BlockedIn(tasks)) <= N
      BY <1>1, FS_Subset DEF BlockedIn, N
    <3> QED BY <1>1, <1>4, <2>3, <2>4, <3>1, <3>2
  <2>5. CASE m # 0
    <3> DEFINE k == m - 1
               g == generation[k]
    <3>1. k \in 0 .. N /\ k < m /\ m = k + 1 /\ m \in Nat
      BY <1>1, <2>3, <2>5
    <3>2. Good(k)
      <4>1. k \notin Bad
        <5> HIDE DEF Bad
        <5> QED BY <2>2, <2>3, <3>1
      <4> QED BY <3>1, <4>1
    <3>3. generation[m] = PutOutGeneration(g)
      BY <1>4, <2>5, <3>1
    <3> HIDE DEF g, k
    <3>4. /\ IsCascadeOf(g, tasks)
          /\ IsPutOut(g) \/ Cardinality(BlockedIn(g)) <= N - k
      BY <3>2 DEF g
    <3>5. /\ IsCascadeOf(generation[m], tasks)
          /\ BlockedIn(generation[m]) \subseteq BlockedIn(g)
          /\ IsPutOut(g) => generation[m] = g
          /\ ~IsPutOut(g) => \E t \in BlockedIn(g) : t \notin BlockedIn(generation[m])
      BY <3>3, <3>4, GenerationIsCascade
    <3>6. CASE IsPutOut(g)
      BY <2>3, <3>5, <3>6
    <3>7. CASE ~IsPutOut(g)
      <4> DEFINE B == BlockedIn(g)
                 C == BlockedIn(generation[m])
      <4>1. IsFiniteSet(B)
        <5>1. B \subseteq DOMAIN tasks
          BY <3>4 DEF BlockedIn, IsCascadeOf
        <5> QED BY <1>1, <5>1, FS_Subset
      <4>2. PICK t \in B : t \notin C
        BY <3>5, <3>7
      <4>3. Cardinality(B) <= N - k
        BY <3>4, <3>7
      <4>4. C \subseteq B
        BY <3>5
      <4> HIDE DEF B, C
      <4>5. IsFiniteSet(C) /\ Cardinality(C) < Cardinality(B)
        <5>1. /\ IsFiniteSet(C) /\ Cardinality(C) <= Cardinality(B)
              /\ Cardinality(B) = Cardinality(C) => B = C
          BY <4>1, <4>4, FS_Subset
        <5>2. Cardinality(C) \in Nat /\ Cardinality(B) \in Nat
          BY <4>1, <5>1, FS_CardinalityType
        <5> QED BY <4>2, <5>1, <5>2
      <4>6. Cardinality(C) \in Nat /\ Cardinality(B) \in Nat
        BY <4>1, <4>5, FS_CardinalityType
      <4>7. Cardinality(C) <= N - m
        BY <1>1, <3>1, <4>3, <4>5, <4>6
      <4> QED BY <2>3, <3>5, <4>7 DEF C
    <3> QED BY <3>6, <3>7
  <2> QED BY <2>4, <2>5
<1>6. Good(N)
  BY <1>1, <1>5
<1> HIDE DEF last
<1>7. IsCascadeOf(last, tasks) /\ (IsPutOut(last) \/ Cardinality(BlockedIn(last)) <= N - N)
  BY <1>6 DEF last
<1>8. IsPutOut(last)
  <2>1. CASE Cardinality(BlockedIn(last)) <= N - N
    <3>1. IsFiniteSet(BlockedIn(last))
      <4>1. BlockedIn(last) \subseteq DOMAIN tasks
        BY <1>7 DEF BlockedIn, IsCascadeOf
      <4> QED BY <1>1, <4>1, FS_Subset
    <3>2. Cardinality(BlockedIn(last)) \in Nat
      BY <3>1, FS_CardinalityType
    <3>3. Cardinality(BlockedIn(last)) = 0
      BY <1>1, <2>1, <3>2
    <3>4. BlockedIn(last) = {}
      BY <3>1, <3>3, FS_EmptySet
    <3> QED BY <3>4 DEF IsPutOut, BlockedIn
  <2> QED BY <1>7, <2>1
<1>9. SkipUnreachableTasks(tasks) = last
  <2>1. last = [t \in DOMAIN tasks |-> last[t]]
    BY <1>7 DEF IsCascadeOf
  <2>2. ASSUME NEW t \in DOMAIN tasks
        PROVE  last[t] = IF tasks[t].status = "Blocked" /\ last[t].status \in Skipped
                         THEN Ended(tasks[t], last[t].status) ELSE tasks[t]
    BY <1>7 DEF IsCascadeOf, Skipped
  <2> QED BY <1>3, <2>1, <2>2
<1> QED BY <1>8, <1>9

-----------------------------------------------------------------------------
(* The order of the tasks *)

\* D is what an iteration may hold: with a task what it depends on, and no circle of tasks that
\* wait on each other.
HasOrder(D) ==
    /\ D # {} /\ \A t \in D : DependsOn[t] \subseteq D
    /\ \A S \in SUBSET D : S # {} => \E t \in S : DependsOn[t] \cap S = {}

\* What a definition plans is in order (find_dependency_cycle).
LEMMA PlanHasOrder == HasOrder(InitialTasks)
BY TasksAssumption, OrderAssumption DEF HasOrder

\* A task that depends on what is there already keeps the order (add_task).
LEMMA AddedHasOrder ==
    ASSUME NEW D, HasOrder(D), NEW t, t \notin D, DependsOn[t] \subseteq D
    PROVE  HasOrder(D \cup {t})
<1>1. ASSUME NEW S \in SUBSET (D \cup {t}), S # {}
      PROVE  \E u \in S : DependsOn[u] \cap S = {}
  <2>1. CASE S \cap D = {}
    BY <1>1, <2>1
  <2>2. CASE S \cap D # {}
    <3>1. PICK u \in S \cap D : DependsOn[u] \cap (S \cap D) = {}
      BY <2>2 DEF HasOrder
    <3>2. DependsOn[u] \subseteq D
      BY <3>1 DEF HasOrder
    <3> QED BY <3>1, <3>2
  <2> QED BY <2>1, <2>2
<1> QED BY <1>1 DEF HasOrder

\* Two copies of an iteration hold together what is in order (merge_with_processed_task).
LEMMA UnionHasOrder ==
    ASSUME NEW D, HasOrder(D), NEW E, HasOrder(E)
    PROVE  HasOrder(D \cup E)
<1>1. ASSUME NEW S \in SUBSET (D \cup E), S # {}
      PROVE  \E u \in S : DependsOn[u] \cap S = {}
  <2>1. CASE S \cap D = {}
    BY <1>1, <2>1 DEF HasOrder
  <2>2. CASE S \cap D # {}
    <3>1. PICK u \in S \cap D : DependsOn[u] \cap (S \cap D) = {}
      BY <2>2 DEF HasOrder
    <3>2. DependsOn[u] \subseteq D
      BY <3>1 DEF HasOrder
    <3> QED BY <3>1, <3>2
  <2> QED BY <2>1, <2>2
<1> QED BY <1>1 DEF HasOrder

\* Of a dependency that is over, a task that waits is either released or put out.
LEMMA ResolvedDependencyIsJudged ==
    ASSUME NEW t, NEW dependency, IsResolved(dependency),
           dependency.status = "Failed" => IsTerminallyFailed(dependency)
    PROVE  JudgeDependency(t, dependency) \in {"Unblocked", "SkippedFailedDependency", "SkippedDependency"}
<1>1. dependency.status \in {"Completed", "Failed"} \cup Skipped
  BY DEF IsResolved
<1>2. dependency.status # "Completed" /\ dependency.status # "Failed" => ~IsTerminallyFailed(dependency)
  BY DEF IsTerminallyFailed
<1> QED BY <1>1, <1>2 DEF JudgeDependency

\* An iteration in order that cannot move is over: of the tasks that are still blocked, one waits
\* on none of the others, so each of its dependencies is over and has released it or put it out
\* (try_settle_iteration).
LEMMA SettlesOrMoves ==
    ASSUME NEW job, IsJob(job), job.tasks = [t \in DOMAIN job.tasks |-> job.tasks[t]],
           HasOrder(DOMAIN job.tasks)
    PROVE  TrySettleIteration(job).answer # "Deadlock"
<1> DEFINE D == DOMAIN job.tasks
           skipped == SkipUnreachableTasks(job.tasks)
           tasks == UnblockSatisfiedTasks(skipped)
           moves == \E t \in DOMAIN tasks :
                        \/ tasks[t].status = "Started"
                        \/ Availability(tasks[t]) \in {"Pickable", "AwaitingRetry"}
<1>1. /\ IsTaskMap(skipped) /\ DOMAIN skipped = D /\ IsPutOut(skipped)
      /\ IsTaskMap(tasks) /\ DOMAIN tasks = D
  <2>1. IsTaskMap(job.tasks)
    BY DEF IsJob, IsTaskMap
  <2>2. IsTaskMap(skipped) /\ DOMAIN skipped = D /\ IsPutOut(skipped)
    BY <2>1, SkipUnreachableTasksType, CascadeEnds
  <2> HIDE DEF skipped
  <2> QED BY <2>2, UnblockSatisfiedTasksType
<1>2. TrySettleIteration(job).answer = IF moves THEN "Open"
                                       ELSE IF ~AllTasksResolved(tasks) THEN "Deadlock" ELSE "Settled"
  BY DEF TrySettleIteration
<1>3. tasks = [t \in D |-> IF skipped[t].status = "Blocked" /\ DependenciesSatisfied(skipped, t)
                           THEN [skipped[t] EXCEPT !.status = "Todo"] ELSE skipped[t]]
  BY <1>1 DEF UnblockSatisfiedTasks
<1> HIDE DEF skipped, tasks
<1> SUFFICES ASSUME ~moves PROVE AllTasksResolved(tasks)
  BY <1>2
<1>4. ASSUME NEW t \in D
      PROVE  /\ tasks[t].status \notin {"Todo", "Started"}
             /\ tasks[t].status = "Failed" => IsTerminallyFailed(tasks[t])
             /\ tasks[t] = skipped[t]
  <2>1. tasks[t].status # "Started" /\ Availability(tasks[t]) \notin {"Pickable", "AwaitingRetry"}
    BY <1>1
  <2>2. tasks[t].status # "Todo"
    BY <2>1 DEF Availability
  <2>3. tasks[t].status = "Failed" => IsTerminallyFailed(tasks[t])
    BY <2>1 DEF Availability
  <2>4. tasks[t] = skipped[t]
    <3>1. skipped[t] \in Task
      BY <1>1 DEF IsTaskMap
    <3>2. [skipped[t] EXCEPT !.status = "Todo"].status = "Todo"
      BY <3>1 DEF Task
    <3> QED BY <1>3, <2>2, <3>2
  <2> QED BY <2>1, <2>2, <2>3, <2>4
<1> DEFINE B == {t \in D : tasks[t].status = "Blocked"}
<1>5. B = {}
  <2>1. SUFFICES ASSUME B # {} PROVE FALSE
    OBVIOUS
  <2>2. PICK t \in B : DependsOn[t] \cap B = {}
    BY <2>1 DEF HasOrder
  <2>3. t \in D /\ DependsOn[t] \subseteq D /\ tasks[t] = skipped[t] /\ skipped[t].status = "Blocked"
    BY <1>4, <2>2 DEF HasOrder
  <2>4. ~DependenciesSatisfied(skipped, t)
    <3>1. skipped[t] \in Task
      BY <1>1, <2>3 DEF IsTaskMap
    <3>2. [skipped[t] EXCEPT !.status = "Todo"].status = "Todo"
      BY <3>1 DEF Task
    <3> QED BY <1>3, <2>3, <3>2
  <2>5. PICK d \in DependsOn[t] : JudgeDependency(t, skipped[d]) # "Unblocked"
    BY <1>1, <2>3, <2>4 DEF DependenciesSatisfied
  <2>6. /\ d \in D /\ skipped[d] = tasks[d] /\ tasks[d] \in Task
        /\ tasks[d].status \notin {"Blocked", "Todo", "Started"}
        /\ tasks[d].status = "Failed" => IsTerminallyFailed(tasks[d])
    BY <1>1, <1>4, <2>2, <2>3, <2>5 DEF IsTaskMap
  <2>7. IsResolved(skipped[d])
    BY <2>6 DEF IsResolved, Task, TaskStatus
  <2>8. JudgeDependency(t, skipped[d]) \in {"SkippedFailedDependency", "SkippedDependency"}
    BY <2>5, <2>6, <2>7, ResolvedDependencyIsJudged
  <2>9. Causes(skipped, t) # {}
    BY <1>1, <2>5, <2>6, <2>8 DEF Causes
  <2> QED BY <1>1, <2>3, <2>9 DEF IsPutOut
<1>6. ASSUME NEW t \in D
      PROVE  IsResolved(tasks[t])
  BY <1>1, <1>4, <1>5 DEF IsResolved, IsTaskMap, Task, TaskStatus
<1> QED BY <1>1, <1>6 DEF AllTasksResolved, HasOrder

\* No pick of an iteration in order ends in a deadlock (pick_task_to_execute).
LEMMA NoPickIsDeadlocked ==
    ASSUME NEW job, IsJob(job), HasOrder(DOMAIN job.tasks), NEW pickup \in Pickups(job)
    PROVE  pickup.kind # "Deadlock"
<1> DEFINE tasks == FailTasksByLifetime(job.tasks)
           running == [job EXCEPT !.status = "Running", !.tasks = tasks]
           settling == TrySettleIteration(running)
           Ready(j) == {[kind |-> "Ready", job |-> j, task |-> t] : t \in PickableTasks(j.tasks)}
<1>1. IsTaskMap(tasks) /\ DOMAIN tasks = DOMAIN job.tasks /\ tasks = [t \in DOMAIN tasks |-> tasks[t]]
  <2>1. IsTaskMap(job.tasks)
    BY DEF IsJob, IsTaskMap
  <2>2. IsTaskMap(tasks) /\ DOMAIN tasks = DOMAIN job.tasks
    BY <2>1, FailTasksByLifetimeType
  <2> QED BY <2>2 DEF FailTasksByLifetime
<1>2. IsJob(running) /\ running.tasks = tasks
  <2> HIDE DEF tasks
  <2> QED BY <1>1 DEF IsJob, IsTaskMap, JobStatus
<1>3. running = [job EXCEPT !.status = "Running", !.tasks = FailTasksByLifetime(@)]
  OBVIOUS
<1> HIDE DEF tasks, running
<1>4. settling.answer # "Deadlock"
  BY <1>1, <1>2, SettlesOrMoves
<1> HIDE DEF settling
<1>5. \/ Pickups(job) = Ready(running)
      \/ Pickups(job) = {[kind |-> "IterationSettled", job |-> settling.job]}
      \/ settling.answer = "Deadlock" /\ Pickups(job) = {[kind |-> "Deadlock"]}
      \/ Pickups(job) \in {Ready(settling.job), {[kind |-> "Waiting"]}}
  BY <1>3 DEF Pickups, settling
<1> QED BY <1>4, <1>5

-----------------------------------------------------------------------------
(* What becomes of a single task *)

Results == {"Completed", "SkippedByExecutor"}
PutOut == {"SkippedFailedDependency", "SkippedDependency"}

\* The task has an outcome that an execution gave it.
IsResult(task) == task.status \in Results

\* Nothing but a result of its own or a dependency put the task where it is: it is over.
IsDecided(task) == task.status \in Results \cup PutOut

\* A task has a worker exactly if it was started, and a started one does not outlive its lifetime.
IsSound(task) ==
    /\ task.owner # NoWorker <=> task.status \in {"Started", "Failed"} \cup Results
    /\ task.status = "Started" => task.expires \in Nat /\ task.outlives \in Nat /\ task.expires <= task.outlives

AreSound(tasks) == \A t \in DOMAIN tasks : IsSound(tasks[t])

\* What worker w, the merges and the rules of the iteration may make of a task: nothing at all; a
\* task that waits or has expired changes hands to nobody and gets no result; and w starts a task
\* that waits or has expired, or ends the one it started.
MayBecome(w, next, task) ==
    \/ next = task
    \/ /\ next.owner = task.owner /\ ~IsResult(next)
       /\ ~IsDecided(task) /\ (task.status = "Started" => IsExpired(task))
    \/ /\ next.owner = w /\ w # NoWorker
       /\ ~IsDecided(task) /\ (task.status = "Started" => task.owner = w \/ IsExpired(task))

\* The same of every task that tasks and next hold.
IsWorkOf(w, next, tasks) ==
    \A t \in DOMAIN tasks \cap DOMAIN next : MayBecome(w, next[t], tasks[t])

\* The copy task in the hands of w takes nothing back of what is stored: a result stands, a task
\* changed hands to w only, and what another worker executes within its deadline is its own.
Respects(w, task, stored) ==
    /\ IsResult(stored) => task.status = stored.status /\ task.owner = stored.owner
    /\ task.owner # w => task.owner = stored.owner /\ (IsResult(task) => task.status = stored.status)
    /\ stored.status = "Started" /\ ~IsExpired(stored) /\ stored.owner # w =>
            task.status = "Started" /\ task.owner = stored.owner /\ task.expires = stored.expires

AreRespected(w, tasks, stored) ==
    \A t \in DOMAIN stored : t \in DOMAIN tasks /\ Respects(w, tasks[t], stored[t])

\* The copy knows the results w has stored itself.
KnowsOwnResults(w, tasks, stored) ==
    \A t \in DOMAIN stored : stored[t].owner = w /\ IsResult(stored[t]) =>
        t \in DOMAIN tasks /\ tasks[t].status = stored[t].status

\* Two changes of w are one.
LEMMA MayBecomeTransitive ==
    ASSUME NEW w, NEW first, NEW task, NEW next, MayBecome(w, task, first), MayBecome(w, next, task)
    PROVE  MayBecome(w, next, first)
<1>1. CASE task = first
  BY <1>1
<1>2. CASE next = task
  BY <1>2
<1>3. CASE next # task /\ task # first
  BY <1>3 DEF MayBecome, IsDecided
<1> QED BY <1>1, <1>2, <1>3

\* Whatever w does to its copy of a task, the copy goes on to respect what is stored.
LEMMA WorkRespects ==
    ASSUME NEW w, NEW stored, NEW task, NEW next, Respects(w, task, stored), MayBecome(w, next, task)
    PROVE  Respects(w, next, stored)
<1>1. CASE next = task
  BY <1>1
<1>2. CASE next.owner = task.owner /\ ~IsResult(next) /\ ~IsDecided(task)
           /\ (task.status = "Started" => IsExpired(task))
  BY <1>2 DEF Respects, IsDecided, IsResult, IsExpired
<1>3. CASE next.owner = w /\ ~IsDecided(task)
           /\ (task.status = "Started" => task.owner = w \/ IsExpired(task))
  BY <1>3 DEF Respects, IsDecided, IsResult, IsExpired
<1> QED BY <1>1, <1>2, <1>3 DEF MayBecome

\* So does the whole copy, as long as it drops nothing that is stored.
LEMMA WorkIsRespectful ==
    ASSUME NEW w, NEW stored, NEW tasks, NEW next, AreRespected(w, tasks, stored), IsWorkOf(w, next, tasks),
           DOMAIN stored \subseteq DOMAIN next
    PROVE  AreRespected(w, next, stored)
BY WorkRespects DEF AreRespected, IsWorkOf

\* And it goes on to know the results of w, as long as it drops no result.
LEMMA WorkKnowsResults ==
    ASSUME NEW w, NEW stored, NEW tasks, NEW next, KnowsOwnResults(w, tasks, stored), IsWorkOf(w, next, tasks),
           \A t \in DOMAIN tasks : IsResult(tasks[t]) => t \in DOMAIN next
    PROVE  KnowsOwnResults(w, next, stored)
<1> SUFFICES ASSUME NEW t \in DOMAIN stored, stored[t].owner = w, IsResult(stored[t])
             PROVE  t \in DOMAIN next /\ next[t].status = stored[t].status
  BY DEF KnowsOwnResults
<1>1. t \in DOMAIN tasks /\ tasks[t].status = stored[t].status
  BY DEF KnowsOwnResults
<1>2. t \in DOMAIN next /\ IsDecided(tasks[t])
  BY <1>1 DEF IsResult, IsDecided
<1>3. MayBecome(w, next[t], tasks[t])
  BY <1>1, <1>2 DEF IsWorkOf
<1> QED BY <1>1, <1>2, <1>3 DEF MayBecome

\* A copy that respects what is stored knows every result.
LEMMA RespectKnowsResults ==
    ASSUME NEW w, NEW stored, NEW tasks, AreRespected(w, tasks, stored)
    PROVE  KnowsOwnResults(w, tasks, stored)
BY DEF AreRespected, Respects, KnowsOwnResults

\* What is stored respects itself.
LEMMA StoredIsRespected ==
    ASSUME NEW w, NEW stored
    PROVE  AreRespected(w, stored, stored)
BY DEF AreRespected, Respects

\* Work on work is work, as long as no task is dropped and taken up again in between.
LEMMA WorkIsTransitive ==
    ASSUME NEW w, NEW first, NEW tasks, NEW next, IsWorkOf(w, tasks, first), IsWorkOf(w, next, tasks),
           DOMAIN first \cap DOMAIN next \subseteq DOMAIN tasks
    PROVE  IsWorkOf(w, next, first)
BY MayBecomeTransitive DEF IsWorkOf

-----------------------------------------------------------------------------
(* The operators, task by task *)

\* The cascade ends blocked tasks only, and only for a dependency that failed for good, was skipped
\* or was blocked and ended before (skip_unreachable_tasks).
IsEndedByCascade(tasks, first, t) ==
    /\ first[t].status = "Blocked" /\ tasks[t].status \in PutOut
    /\ \E d \in DependsOn[t] \cap DOMAIN first :
            first[d].status = "Blocked" \/ JudgeDependency(t, first[d]) \in PutOut

\* What the cascade makes of a task: nothing, or it ends it (skip_unreachable_tasks).
LEMMA CascadeEffect ==
    ASSUME NEW tasks, IsTaskMap(tasks), NEW t \in DOMAIN tasks
    PROVE  LET next == SkipUnreachableTasks(tasks)
           IN \/ next[t] = tasks[t]
              \/ /\ IsEndedByCascade(next, tasks, t)
                 /\ next[t] = Ended(tasks[t], next[t].status)
<1> DEFINE generation[n \in Nat] == IF n = 0 THEN tasks ELSE PutOutGeneration(generation[n - 1])
           N == Cardinality(DOMAIN tasks)
           last == generation[N]
<1>1. N \in Nat
  BY TasksAssumption, FS_Subset, FS_CardinalityType DEF IsTaskMap
<1>2. generation = [n \in Nat |-> IF n = 0 THEN tasks ELSE PutOutGeneration(generation[n - 1])]
  BY GenerationsExist
<1>3. SkipUnreachableTasks(tasks) =
        [u \in DOMAIN tasks |-> IF tasks[u].status = "Blocked" /\ last[u].status \in Skipped
                                THEN Ended(tasks[u], last[u].status) ELSE tasks[u]]
  BY Zenon DEF SkipUnreachableTasks
<1> HIDE DEF generation, N
<1>4. /\ generation[0] = tasks
      /\ \A n \in Nat : n # 0 => generation[n] = PutOutGeneration(generation[n - 1])
  BY <1>2
<1> DEFINE Good(n) == /\ DOMAIN generation[n] = DOMAIN tasks
                      /\ \A u \in DOMAIN tasks :
                            \/ generation[n][u] = tasks[u]
                            \/ IsEndedByCascade(generation[n], tasks, u)
           Bad == {n \in Nat : ~Good(n)}
<1>5. Bad = {}
  <2>1. SUFFICES ASSUME Bad # {} PROVE FALSE
    OBVIOUS
  <2>2. PICK m \in Bad : \A j \in Bad : m <= j
    BY <2>1, MinExists
  <2>3. m \in Nat /\ ~Good(m)
    BY <2>2
  <2>4. m # 0
    BY <1>4, <2>3
  <2> DEFINE g == generation[m - 1]
             h == generation[m]
  <2>5. m - 1 \in Nat /\ m - 1 < m
    BY <2>3, <2>4
  <2>6. Good(m - 1)
    <3>1. m - 1 \notin Bad
      <4> HIDE DEF Bad
      <4> QED BY <2>2, <2>3, <2>5
    <3> QED BY <2>5, <3>1
  <2>7. h = PutOutGeneration(g)
    BY <1>4, <2>3, <2>4
  <2>8. /\ DOMAIN g = DOMAIN tasks
        /\ \A u \in DOMAIN tasks : g[u] = tasks[u] \/ IsEndedByCascade(g, tasks, u)
    BY <2>6
  <2> HIDE DEF g, h
  <2>9. DOMAIN h = DOMAIN tasks
    BY <2>7, <2>8 DEF PutOutGeneration
  <2>10. ASSUME NEW u \in DOMAIN tasks
         PROVE  h[u] = tasks[u] \/ IsEndedByCascade(h, tasks, u)
    <3>1. CASE ~(g[u].status = "Blocked" /\ Causes(g, u) # {})
      <4>1. h[u] = g[u]
        BY <2>7, <2>8, <3>1 DEF PutOutGeneration
      <4> QED BY <2>8, <4>1 DEF IsEndedByCascade
    <3>2. CASE g[u].status = "Blocked" /\ Causes(g, u) # {}
      <4>1. g[u] = tasks[u] /\ tasks[u] \in Task
        BY <2>8, <3>2 DEF IsEndedByCascade, PutOut, IsTaskMap
      <4>2. \E label \in PutOut : h[u] = Ended(tasks[u], label)
        BY <2>7, <2>8, <3>2, <4>1 DEF PutOutGeneration, PutOut
      <4>3. h[u].status \in PutOut
        BY <4>1, <4>2 DEF Ended, Task
      <4>4. PICK d \in DependsOn[u] \cap DOMAIN g : JudgeDependency(u, g[d]) \in PutOut
        BY <3>2 DEF Causes, PutOut
      <4>5. d \in DOMAIN tasks /\ (g[d] = tasks[d] \/ tasks[d].status = "Blocked")
        BY <2>8, <4>4 DEF IsEndedByCascade
      <4> QED BY <3>2, <4>1, <4>3, <4>4, <4>5 DEF IsEndedByCascade
    <3> QED BY <3>1, <3>2
  <2> QED BY <2>3, <2>9, <2>10 DEF h
<1>6. Good(N)
  BY <1>1, <1>5
<1> HIDE DEF last
<1>7. last[t] = tasks[t] \/ IsEndedByCascade(last, tasks, t)
  BY <1>6 DEF last
<1> DEFINE next == SkipUnreachableTasks(tasks)
<1>8. next[t] = IF tasks[t].status = "Blocked" /\ last[t].status \in Skipped
                THEN Ended(tasks[t], last[t].status) ELSE tasks[t]
  BY <1>3
<1> HIDE DEF next
<1>9. ASSUME last[t] = tasks[t]
      PROVE  next[t] = tasks[t]
  BY <1>8, <1>9 DEF Skipped
<1>10. ASSUME IsEndedByCascade(last, tasks, t)
       PROVE  IsEndedByCascade(next, tasks, t) /\ next[t] = Ended(tasks[t], next[t].status)
  <2>1. next[t] = Ended(tasks[t], last[t].status)
    BY <1>8, <1>10 DEF IsEndedByCascade, PutOut, Skipped
  <2>2. next[t].status = last[t].status
    BY <2>1 DEF Ended, IsTaskMap, Task
  <2> QED BY <1>10, <2>1, <2>2 DEF IsEndedByCascade
<1> QED BY <1>7, <1>9, <1>10 DEF next

\* Settling unblocks a task only once the iteration satisfies what it waits for
\* (unblock_satisfied_tasks).
IsUnblocked(tasks, first, t) ==
    /\ first[t].status = "Blocked" /\ tasks[t] = [first[t] EXCEPT !.status = "Todo"]
    /\ DependenciesSatisfied(tasks, t)

\* What settling makes of a task: nothing, or it ends or unblocks it (try_settle_iteration).
LEMMA SettlingEffect ==
    ASSUME NEW job, IsJob(job), NEW t \in DOMAIN job.tasks
    PROVE  LET next == TrySettleIteration(job).job.tasks
           IN \/ next[t] = job.tasks[t]
              \/ /\ IsEndedByCascade(next, job.tasks, t)
                 /\ next[t] = Ended(job.tasks[t], next[t].status)
              \/ IsUnblocked(next, job.tasks, t)
<1> DEFINE skipped == SkipUnreachableTasks(job.tasks)
           next == UnblockSatisfiedTasks(skipped)
           verdict == IF TrySettleIteration(job).answer = "Settled" THEN IterationVerdict(next) ELSE job.status
<1>1. IsTaskMap(job.tasks)
  BY DEF IsJob, IsTaskMap
<1>2. /\ IsTaskMap(skipped) /\ DOMAIN skipped = DOMAIN job.tasks
      /\ \/ skipped[t] = job.tasks[t]
         \/ IsEndedByCascade(skipped, job.tasks, t) /\ skipped[t] = Ended(job.tasks[t], skipped[t].status)
  BY <1>1, SkipUnreachableTasksType, CascadeEffect
<1>3. TrySettleIteration(job).job = [job EXCEPT !.tasks = next, !.status = verdict]
  BY DEF TrySettleIteration
<1> HIDE DEF skipped
<1>4. /\ DOMAIN next = DOMAIN job.tasks
      /\ \A u \in DOMAIN job.tasks :
            next[u] = IF skipped[u].status = "Blocked" /\ DependenciesSatisfied(skipped, u)
                      THEN [skipped[u] EXCEPT !.status = "Todo"] ELSE skipped[u]
  BY <1>2 DEF UnblockSatisfiedTasks
<1> HIDE DEF next, verdict
<1>5. TrySettleIteration(job).job.tasks = next
  BY <1>3 DEF IsJob
<1>6. ASSUME skipped[t].status = "Blocked", DependenciesSatisfied(skipped, t)
      PROVE  IsUnblocked(next, job.tasks, t)
  <2>1. skipped[t] = job.tasks[t]
    BY <1>2, <1>6 DEF IsEndedByCascade, PutOut
  <2>2. ASSUME NEW d \in DependsOn[t]
        PROVE  d \in DOMAIN next /\ JudgeDependency(t, next[d]) = "Unblocked"
    <3>1. d \in DOMAIN skipped /\ JudgeDependency(t, skipped[d]) = "Unblocked"
      BY <1>6 DEF DependenciesSatisfied
    <3>2. skipped[d].status # "Blocked"
      BY <3>1 DEF JudgeDependency, IsTerminallyFailed, Skipped
    <3> QED BY <1>2, <1>4, <3>1, <3>2
  <2>3. DependenciesSatisfied(next, t)
    BY <2>2 DEF DependenciesSatisfied
  <2> QED BY <1>4, <1>6, <2>1, <2>3 DEF IsUnblocked
<1>7. ASSUME ~(skipped[t].status = "Blocked" /\ DependenciesSatisfied(skipped, t))
      PROVE  \/ next[t] = job.tasks[t]
             \/ IsEndedByCascade(next, job.tasks, t) /\ next[t] = Ended(job.tasks[t], next[t].status)
  <2>1. next[t] = skipped[t]
    BY <1>4, <1>7
  <2> QED BY <1>2, <2>1 DEF IsEndedByCascade
<1> QED BY <1>5, <1>6, <1>7

\* Whoever settles changes no hands and gives no result.
LEMMA SettlingIsWork ==
    ASSUME NEW job, IsJob(job), AreSound(job.tasks), NEW w
    PROVE  LET next == TrySettleIteration(job).job.tasks
           IN IsWorkOf(w, next, job.tasks) /\ AreSound(next)
<1> DEFINE next == TrySettleIteration(job).job.tasks
<1>1. DOMAIN next = DOMAIN job.tasks
  BY TrySettleIterationType
<1>2. ASSUME NEW t \in DOMAIN job.tasks
      PROVE  /\ next[t] # job.tasks[t] =>
                    job.tasks[t].status = "Blocked" /\ next[t].status \in PutOut \cup {"Todo"}
             /\ next[t].owner = job.tasks[t].owner
  <2>1. job.tasks[t] \in Task
    BY DEF IsJob
  <2>2. \/ next[t] = job.tasks[t]
        \/ IsEndedByCascade(next, job.tasks, t) /\ next[t] = Ended(job.tasks[t], next[t].status)
        \/ IsUnblocked(next, job.tasks, t)
    BY SettlingEffect
  <2> HIDE DEF next
  <2>3. ASSUME IsEndedByCascade(next, job.tasks, t), next[t] = Ended(job.tasks[t], next[t].status)
        PROVE  /\ job.tasks[t].status = "Blocked" /\ next[t].status \in PutOut
               /\ next[t].owner = job.tasks[t].owner
    <3>1. Ended(job.tasks[t], next[t].status).owner = job.tasks[t].owner
      BY <2>1 DEF Ended, Task
    <3> QED BY <2>3, <3>1 DEF IsEndedByCascade
  <2>4. ASSUME IsUnblocked(next, job.tasks, t)
        PROVE  /\ job.tasks[t].status = "Blocked" /\ next[t].status = "Todo"
               /\ next[t].owner = job.tasks[t].owner
    BY <2>1, <2>4 DEF IsUnblocked, Task
  <2> QED BY <2>2, <2>3, <2>4
<1> HIDE DEF next
<1>3. AreSound(next)
  BY <1>1, <1>2 DEF AreSound, IsSound, PutOut, Results
<1>4. IsWorkOf(w, next, job.tasks)
  BY <1>2 DEF IsWorkOf, MayBecome, IsResult, IsDecided, Results, PutOut
<1> QED BY <1>3, <1>4 DEF next

\* The cascade alone does not either.
LEMMA CascadeIsWork ==
    ASSUME NEW tasks, IsTaskMap(tasks), AreSound(tasks), NEW w
    PROVE  IsWorkOf(w, SkipUnreachableTasks(tasks), tasks) /\ AreSound(SkipUnreachableTasks(tasks))
<1> DEFINE next == SkipUnreachableTasks(tasks)
<1>1. DOMAIN next = DOMAIN tasks
  BY SkipUnreachableTasksType
<1>2. ASSUME NEW t \in DOMAIN tasks
      PROVE  /\ next[t] # tasks[t] => tasks[t].status = "Blocked" /\ next[t].status \in PutOut
             /\ next[t].owner = tasks[t].owner
  <2>1. tasks[t] \in Task
    BY DEF IsTaskMap
  <2>2. \/ next[t] = tasks[t]
        \/ IsEndedByCascade(next, tasks, t) /\ next[t] = Ended(tasks[t], next[t].status)
    BY CascadeEffect
  <2> HIDE DEF next
  <2>3. Ended(tasks[t], next[t].status).owner = tasks[t].owner
    BY <2>1 DEF Ended, Task
  <2> QED BY <2>2, <2>3 DEF IsEndedByCascade
<1> HIDE DEF next
<1>3. AreSound(next)
  BY <1>1, <1>2 DEF AreSound, IsSound, PutOut, Results
<1>4. IsWorkOf(w, next, tasks)
  BY <1>2 DEF IsWorkOf, MayBecome, IsResult, IsDecided, Results, PutOut
<1> QED BY <1>3, <1>4 DEF next

\* A task is failed for its lifetime only once its deadline has passed as well
\* (fail_tasks_by_lifetime).
LEMMA LifetimeEffect ==
    ASSUME NEW tasks, IsTaskMap(tasks), NEW t \in DOMAIN tasks
    PROVE  LET next == FailTasksByLifetime(tasks)
           IN \/ next[t] = tasks[t]
              \/ /\ tasks[t].status = "Started" /\ IsLifetimeExpired(tasks[t])
                 /\ next[t] = FailedTask(tasks[t], "WhileBudgetLasts")
<1>1. FailTasksByLifetime(tasks)[t] = IF Availability(tasks[t]) = "ExpiredPastLifetime"
                                      THEN FailedTask(tasks[t], "WhileBudgetLasts") ELSE tasks[t]
  BY DEF FailTasksByLifetime
<1>2. Availability(tasks[t]) = "ExpiredPastLifetime" => tasks[t].status = "Started" /\ IsLifetimeExpired(tasks[t])
  BY DEF Availability
<1> QED BY <1>1, <1>2

\* A lifetime that ends gives no result and changes no hands (fail_tasks_by_lifetime).
LEMMA LifetimeIsWork ==
    ASSUME NEW tasks, IsTaskMap(tasks), AreSound(tasks), NEW w
    PROVE  IsWorkOf(w, FailTasksByLifetime(tasks), tasks) /\ AreSound(FailTasksByLifetime(tasks))
<1> DEFINE next == FailTasksByLifetime(tasks)
<1>1. DOMAIN next = DOMAIN tasks
  BY FailTasksByLifetimeType
<1>2. ASSUME NEW t \in DOMAIN tasks, next[t] # tasks[t]
      PROVE  /\ tasks[t].status = "Started" /\ IsExpired(tasks[t])
             /\ next[t].status = "Failed" /\ next[t].owner = tasks[t].owner
  <2>1. tasks[t] \in Task /\ IsSound(tasks[t])
    BY DEF IsTaskMap, AreSound
  <2>2. /\ tasks[t].status = "Started" /\ IsLifetimeExpired(tasks[t])
        /\ next[t] = FailedTask(tasks[t], "WhileBudgetLasts")
    BY <1>2, LifetimeEffect
  <2> HIDE DEF next
  <2>3. next[t].status = "Failed" /\ next[t].owner = tasks[t].owner
    BY <2>1, <2>2 DEF FailedTask, Task
  <2>4. tasks[t].expires = 0
    BY <2>1, <2>2 DEF IsSound, IsLifetimeExpired, Has_Come
  <2> QED BY <2>2, <2>3, <2>4 DEF IsExpired, Has_Come
<1> HIDE DEF next
<1>3. AreSound(next)
  BY <1>1, <1>2 DEF AreSound, IsSound
<1>4. IsWorkOf(w, next, tasks)
  BY <1>2 DEF IsWorkOf, MayBecome, IsResult, IsDecided, Results, PutOut
<1> QED BY <1>3, <1>4 DEF next

\* What a pick hands out was failed by lifetime, and settled if nothing was pickable before
\* (pick_task_to_execute).
LEMMA PickupTasks ==
    ASSUME NEW job, IsJob(job), NEW pickup \in Pickups(job), pickup.kind \in {"Ready", "IterationSettled"}
    PROVE  \E running :
            /\ IsJob(running) /\ running.tasks = FailTasksByLifetime(job.tasks)
            /\ pickup.job \in {running, TrySettleIteration(running).job}
            /\ pickup.kind = "Ready" =>
                    /\ pickup.task \in DOMAIN pickup.job.tasks
                    /\ Availability(pickup.job.tasks[pickup.task]) = "Pickable"
<1> DEFINE tasks == FailTasksByLifetime(job.tasks)
           running == [job EXCEPT !.status = "Running", !.tasks = tasks]
           settling == TrySettleIteration(running)
           Ready(j) == {[kind |-> "Ready", job |-> j, task |-> t] : t \in PickableTasks(j.tasks)}
<1>1. IsTaskMap(tasks)
  BY FailTasksByLifetimeType DEF IsJob, IsTaskMap
<1>2. IsJob(running) /\ running.tasks = tasks
  <2> HIDE DEF tasks
  <2> QED BY <1>1 DEF IsJob, IsTaskMap, JobStatus
<1>3. running = [job EXCEPT !.status = "Running", !.tasks = FailTasksByLifetime(@)]
  OBVIOUS
<1> HIDE DEF running, settling
<1>4. \/ Pickups(job) = Ready(running)
      \/ Pickups(job) = {[kind |-> "IterationSettled", job |-> settling.job]}
      \/ Pickups(job) = {[kind |-> "Deadlock"]}
      \/ Pickups(job) \in {Ready(settling.job), {[kind |-> "Waiting"]}}
  BY <1>3 DEF Pickups, settling
<1>5. \/ pickup \in Ready(running)
      \/ pickup = [kind |-> "IterationSettled", job |-> settling.job]
      \/ pickup \in Ready(settling.job)
  BY <1>4
<1>6. /\ pickup.job \in {running, settling.job}
      /\ pickup.kind = "Ready" => pickup.task \in PickableTasks(pickup.job.tasks)
  BY <1>5
<1> QED BY <1>2, <1>6 DEF PickableTasks, settling

\* A pick is the work of whoever picks.
LEMMA PickupIsWork ==
    ASSUME NEW job, IsJob(job), AreSound(job.tasks), NEW pickup \in Pickups(job),
           pickup.kind \in {"Ready", "IterationSettled"}, NEW w
    PROVE  IsWorkOf(w, pickup.job.tasks, job.tasks) /\ AreSound(pickup.job.tasks)
<1>1. PICK running : /\ IsJob(running) /\ running.tasks = FailTasksByLifetime(job.tasks)
                     /\ pickup.job \in {running, TrySettleIteration(running).job}
  BY PickupTasks
<1>2. IsTaskMap(job.tasks)
  BY DEF IsJob, IsTaskMap
<1>3. IsWorkOf(w, running.tasks, job.tasks) /\ AreSound(running.tasks) /\ DOMAIN running.tasks = DOMAIN job.tasks
  BY <1>1, <1>2, LifetimeIsWork, FailTasksByLifetimeType
<1> DEFINE settled == TrySettleIteration(running).job.tasks
<1>4. IsWorkOf(w, settled, running.tasks) /\ AreSound(settled) /\ DOMAIN settled = DOMAIN running.tasks
  BY <1>1, <1>3, SettlingIsWork, TrySettleIterationType
<1> HIDE DEF settled
<1>5. IsWorkOf(w, settled, job.tasks)
  BY <1>3, <1>4, WorkIsTransitive
<1> QED BY <1>1, <1>3, <1>4, <1>5 DEF settled

\* Only a task that waits to be started, or whose deadline has passed, is started.
LEMMA PickableStatus ==
    ASSUME NEW task, Availability(task) = "Pickable"
    PROVE  /\ task.status \in {"Todo", "Failed", "Started"}
           /\ task.status = "Started" => IsExpired(task)
           /\ task.status = "Failed" => ~IsTerminallyFailed(task)
BY DEF Availability

\* A start gives the task a deadline within its lifetime (Task::start).
LEMMA StartedTaskIsSound ==
    ASSUME NEW task \in Task, NEW w \in Workers
    PROVE  LET next == StartedTask(task, w)
           IN next.owner = w /\ next.status = "Started" /\ IsSound(next)
<1> DEFINE outlives == IF task.outlives = Unset THEN MaxLifetime + 1 ELSE task.outlives
           expires == IF Timeout + 1 < outlives THEN Timeout + 1 ELSE outlives
           attempt == IF task.status = "Started" THEN task.attempt ELSE task.attempt + 1
           next == StartedTask(task, w)
<1>1. outlives \in Nat /\ expires \in Nat /\ expires <= outlives
  BY LimitsAssumption DEF Task, Moment, Unset
<1>2. next = [task EXCEPT !.status = "Started", !.owner = w, !.attempt = attempt,
                          !.expires = expires, !.outlives = outlives, !.pause = Unset]
  BY DEF StartedTask
<1> HIDE DEF outlives, expires, attempt, next
<1>3. /\ next.owner = w /\ next.status = "Started" /\ next.expires = expires /\ next.outlives = outlives
  BY <1>2 DEF Task
<1>4. w # NoWorker
  BY WorkersAssumption
<1>5. IsSound(next)
  BY <1>1, <1>3, <1>4 DEF IsSound
<1> QED BY <1>3, <1>5 DEF next

\* A start of a pickable task is the work of whoever starts it.
LEMMA StartIsWork ==
    ASSUME NEW job, IsJob(job), AreSound(job.tasks), NEW t \in DOMAIN job.tasks,
           Availability(job.tasks[t]) = "Pickable", NEW w \in Workers
    PROVE  LET next == StartTask(job, t, w).tasks
           IN /\ IsWorkOf(w, next, job.tasks) /\ AreSound(next)
              /\ next[t].owner = w /\ next[t].status = "Started"
<1> DEFINE next == [job.tasks EXCEPT ![t] = StartedTask(@, w)]
<1>1. job.tasks[t] \in Task
  BY DEF IsJob
<1>2. /\ DOMAIN next = DOMAIN job.tasks /\ next[t] = StartedTask(job.tasks[t], w)
      /\ \A u \in DOMAIN job.tasks : u # t => next[u] = job.tasks[u]
  OBVIOUS
<1>3. StartTask(job, t, w).tasks = next
  BY DEF StartTask, IsJob
<1> HIDE DEF next
<1>4. next[t].owner = w /\ next[t].status = "Started" /\ IsSound(next[t])
  BY <1>1, <1>2, StartedTaskIsSound
<1>5. AreSound(next)
  BY <1>2, <1>4 DEF AreSound
<1>6. MayBecome(w, next[t], job.tasks[t])
  <2>1. /\ job.tasks[t].status \in {"Todo", "Failed", "Started"}
        /\ job.tasks[t].status = "Started" => IsExpired(job.tasks[t])
    BY PickableStatus
  <2>2. w # NoWorker
    BY WorkersAssumption
  <2> QED BY <1>4, <2>1, <2>2 DEF MayBecome, IsDecided, Results, PutOut
<1>7. IsWorkOf(w, next, job.tasks)
  BY <1>2, <1>6 DEF IsWorkOf, MayBecome
<1> QED BY <1>3, <1>4, <1>5, <1>7

\* One task of a copy that w executes is resolved: it was started by w and stays with w.
IsResolvedBy(w, next, tasks, t) ==
    /\ \A u \in DOMAIN tasks \cap DOMAIN next : u # t => next[u] = tasks[u]
    /\ DOMAIN next \subseteq DOMAIN tasks /\ t \in DOMAIN next
    /\ tasks[t].status = "Started" /\ tasks[t].owner = w
    /\ next[t].status \in {"Failed"} \cup Results
    /\ next[t].owner = w /\ next[t].expires = tasks[t].expires /\ next[t].attempt = tasks[t].attempt

\* Resolving the task it started is what a worker may do.
LEMMA ResolvingIsWork ==
    ASSUME NEW w \in Workers, NEW tasks, AreSound(tasks), NEW next, NEW t, IsResolvedBy(w, next, tasks, t)
    PROVE  IsWorkOf(w, next, tasks) /\ AreSound(next)
<1>1. w # NoWorker
  BY WorkersAssumption
<1>2. AreSound(next)
  BY <1>1 DEF AreSound, IsSound, IsResolvedBy, Results
<1>3. IsWorkOf(w, next, tasks)
  BY <1>1 DEF IsWorkOf, MayBecome, IsResolvedBy, IsDecided, Results, PutOut
<1> QED BY <1>2, <1>3

\* complete_task and skip_task_by_executor resolve.
LEMMA EndingResolves ==
    ASSUME NEW job, IsJob(job), NEW t \in DOMAIN job.tasks, NEW w, NEW status \in Results,
           job.tasks[t].status = "Started", job.tasks[t].owner = w
    PROVE  LET next == [job EXCEPT !.tasks[t] = Ended(@, status)].tasks
           IN IsResolvedBy(w, next, job.tasks, t) /\ next[t].status = status
<1> DEFINE next == [job.tasks EXCEPT ![t] = Ended(@, status)]
<1>1. [job EXCEPT !.tasks[t] = Ended(@, status)].tasks = next
  BY DEF IsJob
<1>2. /\ DOMAIN next = DOMAIN job.tasks /\ next[t] = Ended(job.tasks[t], status)
      /\ \A u \in DOMAIN job.tasks : u # t => next[u] = job.tasks[u]
  OBVIOUS
<1> HIDE DEF next
<1>3. /\ next[t].status = status /\ next[t].owner = w
      /\ next[t].expires = job.tasks[t].expires /\ next[t].attempt = job.tasks[t].attempt
  BY <1>2 DEF Ended, IsJob, Task
<1>4. IsResolvedBy(w, next, job.tasks, t)
  BY <1>2, <1>3 DEF IsResolvedBy
<1> QED BY <1>1, <1>3, <1>4

\* So does fail_task.
LEMMA FailingResolves ==
    ASSUME NEW job, IsJob(job), NEW t \in DOMAIN job.tasks, NEW w, NEW retry, NEW dropped, t \notin dropped,
           job.tasks[t].status = "Started", job.tasks[t].owner = w
    PROVE  LET next == FailTask(job, t, retry, dropped).tasks
           IN IsResolvedBy(w, next, job.tasks, t) /\ next[t].status = "Failed"
<1> DEFINE next == [u \in DOMAIN job.tasks \ dropped |->
                        IF u = t THEN FailedTask(job.tasks[t], retry) ELSE job.tasks[u]]
<1>1. FailTask(job, t, retry, dropped).tasks = next
  BY DEF IsJob, FailTask
<1>2. /\ DOMAIN next = DOMAIN job.tasks \ dropped /\ next[t] = FailedTask(job.tasks[t], retry)
      /\ \A u \in DOMAIN next : u # t => next[u] = job.tasks[u]
  OBVIOUS
<1> HIDE DEF next
<1>3. /\ next[t].status = "Failed" /\ next[t].owner = w
      /\ next[t].expires = job.tasks[t].expires /\ next[t].attempt = job.tasks[t].attempt
  BY <1>2 DEF FailedTask, IsJob, Task
<1>4. IsResolvedBy(w, next, job.tasks, t)
  BY <1>2, <1>3 DEF IsResolvedBy
<1> QED BY <1>1, <1>3, <1>4

\* A task just planned has no worker.
LEMMA NewTaskIsSound ==
    ASSUME NEW t, NEW w
    PROVE  LET next == NewTask(t, w)
           IN IsSound(next) /\ next.owner = NoWorker /\ next.status \in {"Todo", "Blocked"}
BY DEF NewTask, IsSound, Results

\* A planned iteration holds the initial tasks, and none of them has a worker.
LEMMA NewJobIsSound ==
    ASSUME NEW w, NEW iter
    PROVE  AreSound(NewJob(w, iter).tasks) /\ DOMAIN NewJob(w, iter).tasks = InitialTasks
<1>1. NewJob(w, iter).tasks = [t \in InitialTasks |-> NewTask(t, w)]
  BY DEF NewJob
<1> QED BY <1>1, NewTaskIsSound DEF AreSound

\* Time changes no status and no hands.
LEMMA ElapseEffect ==
    ASSUME NEW job, IsJob(job), NEW t \in DOMAIN job.tasks
    PROVE  LET next == Elapse(job).tasks[t]
           IN /\ next.status = job.tasks[t].status /\ next.owner = job.tasks[t].owner
              /\ next.expires = Closer(job.tasks[t].expires)
              /\ next.outlives = Closer(job.tasks[t].outlives)
              /\ next.attempt = job.tasks[t].attempt
<1>1. job.tasks[t] \in Task
  BY DEF IsJob
<1>2. Elapse(job).tasks[t] = ElapsedTask(job.tasks[t])
  BY DEF Elapse, IsJob
<1> QED BY <1>1, <1>2 DEF ElapsedTask, Task

\* So what was sound stays sound, and what was respected stays respected.
LEMMA ElapseIsSound ==
    ASSUME NEW job, IsJob(job), AreSound(job.tasks)
    PROVE  AreSound(Elapse(job).tasks)
<1> SUFFICES ASSUME NEW t \in DOMAIN Elapse(job).tasks
             PROVE  IsSound(Elapse(job).tasks[t])
  BY DEF AreSound
<1> DEFINE task == job.tasks[t]
           next == Elapse(job).tasks[t]
<1>1. t \in DOMAIN job.tasks
  BY ElapseType
<1>2. /\ next.status = task.status /\ next.owner = task.owner
      /\ next.expires = Closer(task.expires) /\ next.outlives = Closer(task.outlives)
  BY <1>1, ElapseEffect
<1>3. IsSound(task)
  BY <1>1 DEF AreSound
<1> HIDE DEF task, next
<1>4. task.status = "Started" => next.expires \in Nat /\ next.outlives \in Nat /\ next.expires <= next.outlives
  <2> SUFFICES ASSUME task.status = "Started"
               PROVE  next.expires \in Nat /\ next.outlives \in Nat /\ next.expires <= next.outlives
    OBVIOUS
  <2>1. task.expires \in Nat /\ task.outlives \in Nat /\ task.expires <= task.outlives
    BY <1>3 DEF IsSound
  <2> QED BY <1>2, <2>1 DEF Closer
<1>5. IsSound(next)
  BY <1>2, <1>3, <1>4 DEF IsSound
<1> QED BY <1>5 DEF next

\* Time passes alike for a copy and for what is stored.
LEMMA ElapseRespects ==
    ASSUME NEW w, NEW stored, IsJob(stored), NEW job, IsJob(job)
    PROVE  /\ AreRespected(w, job.tasks, stored.tasks) =>
                AreRespected(w, Elapse(job).tasks, Elapse(stored).tasks)
           /\ KnowsOwnResults(w, job.tasks, stored.tasks) =>
                KnowsOwnResults(w, Elapse(job).tasks, Elapse(stored).tasks)
<1> DEFINE S == stored.tasks
           M == job.tasks
           S2 == Elapse(stored).tasks
           M2 == Elapse(job).tasks
<1>1. DOMAIN S2 = DOMAIN S /\ DOMAIN M2 = DOMAIN M
  BY ElapseType
<1>2. \A t \in DOMAIN S : /\ S2[t].status = S[t].status /\ S2[t].owner = S[t].owner
                          /\ S2[t].expires = Closer(S[t].expires)
  BY ElapseEffect
<1>3. \A t \in DOMAIN M : /\ M2[t].status = M[t].status /\ M2[t].owner = M[t].owner
                          /\ M2[t].expires = Closer(M[t].expires)
  BY ElapseEffect
<1> HIDE DEF S, M, S2, M2
<1>4. \A t \in DOMAIN S : IsExpired(S[t]) => IsExpired(S2[t])
  BY <1>2 DEF IsExpired, Has_Come, Closer
<1>5. AreRespected(w, M, S) => AreRespected(w, M2, S2)
  BY <1>1, <1>2, <1>3, <1>4 DEF AreRespected, Respects, IsResult
<1>6. KnowsOwnResults(w, M, S) => KnowsOwnResults(w, M2, S2)
  BY <1>1, <1>2, <1>3 DEF KnowsOwnResults, IsResult
<1> QED BY <1>5, <1>6 DEF S, M, S2, M2

\* What the merge of a start puts together (merge_with_picked_task).
LEMMA MergePickedTaskParts ==
    ASSUME NEW stored, IsJob(stored), NEW mine, IsJob(mine), NEW w,
           NEW t, t \in DOMAIN mine.tasks,
           MergePickedTask(stored, mine, w, t).answer = "Merged"
    PROVE  /\ MergePickedTask(stored, mine, w, t).job.tasks =
                WithTask(SkipUnreachableTasks(FailTasksByLifetime(stored.tasks)), t, mine.tasks[t])
           /\ t \in DOMAIN stored.tasks /\ ~OwnedByOther(stored.tasks[t], w)
<1> DEFINE tasks == WithTask(SkipUnreachableTasks(FailTasksByLifetime(stored.tasks)), t, mine.tasks[t])
<1>1. /\ TaskStolen(stored, mine, w, t) = "No"
      /\ MergePickedTask(stored, mine, w, t).job = [stored EXCEPT !.status = mine.status, !.tasks = tasks]
  BY DEF MergePickedTask, TaskStolen
<1>2. t \in DOMAIN stored.tasks /\ ~OwnedByOther(stored.tasks[t], w)
  BY <1>1 DEF TaskStolen
<1> HIDE DEF tasks
<1>3. MergePickedTask(stored, mine, w, t).job.tasks = tasks
  BY <1>1 DEF IsJob
<1> QED BY <1>2, <1>3 DEF tasks

\* A task nobody else has, put in the place of the stored one, takes nothing back.
LEMMA OwnTaskRespects ==
    ASSUME NEW w, NEW stored, IsSound(stored), ~OwnedByOther(stored, w), NEW task, task.owner = w,
           stored.owner = w /\ IsResult(stored) => task.status = stored.status
    PROVE  Respects(w, task, stored)
BY DEF Respects, IsSound, OwnedByOther, IsResult, Results

\* A start that is merged takes nothing back of what is stored.
LEMMA MergePickedTaskRespects ==
    ASSUME NEW stored, IsJob(stored), AreSound(stored.tasks), NEW mine, IsJob(mine), AreSound(mine.tasks),
           NEW w, NEW t, t \in DOMAIN mine.tasks,
           MergePickedTask(stored, mine, w, t).answer = "Merged",
           mine.tasks[t].owner = w, KnowsOwnResults(w, mine.tasks, stored.tasks)
    PROVE  LET merged == MergePickedTask(stored, mine, w, t).job
           IN /\ AreRespected(w, merged.tasks, stored.tasks) /\ AreSound(merged.tasks)
              /\ merged.tasks[t] = mine.tasks[t]
<1> DEFINE failed == FailTasksByLifetime(stored.tasks)
           kept == SkipUnreachableTasks(failed)
           merged == MergePickedTask(stored, mine, w, t).job.tasks
<1>1. /\ merged = WithTask(kept, t, mine.tasks[t])
      /\ t \in DOMAIN stored.tasks /\ ~OwnedByOther(stored.tasks[t], w)
  BY MergePickedTaskParts
<1>2. /\ IsWorkOf(w, failed, stored.tasks) /\ AreSound(failed)
      /\ IsTaskMap(failed) /\ DOMAIN failed = DOMAIN stored.tasks
  <2>1. IsTaskMap(stored.tasks)
    BY DEF IsJob, IsTaskMap
  <2> QED BY <2>1, LifetimeIsWork, FailTasksByLifetimeType
<1> HIDE DEF failed
<1>3. IsWorkOf(w, kept, failed) /\ AreSound(kept) /\ DOMAIN kept = DOMAIN failed
  BY <1>2, CascadeIsWork, SkipUnreachableTasksType
<1> HIDE DEF kept, merged
<1>4. AreRespected(w, kept, stored.tasks)
  <2>1. AreRespected(w, failed, stored.tasks)
    BY <1>2, StoredIsRespected, WorkIsRespectful
  <2> QED BY <1>2, <1>3, <2>1, WorkIsRespectful
<1>5. /\ DOMAIN merged = DOMAIN stored.tasks /\ merged[t] = mine.tasks[t]
      /\ \A u \in DOMAIN stored.tasks : u # t => merged[u] = kept[u]
  BY <1>1, <1>2, <1>3 DEF WithTask
<1>6. Respects(w, mine.tasks[t], stored.tasks[t])
  BY <1>1, OwnTaskRespects DEF AreSound, KnowsOwnResults
<1>7. AreRespected(w, merged, stored.tasks)
  BY <1>4, <1>5, <1>6 DEF AreRespected
<1>8. AreSound(merged)
  BY <1>2, <1>3, <1>5 DEF AreSound
<1> QED BY <1>5, <1>7, <1>8 DEF merged

\* What the merge of a result puts together before it settles (merge_with_processed_task).
LEMMA MergeProcessedTaskParts ==
    ASSUME NEW stored, IsJob(stored), NEW mine, IsJob(mine), NEW w, NEW t,
           MergeProcessedTask(stored, mine, w, t).answer = "Merged"
    PROVE  /\ t \in DOMAIN stored.tasks /\ ~OwnedByOther(stored.tasks[t], w)
           /\ \E both :
                /\ IsJob(both) /\ MergeProcessedTask(stored, mine, w, t).job = TrySettleIteration(both).job
                /\ DOMAIN both.tasks = DOMAIN stored.tasks \cup CarriedOver(stored, mine, w)
                /\ \A u \in CarriedOver(stored, mine, w) : both.tasks[u] = mine.tasks[u]
                /\ \A u \in DOMAIN stored.tasks \ CarriedOver(stored, mine, w) : both.tasks[u] = stored.tasks[u]
<1> DEFINE carried == CarriedOver(stored, mine, w)
           tasks == [u \in DOMAIN stored.tasks \cup carried |->
                        IF u \in carried THEN mine.tasks[u] ELSE stored.tasks[u]]
           next == IF mine.next # Unset THEN mine.next ELSE stored.next
           both == [stored EXCEPT !.status = "Running", !.tasks = tasks, !.next = next]
<1>1. IsTaskMap(tasks) /\ next \in Moment
  BY DEF CarriedOver, IsJob, IsTaskMap
<1>2. /\ DOMAIN tasks = DOMAIN stored.tasks \cup carried
      /\ \A u \in carried : tasks[u] = mine.tasks[u]
      /\ \A u \in DOMAIN stored.tasks \ carried : tasks[u] = stored.tasks[u]
  OBVIOUS
<1>3. /\ TaskStolen(stored, mine, w, t) = "No"
      /\ MergeProcessedTask(stored, mine, w, t).job = TrySettleIteration(both).job
  BY DEF MergeProcessedTask, TaskStolen
<1>4. t \in DOMAIN stored.tasks /\ ~OwnedByOther(stored.tasks[t], w)
  BY <1>3 DEF TaskStolen
<1> HIDE DEF tasks, next, carried
<1>5. IsJob(both) /\ both.tasks = tasks
  BY <1>1 DEF IsJob, IsTaskMap, JobStatus
<1> HIDE DEF both
<1> QED BY <1>2, <1>3, <1>4, <1>5 DEF carried

\* A result that is merged takes nothing back of what is stored, if no other task of its worker was
\* taken over meanwhile: the merge asks that of the executed task only.
LEMMA MergeProcessedTaskRespects ==
    ASSUME NEW stored, IsJob(stored), AreSound(stored.tasks), NEW mine, IsJob(mine), AreSound(mine.tasks),
           NEW w, NEW t, t \in DOMAIN mine.tasks, mine.tasks[t].owner = w,
           MergeProcessedTask(stored, mine, w, t).answer = "Merged",
           \A u \in (DOMAIN stored.tasks \cap CarriedOver(stored, mine, w)) \ {t} :
                ~OwnedByOther(stored.tasks[u], w),
           KnowsOwnResults(w, mine.tasks, stored.tasks)
    PROVE  LET merged == MergeProcessedTask(stored, mine, w, t).job
           IN /\ AreRespected(w, merged.tasks, stored.tasks) /\ AreSound(merged.tasks)
              /\ t \in DOMAIN merged.tasks /\ merged.tasks[t].owner = w
              /\ IsResult(mine.tasks[t]) => merged.tasks[t] = mine.tasks[t]
<1> DEFINE carried == CarriedOver(stored, mine, w)
           merged == MergeProcessedTask(stored, mine, w, t).job.tasks
<1>1. /\ t \in DOMAIN stored.tasks /\ ~OwnedByOther(stored.tasks[t], w)
      /\ \E both :
                /\ IsJob(both) /\ MergeProcessedTask(stored, mine, w, t).job = TrySettleIteration(both).job
                /\ DOMAIN both.tasks = DOMAIN stored.tasks \cup carried
                /\ \A u \in carried : both.tasks[u] = mine.tasks[u]
                /\ \A u \in DOMAIN stored.tasks \ carried : both.tasks[u] = stored.tasks[u]
  BY MergeProcessedTaskParts
<1>2. PICK both : /\ IsJob(both) /\ merged = TrySettleIteration(both).job.tasks
                  /\ DOMAIN both.tasks = DOMAIN stored.tasks \cup carried
                  /\ \A u \in carried : both.tasks[u] = mine.tasks[u]
                  /\ \A u \in DOMAIN stored.tasks \ carried : both.tasks[u] = stored.tasks[u]
  BY <1>1
<1>3. /\ t \in carried /\ carried \subseteq DOMAIN mine.tasks
      /\ \A u \in carried \cap DOMAIN stored.tasks : mine.tasks[u].owner = w
  BY DEF CarriedOver
<1>4. \A u \in carried \cap DOMAIN stored.tasks : ~OwnedByOther(stored.tasks[u], w)
  BY <1>1
<1> HIDE DEF carried, merged
<1>5. AreSound(both.tasks)
  BY <1>2, <1>3 DEF AreSound
<1>6. AreRespected(w, both.tasks, stored.tasks)
  <2> SUFFICES ASSUME NEW u \in DOMAIN stored.tasks
               PROVE  Respects(w, both.tasks[u], stored.tasks[u])
    BY <1>2 DEF AreRespected
  <2>1. CASE u \in carried
    BY <1>2, <1>3, <1>4, <2>1, OwnTaskRespects DEF AreSound, KnowsOwnResults
  <2>2. CASE u \notin carried
    BY <1>2, <2>2 DEF Respects
  <2> QED BY <2>1, <2>2
<1>7. /\ IsWorkOf(w, merged, both.tasks) /\ AreSound(merged) /\ DOMAIN merged = DOMAIN both.tasks
  BY <1>2, <1>5, SettlingIsWork, TrySettleIterationType
<1>8. AreRespected(w, merged, stored.tasks)
  BY <1>2, <1>6, <1>7, WorkIsRespectful
<1>9. t \in DOMAIN merged /\ merged[t].owner = w /\ (IsResult(mine.tasks[t]) => merged[t] = mine.tasks[t])
  <2>1. t \in DOMAIN merged /\ both.tasks[t] = mine.tasks[t]
    BY <1>2, <1>3, <1>7
  <2>2. MayBecome(w, merged[t], mine.tasks[t])
    BY <1>2, <1>3, <1>7, <2>1 DEF IsWorkOf
  <2>3. merged[t].owner = w
    BY <2>2 DEF MayBecome
  <2>4. IsResult(mine.tasks[t]) => merged[t] = mine.tasks[t]
    BY <2>2 DEF MayBecome, IsDecided, IsResult
  <2> QED BY <2>1, <2>3, <2>4
<1> QED BY <1>7, <1>8, <1>9 DEF merged

-----------------------------------------------------------------------------
(* The order of the tasks.  By default a task waits for every dependency to complete: no task      *)
(* allows a failed or a skipped one (DependencyTolerance in core/task.rs).                         *)

NoTolerance == AllowsFailed = {} /\ AllowsSkipped = {}

\* The states of a task that waits for nothing any more.
Released == {"Todo", "Started", "Failed"} \cup Results

IsReleased(task) == task.status \in Released

DependenciesCompleted(tasks, t) ==
    \A d \in DependsOn[t] : d \in DOMAIN tasks /\ tasks[d].status = "Completed"

InSequence(tasks) ==
    \A t \in DOMAIN tasks : IsReleased(tasks[t]) => DependenciesCompleted(tasks, t)

\* What was completed in tasks is completed in next.
KeepsCompleted(next, tasks) ==
    \A t \in DOMAIN tasks : tasks[t].status = "Completed" => t \in DOMAIN next /\ next[t].status = "Completed"

\* A map that keeps what was completed is in sequence if whatever it releases is.
LEMMA SequenceKept ==
    ASSUME NEW tasks, InSequence(tasks), NEW next, KeepsCompleted(next, tasks),
           \A t \in DOMAIN next : IsReleased(next[t]) =>
                \/ t \in DOMAIN tasks /\ IsReleased(tasks[t])
                \/ DependenciesCompleted(next, t)
    PROVE  InSequence(next)
<1> SUFFICES ASSUME NEW t \in DOMAIN next, IsReleased(next[t]), t \in DOMAIN tasks, IsReleased(tasks[t]),
                    NEW d \in DependsOn[t]
             PROVE  d \in DOMAIN next /\ next[d].status = "Completed"
  BY DEF InSequence, DependenciesCompleted
<1> QED BY DEF InSequence, DependenciesCompleted, KeepsCompleted

\* Whatever anybody does, what is completed stays, as long as the map drops nothing that is.
LEMMA WorkKeepsCompleted ==
    ASSUME NEW w, NEW tasks, NEW next, IsWorkOf(w, next, tasks),
           \A t \in DOMAIN tasks : tasks[t].status = "Completed" => t \in DOMAIN next
    PROVE  KeepsCompleted(next, tasks)
BY DEF KeepsCompleted, IsWorkOf, MayBecome, IsDecided, Results

\* The copy knows the tasks that w is stored as the worker of.
KnowsOwnTasks(w, tasks, stored) ==
    \A t \in DOMAIN stored : stored[t].owner = w => t \in DOMAIN tasks /\ tasks[t].owner = w

\* It goes on to know them whatever w does, as long as it drops none of its own.
LEMMA WorkKnowsTasks ==
    ASSUME NEW w, NEW stored, NEW tasks, NEW next, KnowsOwnTasks(w, tasks, stored), IsWorkOf(w, next, tasks),
           \A t \in DOMAIN tasks : tasks[t].owner = w => t \in DOMAIN next
    PROVE  KnowsOwnTasks(w, next, stored)
BY DEF KnowsOwnTasks, IsWorkOf, MayBecome

\* The rules of the iteration are nobody's work: they hand no task to anybody and give no result.
LEMMA NobodysWork ==
    ASSUME NEW tasks, NEW next, IsWorkOf(NoWorker, next, tasks), NEW t \in DOMAIN tasks \cap DOMAIN next
    PROVE  /\ next[t].owner = tasks[t].owner
           /\ IsResult(next[t]) \/ IsResult(tasks[t]) => next[t] = tasks[t]
<1>1. MayBecome(NoWorker, next[t], tasks[t])
  BY DEF IsWorkOf
<1> QED BY <1>1 DEF MayBecome, IsDecided, IsResult

\* Settling releases a task only once every dependency of it is completed.
LEMMA SettlingInSequence ==
    ASSUME NoTolerance, NEW job, IsJob(job), AreSound(job.tasks), InSequence(job.tasks)
    PROVE  InSequence(TrySettleIteration(job).job.tasks)
<1> DEFINE next == TrySettleIteration(job).job.tasks
<1>1. DOMAIN next = DOMAIN job.tasks
  BY TrySettleIterationType DEF Extends
<1>2. IsWorkOf(NoWorker, next, job.tasks)
  BY SettlingIsWork
<1>3. ASSUME NEW t \in DOMAIN job.tasks
      PROVE  \/ next[t] = job.tasks[t]
             \/ IsEndedByCascade(next, job.tasks, t)
             \/ IsUnblocked(next, job.tasks, t)
  BY SettlingEffect
<1> HIDE DEF next
<1>4. KeepsCompleted(next, job.tasks)
  BY <1>1, <1>2, WorkKeepsCompleted
<1>5. ASSUME NEW t \in DOMAIN next, IsReleased(next[t])
      PROVE  IsReleased(job.tasks[t]) \/ DependenciesCompleted(next, t)
  <2>1. CASE next[t] = job.tasks[t]
    BY <1>5, <2>1
  <2>2. CASE IsEndedByCascade(next, job.tasks, t)
    BY <1>5, <2>2 DEF IsEndedByCascade, IsReleased, Released, Results, PutOut
  <2>3. CASE IsUnblocked(next, job.tasks, t)
    BY <2>3 DEF IsUnblocked, DependenciesSatisfied, JudgeDependency, DependenciesCompleted, NoTolerance
  <2> QED BY <1>1, <1>3, <1>5, <2>1, <2>2, <2>3
<1>6. InSequence(next)
  BY <1>1, <1>4, <1>5, SequenceKept
<1> QED BY <1>6 DEF next

\* The lifetime fails only what was started.
LEMMA LifetimeInSequence ==
    ASSUME NEW tasks, IsTaskMap(tasks), AreSound(tasks), InSequence(tasks)
    PROVE  /\ InSequence(FailTasksByLifetime(tasks))
           /\ \A t \in DOMAIN tasks : IsReleased(FailTasksByLifetime(tasks)[t]) => IsReleased(tasks[t])
<1> DEFINE next == FailTasksByLifetime(tasks)
<1>1. DOMAIN next = DOMAIN tasks
  BY DEF FailTasksByLifetime
<1>2. IsWorkOf(NoWorker, next, tasks)
  BY LifetimeIsWork
<1>3. \A t \in DOMAIN tasks : next[t] = tasks[t] \/ tasks[t].status = "Started"
  BY LifetimeEffect
<1> HIDE DEF next
<1>4. KeepsCompleted(next, tasks)
  BY <1>1, <1>2, WorkKeepsCompleted
<1>5. \A t \in DOMAIN tasks : IsReleased(next[t]) => IsReleased(tasks[t])
  BY <1>3 DEF IsReleased, Released
<1>6. InSequence(next)
  BY <1>1, <1>4, <1>5, SequenceKept
<1> QED BY <1>5, <1>6 DEF next

\* The cascade releases nothing.
LEMMA CascadeInSequence ==
    ASSUME NEW tasks, IsTaskMap(tasks), AreSound(tasks), InSequence(tasks)
    PROVE  /\ InSequence(SkipUnreachableTasks(tasks))
           /\ \A t \in DOMAIN tasks : IsReleased(SkipUnreachableTasks(tasks)[t]) => IsReleased(tasks[t])
<1> DEFINE next == SkipUnreachableTasks(tasks)
<1>1. DOMAIN next = DOMAIN tasks
  BY DEF SkipUnreachableTasks
<1>2. IsWorkOf(NoWorker, next, tasks)
  BY CascadeIsWork
<1>3. \A t \in DOMAIN tasks : next[t] = tasks[t] \/ IsEndedByCascade(next, tasks, t)
  BY CascadeEffect
<1> HIDE DEF next
<1>4. KeepsCompleted(next, tasks)
  BY <1>1, <1>2, WorkKeepsCompleted
<1>5. \A t \in DOMAIN tasks : IsReleased(next[t]) => IsReleased(tasks[t])
  BY <1>3 DEF IsEndedByCascade, IsReleased, Released, Results, PutOut
<1>6. InSequence(next)
  BY <1>1, <1>4, <1>5, SequenceKept
<1> QED BY <1>5, <1>6 DEF next

\* A pick hands out a copy in sequence.
LEMMA PickupInSequence ==
    ASSUME NoTolerance, NEW job, IsJob(job), AreSound(job.tasks), InSequence(job.tasks),
           NEW pickup \in Pickups(job), pickup.kind \in {"Ready", "IterationSettled"}
    PROVE  InSequence(pickup.job.tasks)
<1>1. PICK running : /\ IsJob(running) /\ running.tasks = FailTasksByLifetime(job.tasks)
                     /\ pickup.job \in {running, TrySettleIteration(running).job}
  BY PickupTasks
<1>2. IsTaskMap(job.tasks)
  BY DEF IsJob, IsTaskMap
<1>3. AreSound(running.tasks) /\ InSequence(running.tasks)
  BY <1>1, <1>2, LifetimeIsWork, LifetimeInSequence
<1>4. InSequence(TrySettleIteration(running).job.tasks)
  BY <1>1, <1>3, SettlingInSequence
<1> QED BY <1>1, <1>3, <1>4

\* So does a start: what is started waited for nothing any more.
LEMMA StartInSequence ==
    ASSUME NEW job, IsJob(job), AreSound(job.tasks), InSequence(job.tasks), NEW t \in DOMAIN job.tasks,
           Availability(job.tasks[t]) = "Pickable", NEW w \in Workers
    PROVE  /\ InSequence(StartTask(job, t, w).tasks)
           /\ IsReleased(job.tasks[t]) /\ job.tasks[t].status # "Completed"
<1> DEFINE next == StartTask(job, t, w).tasks
<1>1. IsWorkOf(w, next, job.tasks)
  BY StartIsWork
<1>2. DOMAIN next = DOMAIN job.tasks /\ \A u \in DOMAIN job.tasks : u # t => next[u] = job.tasks[u]
  BY DEF StartTask, IsJob
<1>3. job.tasks[t].status \in {"Todo", "Failed", "Started"}
  BY PickableStatus
<1> HIDE DEF next
<1>4. KeepsCompleted(next, job.tasks)
  BY <1>1, <1>2, WorkKeepsCompleted
<1>5. \A u \in DOMAIN next : IsReleased(next[u]) => IsReleased(job.tasks[u])
  BY <1>2, <1>3 DEF IsReleased, Released
<1>6. InSequence(next)
  BY <1>2, <1>4, <1>5, SequenceKept
<1> QED BY <1>3, <1>6 DEF next, IsReleased, Released

\* Resolving a task keeps the sequence, and so does dropping what nobody has completed.
LEMMA ResolvingInSequence ==
    ASSUME NEW w \in Workers, NEW tasks, AreSound(tasks), InSequence(tasks), NEW next, NEW t,
           IsResolvedBy(w, next, tasks, t),
           \A u \in DOMAIN tasks \ DOMAIN next : tasks[u].status # "Completed"
    PROVE  InSequence(next)
<1>1. KeepsCompleted(next, tasks)
  BY ResolvingIsWork, WorkKeepsCompleted
<1>2. \A u \in DOMAIN next : IsReleased(next[u]) => u \in DOMAIN tasks /\ IsReleased(tasks[u])
  BY DEF IsResolvedBy, IsReleased, Released
<1> QED BY <1>1, <1>2, SequenceKept

\* A new task is released only if it depends on nothing.
LEMMA NewTaskReleased ==
    ASSUME NEW t, NEW w, NEW tasks
    PROVE  /\ IsReleased(NewTask(t, w)) => DependenciesCompleted(tasks, t)
           /\ NewTask(t, w).status # "Completed"
BY DEF NewTask, IsReleased, Released, Results, DependenciesCompleted

\* So a new iteration is in sequence.
LEMMA NewJobInSequence ==
    ASSUME NEW w, NEW iter
    PROVE  InSequence(NewJob(w, iter).tasks)
<1> DEFINE tasks == [t \in InitialTasks |-> NewTask(t, w)]
<1>1. NewJob(w, iter).tasks = tasks
  BY DEF NewJob
<1>2. InSequence(tasks)
  BY NewTaskReleased DEF InSequence
<1> QED BY <1>1, <1>2

\* Time changes no status.
LEMMA ElapseInSequence ==
    ASSUME NEW job, IsJob(job), InSequence(job.tasks)
    PROVE  InSequence(Elapse(job).tasks)
<1> DEFINE next == Elapse(job).tasks
<1>1. DOMAIN next = DOMAIN job.tasks /\ \A t \in DOMAIN job.tasks : next[t].status = job.tasks[t].status
  BY ElapseType, ElapseEffect
<1> HIDE DEF next
<1>2. InSequence(next)
  BY <1>1, SequenceKept DEF KeepsCompleted, IsReleased
<1> QED BY <1>2 DEF next

\* A start that is merged finds its dependencies completed in the store, as the copy it was picked
\* in did.
LEMMA MergePickedTaskInSequence ==
    ASSUME NEW stored, IsJob(stored), AreSound(stored.tasks), InSequence(stored.tasks),
           NEW mine, IsJob(mine), AreSound(mine.tasks),
           NEW w, NEW t, t \in DOMAIN mine.tasks,
           MergePickedTask(stored, mine, w, t).answer = "Merged",
           mine.tasks[t].owner = w, KnowsOwnResults(w, mine.tasks, stored.tasks),
           DependenciesCompleted(stored.tasks, t)
    PROVE  LET merged == MergePickedTask(stored, mine, w, t).job.tasks
           IN /\ InSequence(merged)
              /\ \A u \in DOMAIN merged \ {t} :
                    /\ u \in DOMAIN stored.tasks
                    /\ merged[u].owner = stored.tasks[u].owner
                    /\ IsResult(merged[u]) => merged[u] = stored.tasks[u]
<1> DEFINE failed == FailTasksByLifetime(stored.tasks)
           kept == SkipUnreachableTasks(failed)
           merged == MergePickedTask(stored, mine, w, t).job.tasks
<1>1. merged = WithTask(kept, t, mine.tasks[t]) /\ t \in DOMAIN stored.tasks
  BY MergePickedTaskParts
<1>2. AreRespected(w, merged, stored.tasks)
  BY MergePickedTaskRespects
<1>3. IsTaskMap(stored.tasks)
  BY DEF IsJob, IsTaskMap
<1>4. /\ IsTaskMap(failed) /\ DOMAIN failed = DOMAIN stored.tasks
      /\ AreSound(failed) /\ IsWorkOf(NoWorker, failed, stored.tasks) /\ InSequence(failed)
      /\ \A u \in DOMAIN stored.tasks : IsReleased(failed[u]) => IsReleased(stored.tasks[u])
  BY <1>3, FailTasksByLifetimeType, LifetimeIsWork, LifetimeInSequence
<1> HIDE DEF failed
<1>5. /\ DOMAIN kept = DOMAIN stored.tasks /\ AreSound(kept) /\ IsWorkOf(NoWorker, kept, failed)
      /\ \A u \in DOMAIN stored.tasks : IsReleased(kept[u]) => IsReleased(failed[u])
  BY <1>4, SkipUnreachableTasksType, CascadeIsWork, CascadeInSequence
<1> HIDE DEF kept, merged
<1>6. DOMAIN merged = DOMAIN stored.tasks /\ \A u \in DOMAIN stored.tasks \ {t} : merged[u] = kept[u]
  BY <1>1, <1>5 DEF WithTask
<1>7. KeepsCompleted(merged, stored.tasks)
  BY <1>2 DEF AreRespected, Respects, KeepsCompleted, IsResult, Results
<1>8. DependenciesCompleted(merged, t)
  BY <1>7 DEF DependenciesCompleted, KeepsCompleted
<1>9. InSequence(merged)
  BY <1>4, <1>5, <1>6, <1>7, <1>8, SequenceKept
<1>10. IsWorkOf(NoWorker, kept, stored.tasks)
  BY <1>4, <1>5, WorkIsTransitive
<1>11. \A u \in DOMAIN stored.tasks :
        /\ kept[u].owner = stored.tasks[u].owner
        /\ IsResult(kept[u]) => kept[u] = stored.tasks[u]
  BY <1>5, <1>10, NobodysWork
<1> QED BY <1>6, <1>9, <1>11 DEF merged

\* A result that is merged brings along what its dependencies came to.
LEMMA MergeProcessedTaskInSequence ==
    ASSUME NoTolerance,
           NEW stored, IsJob(stored), AreSound(stored.tasks), InSequence(stored.tasks),
           NEW mine, IsJob(mine), AreSound(mine.tasks), InSequence(mine.tasks),
           NEW w \in Workers, NEW t, t \in DOMAIN mine.tasks, mine.tasks[t].owner = w,
           MergeProcessedTask(stored, mine, w, t).answer = "Merged",
           \A u \in (DOMAIN stored.tasks \cap CarriedOver(stored, mine, w)) \ {t} :
                ~OwnedByOther(stored.tasks[u], w),
           KnowsOwnResults(w, mine.tasks, stored.tasks),
           \A u \in DOMAIN mine.tasks : mine.tasks[u].status = "Completed" /\ mine.tasks[u].owner # w =>
                u \in DOMAIN stored.tasks /\ stored.tasks[u].status = "Completed"
    PROVE  LET merged == MergeProcessedTask(stored, mine, w, t).job.tasks
           IN InSequence(merged)
<1> DEFINE carried == CarriedOver(stored, mine, w)
           merged == MergeProcessedTask(stored, mine, w, t).job.tasks
<1>1. PICK both : /\ IsJob(both) /\ merged = TrySettleIteration(both).job.tasks
                  /\ DOMAIN both.tasks = DOMAIN stored.tasks \cup carried
                  /\ \A u \in carried : both.tasks[u] = mine.tasks[u]
                  /\ \A u \in DOMAIN stored.tasks \ carried : both.tasks[u] = stored.tasks[u]
  BY MergeProcessedTaskParts
<1>2. AreRespected(w, merged, stored.tasks)
  BY MergeProcessedTaskRespects
<1>3. /\ carried \subseteq DOMAIN mine.tasks
      /\ \A u \in DOMAIN mine.tasks : mine.tasks[u].owner = w => u \in carried
  BY DEF CarriedOver
<1> HIDE DEF carried, merged
<1>4. AreSound(both.tasks)
  BY <1>1, <1>3 DEF AreSound
<1>5. IsWorkOf(NoWorker, merged, both.tasks) /\ AreSound(merged) /\ DOMAIN merged = DOMAIN both.tasks
  BY <1>1, <1>4, SettlingIsWork, TrySettleIterationType DEF Extends
<1>6. KeepsCompleted(both.tasks, stored.tasks)
  <2> SUFFICES ASSUME NEW u \in DOMAIN stored.tasks, stored.tasks[u].status = "Completed"
               PROVE  both.tasks[u].status = "Completed"
    BY <1>1 DEF KeepsCompleted
  <2>1. u \in DOMAIN merged /\ merged[u].status = "Completed"
    BY <1>2 DEF AreRespected, Respects, IsResult, Results
  <2> QED BY <1>1, <1>5, <2>1, NobodysWork DEF IsResult, Results
<1>7. ASSUME NEW u \in carried, IsReleased(mine.tasks[u])
      PROVE  DependenciesCompleted(both.tasks, u)
  <2> SUFFICES ASSUME NEW d \in DependsOn[u]
               PROVE  d \in DOMAIN both.tasks /\ both.tasks[d].status = "Completed"
    BY DEF DependenciesCompleted
  <2>1. d \in DOMAIN mine.tasks /\ mine.tasks[d].status = "Completed"
    BY <1>3, <1>7 DEF InSequence, DependenciesCompleted
  <2>2. CASE mine.tasks[d].owner = w
    BY <1>1, <1>3, <2>1, <2>2
  <2>3. CASE mine.tasks[d].owner # w
    BY <1>6, <2>1, <2>3 DEF KeepsCompleted
  <2> QED BY <2>2, <2>3
<1>8. InSequence(both.tasks)
  <2>1. ASSUME NEW u \in DOMAIN both.tasks, IsReleased(both.tasks[u])
        PROVE  \/ u \in DOMAIN stored.tasks /\ IsReleased(stored.tasks[u])
               \/ DependenciesCompleted(both.tasks, u)
    BY <1>1, <1>7, <2>1
  <2> QED BY <1>6, <2>1, SequenceKept
<1>9. InSequence(merged)
  BY <1>1, <1>4, <1>8, SettlingInSequence
<1> QED BY <1>9 DEF merged

\* Whatever else a merged result holds is the stored task or the worker's own.
LEMMA MergeProcessedTaskHands ==
    ASSUME NEW stored, IsJob(stored), AreSound(stored.tasks), NEW mine, IsJob(mine), AreSound(mine.tasks),
           NEW w, NEW t, MergeProcessedTask(stored, mine, w, t).answer = "Merged"
    PROVE  LET merged == MergeProcessedTask(stored, mine, w, t).job.tasks
           IN /\ \A u \in DOMAIN merged : merged[u].owner # NoWorker =>
                    \/ u \in DOMAIN mine.tasks /\ mine.tasks[u].owner = w /\ merged[u].owner = w
                    \/ /\ u \in DOMAIN stored.tasks /\ merged[u].owner = stored.tasks[u].owner
                       /\ IsResult(merged[u]) => merged[u] = stored.tasks[u]
              /\ \A u \in DOMAIN stored.tasks : stored.tasks[u].owner = w =>
                    u \in DOMAIN merged /\ merged[u].owner = w
<1> DEFINE carried == CarriedOver(stored, mine, w)
           merged == MergeProcessedTask(stored, mine, w, t).job.tasks
<1>1. PICK both : /\ IsJob(both) /\ merged = TrySettleIteration(both).job.tasks
                  /\ DOMAIN both.tasks = DOMAIN stored.tasks \cup carried
                  /\ \A u \in carried : both.tasks[u] = mine.tasks[u]
                  /\ \A u \in DOMAIN stored.tasks \ carried : both.tasks[u] = stored.tasks[u]
  BY MergeProcessedTaskParts
<1>2. /\ carried \subseteq DOMAIN mine.tasks
      /\ \A u \in carried : mine.tasks[u].owner \in {NoWorker, w}
      /\ \A u \in carried \cap DOMAIN stored.tasks : mine.tasks[u].owner = w
  BY DEF CarriedOver
<1> HIDE DEF carried, merged
<1>3. AreSound(both.tasks)
  BY <1>1, <1>2 DEF AreSound
<1>4. IsWorkOf(NoWorker, merged, both.tasks) /\ AreSound(merged) /\ DOMAIN merged = DOMAIN both.tasks
  BY <1>1, <1>3, SettlingIsWork, TrySettleIterationType DEF Extends
<1>5. ASSUME NEW u \in DOMAIN merged, merged[u].owner # NoWorker
      PROVE  \/ u \in DOMAIN mine.tasks /\ mine.tasks[u].owner = w /\ merged[u].owner = w
             \/ /\ u \in DOMAIN stored.tasks /\ merged[u].owner = stored.tasks[u].owner
                /\ IsResult(merged[u]) => merged[u] = stored.tasks[u]
  <2>1. merged[u].owner = both.tasks[u].owner /\ (IsResult(merged[u]) => merged[u] = both.tasks[u])
    BY <1>4, <1>5, NobodysWork
  <2> QED BY <1>1, <1>2, <1>4, <1>5, <2>1
<1>6. ASSUME NEW u \in DOMAIN stored.tasks, stored.tasks[u].owner = w
      PROVE  u \in DOMAIN merged /\ merged[u].owner = w
  <2>1. u \in DOMAIN both.tasks /\ both.tasks[u].owner = w
    BY <1>1, <1>2, <1>6
  <2> QED BY <1>4, <2>1, NobodysWork
<1> QED BY <1>5, <1>6 DEF merged

\* u comes before t: whatever holds t and with every task its dependencies holds u.
ComesBefore(u, t) ==
    \A U \in SUBSET TaskIds : t \in U /\ (\A x \in U : DependsOn[x] \subseteq U) => u \in U

\* A job whose tasks come one after another.
IsPipeline == \A t, u \in TaskIds : t # u => ComesBefore(u, t) \/ ComesBefore(t, u)

\* Whatever comes before a task that waits for nothing is completed.
LEMMA EarlierIsCompleted ==
    ASSUME NEW tasks, DOMAIN tasks \subseteq TaskIds, InSequence(tasks), NEW t \in DOMAIN tasks,
           IsReleased(tasks[t]), NEW u, u # t, ComesBefore(u, t)
    PROVE  u \in DOMAIN tasks /\ tasks[u].status = "Completed"
<1> DEFINE done == {x \in DOMAIN tasks : tasks[x].status = "Completed"}
           U == done \cup {t}
<1>1. U \in SUBSET TaskIds /\ t \in U
  OBVIOUS
<1>2. ASSUME NEW x \in U
      PROVE  DependsOn[x] \subseteq U
  <2>1. x \in DOMAIN tasks /\ IsReleased(tasks[x])
    BY DEF IsReleased, Released, Results
  <2> QED BY <2>1 DEF InSequence, DependenciesCompleted
<1>3. u \in U
  <2> HIDE DEF U
  <2> QED BY <1>1, <1>2 DEF ComesBefore
<1> QED BY <1>3

\* In a pipeline at most one task that waits for nothing is not completed.
LEMMA OneAtATime ==
    ASSUME IsPipeline, NEW tasks, DOMAIN tasks \subseteq TaskIds, InSequence(tasks),
           NEW t \in DOMAIN tasks, IsReleased(tasks[t]), tasks[t].status # "Completed",
           NEW u \in DOMAIN tasks, u # t, IsReleased(tasks[u])
    PROVE  tasks[u].status = "Completed"
<1>1. CASE ComesBefore(u, t)
  BY <1>1, EarlierIsCompleted
<1>2. CASE ComesBefore(t, u)
  <2>1. tasks[t].status = "Completed"
    BY <1>2, EarlierIsCompleted
  <2> QED BY <2>1
<1> QED BY <1>1, <1>2 DEF IsPipeline

-----------------------------------------------------------------------------
(* Tasks that are started once.  With one attempt a failure is final, and a deadline that is the   *)
(* end of the lifetime leaves nothing to take over.                                                *)

StartsOnce == MaxAttempts = 1 /\ Timeout = MaxLifetime

\* A task that waits has no lifetime yet, a started one has used its attempt and ends with it.
IsOnce(task) ==
    /\ task.status \in {"Todo", "Blocked"} => task.outlives = Unset
    /\ task.status \in {"Started", "Failed"} => task.attempt >= 1
    /\ task.status = "Started" => task.expires = task.outlives

AreOnce(tasks) == \A t \in DOMAIN tasks : IsOnce(tasks[t])

\* Only a task nobody has started yet is picked (check_availability_at).
LEMMA PickedOnce ==
    ASSUME StartsOnce, NEW task \in Task, IsOnce(task), Availability(task) = "Pickable"
    PROVE  task.status = "Todo"
<1>1. /\ task.status \in {"Todo", "Failed", "Started"}
      /\ task.status = "Failed" => ~IsTerminallyFailed(task)
  BY PickableStatus
<1>2. task.status = "Started" => IsExpired(task) /\ ~IsLifetimeExpired(task)
  BY DEF Availability
<1>3. task.status # "Started"
  BY <1>2 DEF IsOnce, IsExpired, IsLifetimeExpired
<1>4. task.status = "Failed" => IsTerminallyFailed(task)
  BY DEF IsOnce, StartsOnce, IsTerminallyFailed
<1> QED BY <1>1, <1>3, <1>4

\* A start gives it a deadline that is the end of its lifetime (Task::start).
LEMMA StartedOnce ==
    ASSUME StartsOnce, NEW task \in Task, IsOnce(task), task.status = "Todo", NEW w \in Workers
    PROVE  IsOnce(StartedTask(task, w))
<1> DEFINE next == StartedTask(task, w)
<1>1. task.outlives = Unset
  BY DEF IsOnce
<1>2. Unset # MaxLifetime + 1 /\ ~(Timeout + 1 < MaxLifetime + 1) /\ task.attempt + 1 >= 1
  BY LimitsAssumption DEF StartsOnce, Unset, Task
<1>3. next = [task EXCEPT !.status = "Started", !.owner = w, !.attempt = task.attempt + 1,
                          !.expires = MaxLifetime + 1, !.outlives = MaxLifetime + 1, !.pause = Unset]
  BY <1>1, <1>2 DEF StartedTask
<1> HIDE DEF next
<1>4. /\ next.status = "Started" /\ next.attempt = task.attempt + 1
      /\ next.expires = MaxLifetime + 1 /\ next.outlives = MaxLifetime + 1
  BY <1>3 DEF Task
<1>5. IsOnce(next)
  BY <1>2, <1>4 DEF IsOnce
<1> QED BY <1>5 DEF next

\* What the cascade ends needs neither.
LEMMA EndedOnce ==
    ASSUME NEW task \in Task, NEW next, NEW status \in PutOut, next = Ended(task, status)
    PROVE  IsOnce(next)
<1>1. next.status = status
  BY DEF Ended, Task
<1> QED BY <1>1 DEF IsOnce, PutOut

\* Settling starts nothing.
LEMMA SettlingOnce ==
    ASSUME NEW job, IsJob(job), AreOnce(job.tasks)
    PROVE  AreOnce(TrySettleIteration(job).job.tasks)
<1> DEFINE next == TrySettleIteration(job).job.tasks
<1>1. DOMAIN next = DOMAIN job.tasks
  BY TrySettleIterationType
<1>2. ASSUME NEW t \in DOMAIN job.tasks
      PROVE  IsOnce(next[t])
  <2>1. job.tasks[t] \in Task /\ IsOnce(job.tasks[t])
    BY DEF IsJob, AreOnce
  <2>2. \/ next[t] = job.tasks[t]
        \/ IsEndedByCascade(next, job.tasks, t) /\ next[t] = Ended(job.tasks[t], next[t].status)
        \/ IsUnblocked(next, job.tasks, t)
    BY SettlingEffect
  <2> HIDE DEF next
  <2>3. CASE IsEndedByCascade(next, job.tasks, t) /\ next[t] = Ended(job.tasks[t], next[t].status)
    BY <2>1, <2>3, EndedOnce DEF IsEndedByCascade
  <2>4. CASE IsUnblocked(next, job.tasks, t)
    <3>1. job.tasks[t].status = "Blocked" /\ next[t] = [job.tasks[t] EXCEPT !.status = "Todo"]
      BY <2>4 DEF IsUnblocked
    <3>2. next[t].status = "Todo" /\ next[t].outlives = job.tasks[t].outlives
      BY <2>1, <3>1 DEF Task
    <3> QED BY <2>1, <3>1, <3>2 DEF IsOnce
  <2> QED BY <2>1, <2>2, <2>3, <2>4
<1> HIDE DEF next
<1>3. AreOnce(next)
  BY <1>1, <1>2 DEF AreOnce
<1> QED BY <1>3 DEF next

\* Neither does the lifetime.
LEMMA LifetimeOnce ==
    ASSUME NEW tasks, IsTaskMap(tasks), AreOnce(tasks)
    PROVE  AreOnce(FailTasksByLifetime(tasks))
<1> DEFINE next == FailTasksByLifetime(tasks)
<1>1. DOMAIN next = DOMAIN tasks
  BY FailTasksByLifetimeType
<1>2. ASSUME NEW t \in DOMAIN tasks
      PROVE  IsOnce(next[t])
  <2>1. tasks[t] \in Task /\ IsOnce(tasks[t])
    BY DEF IsTaskMap, AreOnce
  <2>2. \/ next[t] = tasks[t]
        \/ tasks[t].status = "Started" /\ next[t] = FailedTask(tasks[t], "WhileBudgetLasts")
    BY LifetimeEffect
  <2> HIDE DEF next
  <2>3. CASE tasks[t].status = "Started" /\ next[t] = FailedTask(tasks[t], "WhileBudgetLasts")
    <3>1. next[t].status = "Failed" /\ next[t].attempt = tasks[t].attempt
      BY <2>1, <2>3 DEF FailedTask, Task
    <3> QED BY <2>1, <2>3, <3>1 DEF IsOnce
  <2> QED BY <2>1, <2>2, <2>3
<1> HIDE DEF next
<1>3. AreOnce(next)
  BY <1>1, <1>2 DEF AreOnce
<1> QED BY <1>3 DEF next

\* Nor the cascade.
LEMMA CascadeOnce ==
    ASSUME NEW tasks, IsTaskMap(tasks), AreOnce(tasks)
    PROVE  AreOnce(SkipUnreachableTasks(tasks))
<1> DEFINE next == SkipUnreachableTasks(tasks)
<1>1. DOMAIN next = DOMAIN tasks
  BY SkipUnreachableTasksType
<1>2. ASSUME NEW t \in DOMAIN tasks
      PROVE  IsOnce(next[t])
  <2>1. tasks[t] \in Task /\ IsOnce(tasks[t])
    BY DEF IsTaskMap, AreOnce
  <2>2. \/ next[t] = tasks[t]
        \/ IsEndedByCascade(next, tasks, t) /\ next[t] = Ended(tasks[t], next[t].status)
    BY CascadeEffect
  <2> HIDE DEF next
  <2> QED BY <2>1, <2>2, EndedOnce DEF IsEndedByCascade
<1> HIDE DEF next
<1>3. AreOnce(next)
  BY <1>1, <1>2 DEF AreOnce
<1> QED BY <1>3 DEF next

\* A pick offers only what nobody has started, and its start is the first.
LEMMA PickupOnce ==
    ASSUME StartsOnce, NEW job, IsJob(job), AreOnce(job.tasks), NEW pickup \in Pickups(job),
           pickup.kind \in {"Ready", "IterationSettled"}, NEW w \in Workers
    PROVE  /\ AreOnce(pickup.job.tasks)
           /\ pickup.kind = "Ready" =>
                /\ pickup.task \in DOMAIN pickup.job.tasks
                /\ pickup.job.tasks[pickup.task].status = "Todo"
                /\ AreOnce(StartTask(pickup.job, pickup.task, w).tasks)
<1>1. PICK running : /\ IsJob(running) /\ running.tasks = FailTasksByLifetime(job.tasks)
                     /\ pickup.job \in {running, TrySettleIteration(running).job}
                     /\ pickup.kind = "Ready" =>
                            /\ pickup.task \in DOMAIN pickup.job.tasks
                            /\ Availability(pickup.job.tasks[pickup.task]) = "Pickable"
  BY PickupTasks
<1>2. AreOnce(running.tasks)
  BY <1>1, LifetimeOnce DEF IsJob, IsTaskMap
<1>3. AreOnce(pickup.job.tasks)
  BY <1>1, <1>2, SettlingOnce
<1>4. IsJob(pickup.job)
  BY PickupsType DEF Extends
<1>5. ASSUME pickup.kind = "Ready"
      PROVE  /\ pickup.job.tasks[pickup.task].status = "Todo"
             /\ AreOnce(StartTask(pickup.job, pickup.task, w).tasks)
  <2> DEFINE P == pickup.job.tasks
             t == pickup.task
             N == StartTask(pickup.job, t, w).tasks
  <2>1. t \in DOMAIN P /\ P[t] \in Task /\ IsOnce(P[t]) /\ Availability(P[t]) = "Pickable"
    BY <1>1, <1>3, <1>4, <1>5 DEF AreOnce, IsJob
  <2>2. P[t].status = "Todo"
    BY <2>1, PickedOnce
  <2>3. IsOnce(StartedTask(P[t], w))
    BY <2>1, <2>2, StartedOnce
  <2>4. N = [P EXCEPT ![t] = StartedTask(P[t], w)]
    BY <1>4 DEF StartTask, IsJob
  <2> HIDE DEF N, P, t
  <2>5. DOMAIN N = DOMAIN P /\ N[t] = StartedTask(P[t], w) /\ \A u \in DOMAIN P \ {t} : N[u] = P[u]
    BY <2>1, <2>4
  <2>6. AreOnce(P)
    BY <1>3 DEF P
  <2>7. AreOnce(N)
    BY <2>3, <2>5, <2>6 DEF AreOnce
  <2> QED BY <2>2, <2>7 DEF N, P, t
<1> QED BY <1>1, <1>3, <1>5

\* Resolving uses no second attempt.
LEMMA ResolvingOnce ==
    ASSUME NEW w, NEW tasks, AreOnce(tasks), NEW next, NEW t, IsResolvedBy(w, next, tasks, t)
    PROVE  AreOnce(next)
<1>1. IsOnce(next[t])
  <2>1. /\ t \in DOMAIN tasks /\ tasks[t].status = "Started" /\ next[t].attempt = tasks[t].attempt
        /\ next[t].status \in {"Failed"} \cup Results
    BY DEF IsResolvedBy
  <2> QED BY <2>1 DEF AreOnce, IsOnce, Results
<1>2. \A u \in DOMAIN next : u # t => u \in DOMAIN tasks /\ next[u] = tasks[u]
  BY DEF IsResolvedBy
<1> QED BY <1>1, <1>2 DEF AreOnce

\* What is new was not started.
LEMMA NewOnce ==
    ASSUME NEW t, NEW w
    PROVE  IsOnce(NewTask(t, w))
BY DEF NewTask, IsOnce

\* Nor is any task of a new iteration.
LEMMA NewJobOnce ==
    ASSUME NEW w, NEW iter
    PROVE  AreOnce(NewJob(w, iter).tasks)
<1>1. NewJob(w, iter).tasks = [t \in InitialTasks |-> NewTask(t, w)]
  BY DEF NewJob
<1> QED BY <1>1, NewOnce DEF AreOnce

\* Time brings both deadlines closer alike.
LEMMA ElapseOnce ==
    ASSUME NEW job, IsJob(job), AreOnce(job.tasks)
    PROVE  AreOnce(Elapse(job).tasks)
<1> DEFINE next == Elapse(job).tasks
<1>1. DOMAIN next = DOMAIN job.tasks
  BY ElapseType DEF Extends
<1>2. ASSUME NEW t \in DOMAIN job.tasks
      PROVE  IsOnce(next[t])
  <2>1. /\ next[t].status = job.tasks[t].status /\ next[t].attempt = job.tasks[t].attempt
        /\ next[t].expires = Closer(job.tasks[t].expires) /\ next[t].outlives = Closer(job.tasks[t].outlives)
    BY ElapseEffect
  <2>2. IsOnce(job.tasks[t])
    BY DEF AreOnce
  <2>3. Closer(Unset) = Unset
    BY DEF Closer, Unset
  <2> HIDE DEF next
  <2> QED BY <2>1, <2>2, <2>3 DEF IsOnce
<1> HIDE DEF next
<1>3. AreOnce(next)
  BY <1>1, <1>2 DEF AreOnce
<1> QED BY <1>3 DEF next

\* The merge of a start leaves every stored task but the started one with its worker.
LEMMA MergePickedOnce ==
    ASSUME NEW stored, IsJob(stored), AreSound(stored.tasks), AreOnce(stored.tasks),
           NEW mine, IsJob(mine), AreOnce(mine.tasks),
           NEW w, NEW t, t \in DOMAIN mine.tasks, MergePickedTask(stored, mine, w, t).answer = "Merged"
    PROVE  LET merged == MergePickedTask(stored, mine, w, t).job.tasks
           IN /\ AreOnce(merged) /\ DOMAIN merged = DOMAIN stored.tasks /\ merged[t] = mine.tasks[t]
              /\ t \in DOMAIN stored.tasks /\ ~OwnedByOther(stored.tasks[t], w)
              /\ \A u \in DOMAIN stored.tasks \ {t} : merged[u].owner = stored.tasks[u].owner
<1> DEFINE failed == FailTasksByLifetime(stored.tasks)
           kept == SkipUnreachableTasks(failed)
           merged == MergePickedTask(stored, mine, w, t).job.tasks
<1>1. /\ merged = WithTask(kept, t, mine.tasks[t])
      /\ t \in DOMAIN stored.tasks /\ ~OwnedByOther(stored.tasks[t], w)
  BY MergePickedTaskParts
<1>2. /\ IsWorkOf(NoWorker, failed, stored.tasks) /\ AreSound(failed) /\ AreOnce(failed)
      /\ IsTaskMap(failed) /\ DOMAIN failed = DOMAIN stored.tasks
  <2>1. IsTaskMap(stored.tasks)
    BY DEF IsJob, IsTaskMap
  <2> QED BY <2>1, LifetimeIsWork, LifetimeOnce, FailTasksByLifetimeType
<1> HIDE DEF failed
<1>3. IsWorkOf(NoWorker, kept, failed) /\ AreOnce(kept) /\ DOMAIN kept = DOMAIN failed
  BY <1>2, CascadeIsWork, CascadeOnce, SkipUnreachableTasksType
<1> HIDE DEF kept, merged
<1>4. /\ DOMAIN merged = DOMAIN stored.tasks /\ merged[t] = mine.tasks[t]
      /\ \A u \in DOMAIN stored.tasks : u # t => merged[u] = kept[u]
  BY <1>1, <1>2, <1>3 DEF WithTask
<1>5. \A u \in DOMAIN stored.tasks : kept[u].owner = stored.tasks[u].owner
  BY <1>2, <1>3, NobodysWork
<1>6. AreOnce(merged)
  BY <1>2, <1>3, <1>4 DEF AreOnce
<1> QED BY <1>1, <1>4, <1>5, <1>6 DEF merged

\* The merge of a result leaves all with theirs, if what is carried over was stored for its worker.
LEMMA MergeProcessedOnce ==
    ASSUME NEW stored, IsJob(stored), AreSound(stored.tasks), AreOnce(stored.tasks),
           NEW mine, IsJob(mine), AreSound(mine.tasks), AreOnce(mine.tasks),
           NEW w, NEW t, MergeProcessedTask(stored, mine, w, t).answer = "Merged",
           \A u \in DOMAIN mine.tasks : mine.tasks[u].owner = w =>
                u \in DOMAIN stored.tasks /\ stored.tasks[u].owner = w
    PROVE  LET merged == MergeProcessedTask(stored, mine, w, t).job.tasks
           IN /\ AreOnce(merged) /\ DOMAIN stored.tasks \subseteq DOMAIN merged
              /\ \A u \in DOMAIN stored.tasks : merged[u].owner = stored.tasks[u].owner
<1> DEFINE carried == CarriedOver(stored, mine, w)
           merged == MergeProcessedTask(stored, mine, w, t).job.tasks
<1>1. PICK both : /\ IsJob(both) /\ merged = TrySettleIteration(both).job.tasks
                  /\ DOMAIN both.tasks = DOMAIN stored.tasks \cup carried
                  /\ \A u \in carried : both.tasks[u] = mine.tasks[u]
                  /\ \A u \in DOMAIN stored.tasks \ carried : both.tasks[u] = stored.tasks[u]
  BY MergeProcessedTaskParts
<1>2. /\ carried \subseteq DOMAIN mine.tasks
      /\ \A u \in carried \cap DOMAIN stored.tasks : mine.tasks[u].owner = w
  BY DEF CarriedOver
<1> HIDE DEF carried, merged
<1>3. AreSound(both.tasks) /\ AreOnce(both.tasks)
  BY <1>1, <1>2 DEF AreSound, AreOnce
<1>4. /\ IsWorkOf(NoWorker, merged, both.tasks) /\ AreOnce(merged) /\ DOMAIN merged = DOMAIN both.tasks
  BY <1>1, <1>3, SettlingIsWork, SettlingOnce, TrySettleIterationType DEF Extends
<1>5. ASSUME NEW u \in DOMAIN stored.tasks
      PROVE  u \in DOMAIN merged /\ merged[u].owner = stored.tasks[u].owner
  <2>1. u \in DOMAIN both.tasks /\ both.tasks[u].owner = stored.tasks[u].owner
    BY <1>1, <1>2
  <2> QED BY <1>4, <2>1, NobodysWork
<1> QED BY <1>4, <1>5 DEF merged

=============================================================================
