------------------------------ MODULE JobState ------------------------------
(***************************************************************************)
(* The state rules of one job: the task (src/src/core/task.rs) and the     *)
(* iteration that holds its tasks (src/src/core/job.rs), as pure operators *)
(* on records.  JobWorkers gives them to concurrent workers.               *)
(*                                                                         *)
(* A timestamp is only ever compared with the present, so it is kept as    *)
(* the number of clock ticks left until the comparison turns: Elapse takes *)
(* one tick off every copy of the job at once, and no clock variable has   *)
(* to be bounded.  Payloads, codes, reasons, metadata and the moments      *)
(* nothing compares (started_at of a task, running_at) are left out.       *)
(***************************************************************************)
EXTENDS Naturals, Integers, FiniteSets

CONSTANTS
    Workers,            \* worker identifiers
    NoWorker,           \* processing_by_worker = None
    TaskIds,            \* every task an iteration may come to hold
    InitialTasks,       \* the ones its definition plans, the others are added at runtime
    DependsOn,          \* [TaskIds -> SUBSET TaskIds]
    AllowsFailed,       \* the tasks whose tolerance survives a failed dependency
    AllowsSkipped,      \* the tasks whose tolerance survives a skipped dependency
    MaxAttempts,        \* attempt budget of a task
    Timeout,            \* timeout of a task, in ticks
    MaxLifetime,        \* maximum lifetime of a task, in ticks
    RetryPause,         \* FAILED_TASK_RETRY_PAUSE, in ticks
    MaxIterations,      \* iteration budget of the job
    IterationInterval   \* minimum ticks between the starts of two iterations

ASSUME WorkersAssumption == NoWorker \notin Workers
ASSUME TasksAssumption ==
    /\ InitialTasks \subseteq TaskIds /\ IsFiniteSet(TaskIds)
    /\ InitialTasks # {}
    /\ DependsOn \in [TaskIds -> SUBSET TaskIds]
    /\ \A t \in InitialTasks : DependsOn[t] \subseteq InitialTasks
    /\ AllowsFailed \subseteq TaskIds /\ AllowsSkipped \subseteq TaskIds
\* The definition was accepted by find_dependency_cycle: among any of its tasks is one that waits
\* on none of the others.
ASSUME OrderAssumption ==
    \A S \in SUBSET InitialTasks : S # {} => \E t \in S : DependsOn[t] \cap S = {}
ASSUME LimitsAssumption ==
    /\ MaxAttempts \in Nat \ {0} /\ MaxIterations \in Nat \ {0}
    /\ Timeout \in Nat /\ MaxLifetime \in Nat /\ Timeout <= MaxLifetime
    /\ RetryPause \in Nat /\ IterationInterval \in Nat

-----------------------------------------------------------------------------
(* Types *)

Skipped == {"SkippedByExecutor", "SkippedFailedDependency", "SkippedDependency"}
TaskStatus == {"Todo", "Blocked", "Started", "Completed", "Failed"} \cup Skipped
Verdicts == {"Completed", "Failed"}
JobStatus == {"Started", "Running"} \cup Verdicts

\* An unset moment.  A set one is the number of ticks left until it has come.
Unset == -1
Moment == Nat \cup {Unset}
Has_Come(moment) == moment = 0

\* A clock tick, as one moment sees it.
Closer(moment) == IF moment > 0 THEN moment - 1 ELSE moment

Task == [status   : TaskStatus,
         owner    : Workers \cup {NoWorker},   \* processing_by_worker
         creator  : Workers,                   \* created_by_worker
         attempt  : Nat,
         retry    : {"WhileBudgetLasts", "Never"},
         expires  : Moment,     \* ticks until now > deadline_at
         outlives : Moment,     \* ticks until now > lifetime_deadline_at
         pause    : Moment]     \* ticks until completed_at + FAILED_TASK_RETRY_PAUSE of a failed task

\* A job: its tasks are a map from the ids it holds (tasks_by_id); due is the ticks until
\* started_at + iteration_interval, next the ticks until next_start_at.
IsJob(job) ==
    /\ DOMAIN job = {"iter", "status", "tasks", "due", "next"}
    /\ job.iter \in 1 .. MaxIterations /\ job.status \in JobStatus
    /\ DOMAIN job.tasks \subseteq TaskIds
    /\ \A t \in DOMAIN job.tasks : job.tasks[t] \in Task
    /\ job.due \in Moment /\ job.next \in Moment

-----------------------------------------------------------------------------
(* Task *)

NewTask(t, w) ==
    [status   |-> IF DependsOn[t] = {} THEN "Todo" ELSE "Blocked",
     owner    |-> NoWorker,
     creator  |-> w,
     attempt  |-> 0,
     retry    |-> "WhileBudgetLasts",
     expires  |-> Unset,
     outlives |-> Unset,
     pause    |-> Unset]

IsExpired(task) == Has_Come(task.expires)
IsLifetimeExpired(task) == Has_Come(task.outlives)
IsResolved(task) == task.status \in {"Completed", "Failed"} \cup Skipped

IsTerminallyFailed(task) ==
    /\ task.status = "Failed"
    /\ \/ task.retry = "Never"
       \/ task.attempt >= MaxAttempts
       \/ IsLifetimeExpired(task)

\* check_availability_at: what a worker may do with the task now.
Availability(task) ==
    CASE task.status = "Todo" -> "Pickable"
      [] task.status = "Failed" /\ ~IsTerminallyFailed(task) ->
            IF task.pause > 0 THEN "AwaitingRetry" ELSE "Pickable"
      [] task.status = "Started" /\ IsLifetimeExpired(task) -> "ExpiredPastLifetime"
      [] task.status = "Started" /\ ~IsLifetimeExpired(task) /\ IsExpired(task) -> "Pickable"
      [] OTHER -> "Unavailable"

\* Fault: a failure is final only by its attempts, the lifetime is forgotten.
JudgeDependencyByAttempts(t, dependency) ==
    CASE dependency.status = "Completed" -> "Unblocked"
      [] dependency.status = "Failed" /\ dependency.attempt >= MaxAttempts -> "SkippedFailedDependency"
      [] dependency.status \in Skipped -> dependency.status
      [] OTHER -> "Blocked"

\* judge_dependency: what the state of dependency makes of task t, which waits on it.
JudgeDependency(t, dependency) ==
    CASE dependency.status = "Completed" -> "Unblocked"
      [] IsTerminallyFailed(dependency) ->
            IF t \in AllowsFailed THEN "Unblocked" ELSE "SkippedFailedDependency"
      [] dependency.status \in Skipped ->
            IF t \in AllowsSkipped THEN "Unblocked"
            ELSE IF dependency.status = "SkippedFailedDependency"
                 THEN "SkippedFailedDependency" ELSE "SkippedDependency"
      [] OTHER -> "Blocked"

\* Fault: every start gives the task a new lifetime.
RestartedTask(task, w) ==
    [task EXCEPT !.status = "Started", !.owner = w, !.pause = Unset,
                 !.attempt  = IF task.status = "Started" THEN @ ELSE @ + 1,
                 !.expires  = Timeout + 1,
                 !.outlives = MaxLifetime + 1]

\* The lifetime counts from the first start; a takeover spends no attempt.  The
\* comparisons with both deadlines are strict, hence the extra tick.
StartedTask(task, w) ==
    LET outlives == IF task.outlives = Unset THEN MaxLifetime + 1 ELSE task.outlives
    IN [task EXCEPT !.status   = "Started",
                    !.owner    = w,
                    !.attempt  = IF task.status = "Started" THEN @ ELSE @ + 1,
                    !.expires  = IF Timeout + 1 < outlives THEN Timeout + 1 ELSE outlives,
                    !.outlives = outlives,
                    !.pause    = Unset]

CanComplete(task) == task.status = "Started" /\ ~IsLifetimeExpired(task)
CanSkip(task) == task.status = "Blocked" \/ CanComplete(task)
CanFail(task) == task.status = "Started"

\* complete and skip.  Nothing asks a completed or a skipped task about its lifetime, so it
\* is unset.
Ended(task, status) == [task EXCEPT !.status = status, !.outlives = Unset]
FailedTask(task, retry) ==
    [task EXCEPT !.status = "Failed", !.retry = retry, !.pause = RetryPause]

-----------------------------------------------------------------------------
(* Job *)

NewJob(w, iter) ==
    [iter   |-> iter,
     status |-> "Started",
     tasks  |-> [t \in InitialTasks |-> NewTask(t, w)],
     due    |-> IterationInterval,
     next   |-> Unset]

IsProcessed(job) == job.status \in Verdicts

\* Fault: one iteration more than the budget.
IterationStatusOverBudget(job) ==
    CASE ~IsProcessed(job) -> "InProgress"
      [] IsProcessed(job) /\ job.iter > MaxIterations -> "BudgetSpent"
      [] OTHER -> IF Has_Come(job.due) THEN "Ready" ELSE "DueAt"

\* Fault: the moment an executor set is forgotten.
IterationStatusByInterval(job) ==
    CASE ~IsProcessed(job) -> "InProgress"
      [] IsProcessed(job) /\ job.iter >= MaxIterations -> "BudgetSpent"
      [] OTHER -> IF Has_Come(job.due) THEN "Ready" ELSE "DueAt"

\* Fault: the schedule alone decides, not whether the iteration is closed.
IterationStatusBySchedule(job) ==
    IF job.iter >= MaxIterations THEN IF IsProcessed(job) THEN "BudgetSpent" ELSE "InProgress"
    ELSE IF Has_Come(job.due) THEN "Ready" ELSE "InProgress"

\* find_iteration_status
IterationStatus(job) ==
    CASE ~IsProcessed(job) -> "InProgress"
      [] IsProcessed(job) /\ job.iter >= MaxIterations -> "BudgetSpent"
      [] OTHER -> LET start == IF job.next # Unset THEN job.next ELSE job.due
                  IN IF Has_Come(start) THEN "Ready" ELSE "DueAt"

\* check_task_owner
OwnedByOther(task, w) == task.owner \notin {NoWorker, w}

\* insert into tasks_by_id
WithTask(tasks, t, task) ==
    [u \in DOMAIN tasks \cup {t} |-> IF u = t THEN task ELSE tasks[u]]

\* fail_tasks_by_lifetime: the owner stays.
FailTasksByLifetime(tasks) ==
    [t \in DOMAIN tasks |->
        IF Availability(tasks[t]) = "ExpiredPastLifetime"
        THEN FailedTask(tasks[t], "WhileBudgetLasts")
        ELSE tasks[t]]

\* find_unreachable_dependency_of: what the dependencies of t hand down to it.  A
\* dependency the iteration does not hold hands down nothing.
Causes(tasks, t) ==
    {JudgeDependency(t, tasks[d]) : d \in DependsOn[t] \cap DOMAIN tasks}
        \cap {"SkippedFailedDependency", "SkippedDependency"}

\* One generation of the cascade: a failure outranks a decision.
PutOutGeneration(tasks) ==
    [t \in DOMAIN tasks |->
        IF tasks[t].status = "Blocked" /\ Causes(tasks, t) # {}
        THEN Ended(tasks[t], IF "SkippedFailedDependency" \in Causes(tasks, t)
                             THEN "SkippedFailedDependency" ELSE "SkippedDependency")
        ELSE tasks[t]]

\* skip_unreachable_tasks: every generation puts out at least one task of a path of
\* dependencies, so as many generations as there are tasks reach the end.  Nothing but a
\* blocked task changes.
SkipUnreachableTasks(tasks) ==
    LET generation[n \in Nat] ==
            IF n = 0 THEN tasks ELSE PutOutGeneration(generation[n - 1])
        last == generation[Cardinality(DOMAIN tasks)]
    IN [t \in DOMAIN tasks |->
            IF tasks[t].status = "Blocked" /\ last[t].status \in Skipped
            THEN Ended(tasks[t], last[t].status)
            ELSE tasks[t]]

\* Fault: a failure that will be retried satisfies too.
DependenciesResolved(tasks, t) ==
    \A d \in DependsOn[t] : d \in DOMAIN tasks /\ IsResolved(tasks[d])

DependenciesSatisfied(tasks, t) ==
    \A d \in DependsOn[t] : d \in DOMAIN tasks /\ JudgeDependency(t, tasks[d]) = "Unblocked"

UnblockSatisfiedTasks(tasks) ==
    [t \in DOMAIN tasks |->
        IF tasks[t].status = "Blocked" /\ DependenciesSatisfied(tasks, t)
        THEN [tasks[t] EXCEPT !.status = "Todo"]
        ELSE tasks[t]]

AllTasksResolved(tasks) ==
    DOMAIN tasks # {} /\ \A t \in DOMAIN tasks : IsResolved(tasks[t])

\* derive_iteration_verdict: a failure is handled by a tolerant dependent that came to a
\* resolution of its own.
IterationVerdict(tasks) ==
    LET handlers == {t \in DOMAIN tasks \cap AllowsFailed :
                        tasks[t].status \in {"Completed", "SkippedByExecutor"}}
        unhandled == {t \in DOMAIN tasks : IsTerminallyFailed(tasks[t])}
                        \ UNION {DependsOn[h] : h \in handlers}
    IN IF \/ \E t \in DOMAIN tasks : tasks[t].status = "SkippedFailedDependency"
          \/ unhandled # {}
       THEN "Failed" ELSE "Completed"

\* try_settle_iteration: the state it leaves and what it answers.  "Deadlock" is
\* JobError::IterationDeadlock.
TrySettleIteration(job) ==
    LET tasks == UnblockSatisfiedTasks(SkipUnreachableTasks(job.tasks))
        moves == \E t \in DOMAIN tasks :
                    \/ tasks[t].status = "Started"
                    \/ Availability(tasks[t]) \in {"Pickable", "AwaitingRetry"}
        answer == IF moves THEN "Open"
                  ELSE IF ~AllTasksResolved(tasks) THEN "Deadlock" ELSE "Settled"
    IN [answer |-> answer,
        job    |-> [job EXCEPT !.tasks  = tasks,
                               !.status = IF answer = "Settled" THEN IterationVerdict(tasks) ELSE @]]

PickableTasks(tasks) == {t \in DOMAIN tasks : Availability(tasks[t]) = "Pickable"}

\* pick_task_to_execute: the pickups open to a worker.  The task is the first pickable
\* one of a hash map, so any of them.
Pickups(job) ==
    LET running == [job EXCEPT !.status = "Running", !.tasks = FailTasksByLifetime(@)]
        settling == TrySettleIteration(running)
        Ready(j) == {[kind |-> "Ready", job |-> j, task |-> t] : t \in PickableTasks(j.tasks)}
    IN CASE Ready(running) # {} -> Ready(running)
         [] Ready(running) = {} /\ settling.answer = "Settled" ->
                {[kind |-> "IterationSettled", job |-> settling.job]}
         [] Ready(running) = {} /\ settling.answer = "Deadlock" -> {[kind |-> "Deadlock"]}
         [] OTHER -> IF Ready(settling.job) # {} THEN Ready(settling.job) ELSE {[kind |-> "Waiting"]}

StartTask(job, t, w) == [job EXCEPT !.tasks[t] = StartedTask(@, w)]

\* Fault: no rollback of what the failed execution added.
FailTaskOnly(job, t, retry, created) == [job EXCEPT !.tasks[t] = FailedTask(@, retry)]

\* fail_task: created is what the execution of t added, which its failure rolls back.
FailTask(job, t, retry, created) ==
    [job EXCEPT !.tasks = [u \in DOMAIN @ \ created |->
                                IF u = t THEN FailedTask(@[t], retry) ELSE @[u]]]

\* Fault: the owner of the stored task is not compared.
TaskStolenByNobody(stored, mine, w, t) ==
    IF stored.iter # mine.iter \/ t \notin DOMAIN stored.tasks THEN "TaskNotFound" ELSE "No"

\* The first check of both merges.  Task ids are drawn afresh for every iteration, so an
\* iteration other than the worker's does not hold its task.
TaskStolen(stored, mine, w, t) ==
    CASE stored.iter # mine.iter \/ t \notin DOMAIN stored.tasks -> "TaskNotFound"
      [] stored.iter = mine.iter /\ t \in DOMAIN stored.tasks /\ OwnedByOther(stored.tasks[t], w)
            -> "TaskWorkerMismatch"
      [] OTHER -> "No"

\* Fault: the stored iteration may be closed already.
MergePickedTaskAnyway(stored, mine, w, t) ==
    IF TaskStolen(stored, mine, w, t) # "No" THEN [answer |-> "TaskNotFound"]
    ELSE [answer |-> "Merged",
          job    |-> [stored EXCEPT !.status = IF IsProcessed(stored) THEN @ ELSE mine.status,
                                    !.tasks  = WithTask(@, t, mine.tasks[t])]]

\* merge_with_picked_task: the start of t carried over onto the stored state.
MergePickedTask(stored, mine, w, t) ==
    LET stolen == TaskStolen(stored, mine, w, t)
    IN IF stolen # "No" THEN [answer |-> stolen]
       ELSE IF IsProcessed(stored) THEN [answer |-> "InvalidStatusTransition"]
       ELSE [answer |-> "Merged",
             job    |-> [stored EXCEPT
                            !.status = mine.status,
                            !.tasks  = WithTask(SkipUnreachableTasks(FailTasksByLifetime(@)),
                                                t, mine.tasks[t])]]

\* Fault: what the execution added is left behind.
CarriedOverProcessed(stored, mine, w) == {t \in DOMAIN mine.tasks : mine.tasks[t].owner = w}

\* Which tasks of the worker's copy overwrite the stored ones.
CarriedOver(stored, mine, w) ==
    {t \in DOMAIN mine.tasks :
        \/ /\ mine.tasks[t].creator = w
           /\ mine.tasks[t].owner = NoWorker
           /\ t \notin DOMAIN stored.tasks
        \/ mine.tasks[t].owner = w}

\* Fault: the worker's verdict is carried over and not judged again.
MergeProcessedTaskUnjudged(stored, mine, w, t) ==
    LET carried == CarriedOver(stored, mine, w)
    IN IF TaskStolen(stored, mine, w, t) # "No" THEN [answer |-> "TaskNotFound"]
       ELSE IF IsProcessed(stored) THEN [answer |-> "IterationAlreadySettled"]
       ELSE [answer |-> "Merged",
             job    |-> [mine EXCEPT !.tasks = [u \in DOMAIN stored.tasks \cup carried |->
                            IF u \in carried THEN mine.tasks[u] ELSE stored.tasks[u]]]]

\* Fault: a result is carried over onto a task another worker has taken over.
MergeProcessedTaskTakenOver(stored, mine, w, t) ==
    IF stored.iter # mine.iter THEN [answer |-> "TaskNotFound"]
    ELSE IF IsProcessed(stored) THEN [answer |-> "IterationAlreadySettled"]
    ELSE [answer |-> "Merged",
          job    |-> TrySettleIteration([stored EXCEPT !.status = "Running",
                                                       !.tasks = WithTask(@, t, mine.tasks[t])]).job]

\* Fault: the worker's tasks replace the stored ones as a whole.
MergeProcessedTaskAlone(stored, mine, w, t) ==
    IF TaskStolen(stored, mine, w, t) # "No" THEN [answer |-> "TaskNotFound"]
    ELSE IF IsProcessed(stored) THEN [answer |-> "IterationAlreadySettled"]
    ELSE [answer |-> "Merged",
          job    |-> TrySettleIteration([stored EXCEPT !.status = "Running", !.tasks = mine.tasks]).job]

\* merge_with_processed_task: the result of t carried over onto the stored state, and the
\* iteration judged again.  A deadlock leaves the merged state in place.
MergeProcessedTask(stored, mine, w, t) ==
    LET stolen == TaskStolen(stored, mine, w, t)
        carried == CarriedOver(stored, mine, w)
        merged == [stored EXCEPT
                    !.status = "Running",
                    !.tasks  = [u \in DOMAIN @ \cup carried |->
                                    IF u \in carried THEN mine.tasks[u] ELSE @[u]],
                    !.next   = IF mine.next # Unset THEN mine.next ELSE @]
    IN IF stolen # "No" THEN [answer |-> stolen]
       ELSE IF IsProcessed(stored) THEN [answer |-> "IterationAlreadySettled"]
       ELSE [answer |-> "Merged", job |-> TrySettleIteration(merged).job]

-----------------------------------------------------------------------------
\* One clock tick, as every copy of the job sees it.
ElapsedTask(task) ==
    [task EXCEPT !.expires = Closer(@), !.outlives = Closer(@), !.pause = Closer(@)]

Elapse(job) ==
    [job EXCEPT !.tasks = [t \in DOMAIN @ |-> ElapsedTask(@[t])],
                !.due   = Closer(@),
                !.next  = Closer(@)]

=============================================================================
