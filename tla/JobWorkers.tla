----------------------------- MODULE JobWorkers -----------------------------
(***************************************************************************)
(* Workers (src/src/execution/worker.rs) that share one job through an     *)
(* object store and nothing else: an iteration is one object, every write  *)
(* of it is conditional, and a refused write is merged into what is stored *)
(* and repeated.  A step ends where the code awaits the store or the       *)
(* executor, so another worker may act between any two of them.            *)
(*                                                                         *)
(* A version (an ETag) is only ever compared for equality with the stored  *)
(* one, so a copy carries the outcome of that comparison: "New" was never  *)
(* stored, "Current" is what the store holds, "Stale" is not any more.     *)
(*                                                                         *)
(* Faults counts down what the environment may still do to the workers: a  *)
(* write that is refused by an error, a write whose answer is lost, a      *)
(* worker that dies.  A dead worker does not come back: a restarted        *)
(* process draws fresh worker identifiers.  Every worker is a process of   *)
(* its own; workers of one pool differ in sharing what they report.        *)
(***************************************************************************)
EXTENDS JobState

CONSTANTS
    Outcomes,           \* what an executor may return in this instance
    HandleCalls,        \* what an executor may do through its job handle in this instance
    Planners,           \* the tasks whose executors add tasks in this instance
    StartDelays,        \* arguments of set_next_start_at in this instance, in ticks
    FaultKinds,         \* what may go wrong in this instance
    MaxFaults           \* bound: how often it may in one behaviour

AllOutcomes == {"Completed", "TerminallyFailed", "SkippedBranch", "Deferred", "Cancelled", "Error"}
AllHandleCalls == {"add_task", "complete_task", "fail_task", "skip_task_branch", "set_next_start_at"}
AllFaultKinds == {"answer_lost", "given_up", "crash"}

ASSUME InputsAssumption ==
    /\ Outcomes \subseteq AllOutcomes /\ HandleCalls \subseteq AllHandleCalls
    /\ Planners \subseteq TaskIds /\ StartDelays \subseteq Nat
    /\ FaultKinds \subseteq AllFaultKinds /\ MaxFaults \in Nat

VARIABLES
    objects,    \* the store: the object of every iteration, Nothing where there is none
    pc,         \* where each worker stands
    mine,       \* the copy of the job each worker holds, Nothing for none
    version,    \* what the version of that copy is to the store
    task,       \* the task each worker starts, executes or saves
    created,    \* the tasks its running execution added (created_by_task)
    finished,   \* the highest iteration each worker reported to its FinishedIterationSink
    faults      \* faults the environment may still cause

vars == <<objects, pc, mine, version, task, created, finished, faults>>

Nothing == [iter |-> 0]
NoTask == "NoTask"
Iterations == 1 .. MaxIterations

Saving == {"SaveNewJob", "SaveNewIteration", "SaveSettled", "SaveStart", "SaveResult"}
Control == {"Idle", "Advance", "Pick", "Execute", "Dead"} \cup Saving

Exists(i) == objects[i] # Nothing
IsOpen(i) == Exists(i) /\ ~IsProcessed(objects[i])
IsClosed(i) == Exists(i) /\ IsProcessed(objects[i])
IsNewest(i) == Exists(i) /\ \A k \in Iterations : Exists(k) => k <= i

\* What storage.get_job may answer with: the newest iteration, or one that was the newest
\* when its key was found (or kept by the cache of cached.rs) and was closed since.
IsReadable(i) == IsNewest(i) \/ IsClosed(i)

TypeOK ==
    /\ DOMAIN objects = Iterations
    /\ \A i \in Iterations : Exists(i) => IsJob(objects[i]) /\ objects[i].iter = i
    /\ pc \in [Workers -> Control]
    /\ DOMAIN mine = Workers
    /\ \A w \in Workers : mine[w] # Nothing => IsJob(mine[w])
    /\ version \in [Workers -> {"New", "Current", "Stale"}]
    /\ task \in [Workers -> TaskIds \cup {NoTask}]
    /\ created \in [Workers -> SUBSET TaskIds]
    /\ finished \in [Workers -> 0 .. MaxIterations]
    /\ faults \in 0 .. MaxFaults

Init ==
    /\ objects = [i \in Iterations |-> Nothing]
    /\ pc = [w \in Workers |-> "Idle"]
    /\ mine = [w \in Workers |-> Nothing]
    /\ version = [w \in Workers |-> "New"]
    /\ task = [w \in Workers |-> NoTask]
    /\ created = [w \in Workers |-> {}]
    /\ finished = [w \in Workers |-> 0]
    /\ faults = MaxFaults

-----------------------------------------------------------------------------
(* Steps of a worker's own memory *)

\* The worker goes on at place with this copy of the job.  A copy out of the store names no
\* created tasks: StoredTask keeps no created_by_task.
Hold(w, place, job, v, t) ==
    /\ pc' = [pc EXCEPT ![w] = place]
    /\ mine' = [mine EXCEPT ![w] = job]
    /\ version' = [version EXCEPT ![w] = v]
    /\ task' = [task EXCEPT ![w] = t]
    /\ created' = [created EXCEPT ![w] = {}]

\* The worker ends what it was doing and keeps nothing of it.
Rest(w) == Hold(w, "Idle", Nothing, "New", NoTask)

\* Fault: an iteration that is still open is reported too.
ReportAny(w, job) ==
    finished' = [finished EXCEPT ![w] = IF job.iter > @ THEN job.iter ELSE @]

\* Fault: an iteration that failed is not reported.
ReportCompleted(w, job) ==
    finished' = [finished EXCEPT ![w] = IF job.status = "Completed" /\ job.iter > @ THEN job.iter ELSE @]

\* report_finished_iteration for a job that is closed: the highest number wins.
ReportFinished(w, job) ==
    finished' = [finished EXCEPT ![w] = IF IsProcessed(job) /\ job.iter > @ THEN job.iter ELSE @]

-----------------------------------------------------------------------------
(* start_task *)

\* storage.get_job found an iteration.
GetJob(w) ==
    /\ pc[w] = "Idle"
    /\ \E i \in Iterations :
        /\ IsReadable(i)
        /\ Hold(w, "Advance", objects[i], "Current", NoTask)
    /\ UNCHANGED <<objects, finished, faults>>

\* storage.get_job found nothing, so create_new_job plans the first iteration.
CreateNewJob(w) ==
    /\ pc[w] = "Idle"
    /\ \A i \in Iterations : ~Exists(i)
    /\ Hold(w, "SaveNewJob", NewJob(w, 1), "New", NoTask)
    /\ UNCHANGED <<objects, finished, faults>>

\* start_task_in_iteration up to its write, on an iteration that is open.
PickTask(w) ==
    \E pickup \in Pickups(mine[w]) :
        \/ /\ pickup.kind = "Ready"
           /\ Hold(w, "SaveStart", StartTask(pickup.job, pickup.task, w), version[w], pickup.task)
        \/ /\ pickup.kind = "IterationSettled"
           /\ Hold(w, "SaveSettled", pickup.job, version[w], NoTask)
        \/ /\ pickup.kind \in {"Waiting", "Deadlock"}
           /\ Rest(w)

\* advance_job_iteration: an iteration somebody closed is reported first, then the next one
\* is planned if it is due; an open one goes straight on to the pick.
AdvanceJobIteration(w) ==
    /\ pc[w] = "Advance"
    /\ ReportFinished(w, mine[w])
    /\ LET status == IterationStatus(mine[w])
       IN \/ status = "InProgress" /\ PickTask(w)
          \/ /\ status = "Ready"
             /\ Hold(w, "SaveNewIteration", NewJob(w, mine[w].iter + 1), "New", NoTask)
          \/ status \in {"DueAt", "BudgetSpent"} /\ Rest(w)
    /\ UNCHANGED <<objects, faults>>

\* The rest of start_task once start_new_job_iteration came back, possibly with the state
\* another worker saved.
PickInNewIteration(w) ==
    /\ pc[w] = "Pick"
    /\ IF IsProcessed(mine[w]) THEN Rest(w) ELSE PickTask(w)
    /\ UNCHANGED <<objects, finished, faults>>

-----------------------------------------------------------------------------
(* save_job_state *)

\* The condition of the write: CreateOnly for an iteration never stored, MatchVersion else.
IsSaveAllowed(w) ==
    \/ version[w] = "New" /\ ~Exists(mine[w].iter)
    \/ version[w] = "Current"

\* The write itself: no other copy of this iteration matches the store any more.
Store(w) == objects' = [objects EXCEPT ![mine[w].iter] = mine[w]]
OthersStale(w) ==
    [v \in Workers |-> IF v # w /\ version[v] = "Current" /\ mine[v].iter = mine[w].iter
                       THEN "Stale" ELSE version[v]]

\* Where a worker stands once its write is acknowledged: create_new_job and
\* start_new_job_iteration go on with the job they saved, a written start is executed, and
\* a written result or a settled iteration ends the pass.
AfterSave(w) ==
    CASE pc[w] = "SaveNewJob" -> "Advance"
      [] pc[w] = "SaveNewIteration" -> "Pick"
      [] pc[w] = "SaveStart" -> "Execute"
      [] OTHER -> "Idle"

SaveAcknowledged(w) ==
    /\ pc[w] \in Saving /\ IsSaveAllowed(w)
    /\ Store(w)
    /\ pc' = [pc EXCEPT ![w] = AfterSave(w)]
    /\ mine' = [mine EXCEPT ![w] = IF AfterSave(w) = "Idle" THEN Nothing ELSE @]
    /\ version' = [OthersStale(w) EXCEPT ![w] = IF AfterSave(w) = "Idle" THEN "New" ELSE "Current"]
    /\ task' = [task EXCEPT ![w] = IF AfterSave(w) = "Idle" THEN NoTask ELSE @]
    /\ created' = [created EXCEPT ![w] = {}]
    /\ IF pc[w] \in {"SaveResult", "SaveSettled"}
       THEN ReportFinished(w, mine[w]) ELSE UNCHANGED finished
    /\ UNCHANGED faults

\* The write was refused for its condition: the stored job is read again and the handler of
\* the call decides.  A start and a result are merged and the write repeated; an answer
\* that rules the merge out drops what the worker holds.
SaveRefused(w) ==
    /\ pc[w] \in Saving /\ ~IsSaveAllowed(w)
    /\ \E i \in Iterations :
        /\ IsReadable(i)
        /\ LET merge == IF pc[w] = "SaveStart"
                        THEN MergePickedTask(objects[i], mine[w], w, task[w])
                        ELSE MergeProcessedTask(objects[i], mine[w], w, task[w])
           IN \/ /\ pc[w] = "SaveNewJob"
                 /\ Hold(w, "Advance", objects[i], "Current", NoTask)
              \/ /\ pc[w] = "SaveNewIteration"
                 /\ Hold(w, "Pick", objects[i], "Current", NoTask)
              \/ /\ pc[w] = "SaveSettled"
                 /\ Rest(w)
              \/ /\ pc[w] \in {"SaveStart", "SaveResult"} /\ merge.answer = "Merged"
                 /\ mine' = [mine EXCEPT ![w] = merge.job]
                 /\ version' = [version EXCEPT ![w] = "Current"]
                 /\ UNCHANGED <<pc, task, created>>
              \/ /\ pc[w] \in {"SaveStart", "SaveResult"} /\ merge.answer # "Merged"
                 /\ Rest(w)
    /\ UNCHANGED <<objects, finished, faults>>

Happens(kind) == kind \in FaultKinds /\ faults > 0 /\ faults' = faults - 1

\* The write was applied but its answer was lost on the way: the backend repeats it and is
\* refused by the worker's own write.
SaveAnswerLost(w) ==
    /\ Happens("answer_lost")
    /\ pc[w] \in Saving /\ IsSaveAllowed(w)
    /\ Store(w)
    /\ version' = [OthersStale(w) EXCEPT ![w] = "Stale"]
    /\ UNCHANGED <<pc, mine, task, created, finished>>

\* The call ended with an error, whether the write was applied or not, or the retrier ran
\* out of attempts.
SaveGivenUp(w) ==
    /\ Happens("given_up")
    /\ pc[w] \in Saving
    /\ pc' = [pc EXCEPT ![w] = "Idle"]
    /\ mine' = [mine EXCEPT ![w] = Nothing]
    /\ task' = [task EXCEPT ![w] = NoTask]
    /\ created' = [created EXCEPT ![w] = {}]
    /\ \/ /\ IsSaveAllowed(w) /\ Store(w)
          /\ version' = [OthersStale(w) EXCEPT ![w] = "New"]
       \/ /\ UNCHANGED objects
          /\ version' = [version EXCEPT ![w] = "New"]
    /\ UNCHANGED finished

\* The process of the worker dies; the tasks it started stay started in the store.
Crash(w) ==
    /\ Happens("crash")
    /\ pc[w] # "Dead" /\ \E v \in Workers \ {w} : pc[v] # "Dead"
    /\ Hold(w, "Dead", Nothing, "New", NoTask)
    /\ UNCHANGED <<objects, finished>>

-----------------------------------------------------------------------------
(* execute_task *)

\* The executor calls its handle while it runs.  The handle names the execution's own task,
\* except for complete_task and fail_task, which take the id of any task.
Change(w, job) ==
    /\ mine' = [mine EXCEPT ![w] = job]
    /\ UNCHANGED <<objects, pc, version, task, finished, faults>>

\* A task id nobody holds in this iteration.
IsFresh(t, iter) ==
    \A job \in {objects[iter]} \cup {mine[v] : v \in Workers} :
        job.iter = iter => t \notin DOMAIN job.tasks

AddTask(w) ==
    /\ pc[w] = "Execute" /\ "add_task" \in HandleCalls /\ task[w] \in Planners
    /\ mine[w].tasks[task[w]].status # "Failed"
    /\ \E t \in TaskIds \ InitialTasks :
        /\ IsFresh(t, mine[w].iter)
        /\ DependsOn[t] \subseteq DOMAIN mine[w].tasks
        /\ Change(w, [mine[w] EXCEPT !.tasks = WithTask(@, t, NewTask(t, w))])
        /\ created' = [created EXCEPT ![w] = @ \cup {t}]

CompleteTask(w) ==
    /\ pc[w] = "Execute" /\ "complete_task" \in HandleCalls
    /\ \E t \in DOMAIN mine[w].tasks :
        /\ ~OwnedByOther(mine[w].tasks[t], w) /\ CanComplete(mine[w].tasks[t])
        /\ Change(w, [mine[w] EXCEPT !.tasks[t] = Ended(@, "Completed")])
    /\ UNCHANGED created

FailTaskByHandle(w) ==
    /\ pc[w] = "Execute" /\ "fail_task" \in HandleCalls
    /\ \E t \in DOMAIN mine[w].tasks, retry \in {"WhileBudgetLasts", "Never"} :
        LET rolledBack == IF t = task[w] THEN created[w] ELSE {}
        IN /\ ~OwnedByOther(mine[w].tasks[t], w) /\ CanFail(mine[w].tasks[t])
           /\ Change(w, FailTask(mine[w], t, retry, rolledBack))
           /\ created' = [created EXCEPT ![w] = @ \ rolledBack]

SkipTaskBranch(w) ==
    /\ pc[w] = "Execute" /\ "skip_task_branch" \in HandleCalls
    /\ CanSkip(mine[w].tasks[task[w]])
    /\ Change(w, [mine[w] EXCEPT !.tasks[task[w]] = Ended(@, "SkippedByExecutor")])
    /\ UNCHANGED created

SetNextStartAt(w) ==
    /\ pc[w] = "Execute" /\ "set_next_start_at" \in HandleCalls
    /\ \E delay \in StartDelays : Change(w, [mine[w] EXCEPT !.next = delay])
    /\ UNCHANGED created

\* apply_executor_outcome: a resolution the domain refuses, an error, a panic and a
\* Cancelled nobody asked for are a failure worth repeating, unless the executor resolved
\* the task itself.
AppliedOutcome(w, outcome) ==
    LET job == mine[w]
        t == task[w]
        own == job.tasks[t]
        End(status) == [job EXCEPT !.tasks[t] = Ended(@, status)]
    IN CASE outcome = "Completed" /\ CanComplete(own) -> End("Completed")
         [] outcome = "SkippedBranch" /\ CanSkip(own) -> End("SkippedByExecutor")
         [] outcome = "TerminallyFailed" /\ CanFail(own) -> FailTask(job, t, "Never", created[w])
         [] OTHER -> IF IsResolved(own) THEN job
                     ELSE FailTask(job, t, "WhileBudgetLasts", created[w])

\* The executor returned: its outcome is applied to the worker's copy, the iteration is
\* closed there if that settles it, and the write of save_task follows.
ExecutorReturns(w) ==
    /\ pc[w] = "Execute"
    /\ \E outcome \in Outcomes :
        LET applied == AppliedOutcome(w, outcome)
        IN /\ mine' = [mine EXCEPT ![w] = TrySettleIteration(applied).job]
           /\ created' = [created EXCEPT ![w] = @ \cap DOMAIN applied.tasks]
    /\ pc' = [pc EXCEPT ![w] = "SaveResult"]
    /\ UNCHANGED <<objects, version, task, finished, faults>>

\* The deadline cancelled the execution and the executor obeyed: nothing is saved, and the
\* task stays started until another worker takes it over.
ReleasedByDeadline(w) ==
    /\ pc[w] = "Execute" /\ "Cancelled" \in Outcomes
    /\ mine[w].tasks[task[w]].expires <= 1
    /\ Rest(w)
    /\ UNCHANGED <<objects, finished, faults>>

-----------------------------------------------------------------------------
\* Time passes for the store and for every copy alike.
Tick ==
    /\ \E job \in {objects[i] : i \in Iterations} \cup {mine[w] : w \in Workers} :
            job # Nothing /\ Elapse(job) # job
    /\ objects' = [i \in Iterations |-> IF Exists(i) THEN Elapse(objects[i]) ELSE Nothing]
    /\ mine' = [w \in Workers |-> IF mine[w] # Nothing THEN Elapse(mine[w]) ELSE Nothing]
    /\ UNCHANGED <<pc, version, task, created, finished, faults>>

Step(w) ==
    \/ GetJob(w) \/ CreateNewJob(w) \/ AdvanceJobIteration(w) \/ PickInNewIteration(w)
    \/ SaveAcknowledged(w) \/ SaveRefused(w)
    \/ ExecutorReturns(w)

Handle(w) ==
    AddTask(w) \/ CompleteTask(w) \/ FailTaskByHandle(w) \/ SkipTaskBranch(w) \/ SetNextStartAt(w)

Fault(w) == SaveAnswerLost(w) \/ SaveGivenUp(w) \/ Crash(w)

Next ==
    \/ \E w \in Workers : Step(w) \/ Handle(w) \/ ReleasedByDeadline(w) \/ Fault(w)
    \/ Tick

Spec == Init /\ [][Next]_vars

\* Worker w does something of its own: it goes on, or it merged a refused write.  A worker that
\* is alive always can, wherever it stands.
Moves(w) == pc'[w] # pc[w] \/ (version[w] = "Stale" /\ version'[w] = "Current")

\* As long as its process lives and has not read that the iteration budget is spent, the pool of
\* a worker polls, every call of the store and every executor returns, and time passes.  The
\* first conjunct is the weak fairness of what Moves describes, written out with the states in
\* which nothing is owed.
Fairness ==
    /\ \A w \in Workers :
        \/ []<>(pc[w] = "Dead")
        \/ <>[](pc[w] = "Idle" /\ finished[w] = MaxIterations)
        \/ []<><<Moves(w)>>_vars
    /\ WF_vars(Tick)

FairSpec == Spec /\ Fairness

-----------------------------------------------------------------------------
(* Properties *)

\* Iterations are stored in order and without gaps, and one is stored only once its
\* predecessor is closed (start_new_job_iteration against lagging workers and lost answers):
\* however many workers race to open the next iteration, at most one iteration is open.
IterationsInOrder ==
    \A i \in Iterations : Exists(i) => \A k \in 1 .. i - 1 : IsClosed(k)

\* A closed iteration is never written again, whatever a worker that started work in it
\* brings back later (IterationAlreadySettled in merge_with_processed_task, the status
\* transition in merge_with_picked_task).  Only its timers go on.
ClosedIterationIsFinal ==
    [][\A i \in Iterations : IsClosed(i) => objects'[i] \in {objects[i], Elapse(objects[i])}]_objects

\* Whoever waits for an iteration is woken for one that is closed in the store, whichever
\* worker reports it and however old the copy it reports from (report_finished_iteration).
ReportedIterationIsClosed ==
    \A w \in Workers : finished[w] > 0 => IsClosed(finished[w])

\* A closed iteration holds no work: every task, including the ones other workers added
\* while the closing worker was busy, is resolved and not owed a retry (the verdict is
\* derived again on the merged state, job.rs:1319).
ClosedIterationHoldsNoWork ==
    \A i \in Iterations : IsClosed(i) =>
        \A t \in DOMAIN objects[i].tasks :
            /\ IsResolved(objects[i].tasks[t])
            /\ Availability(objects[i].tasks[t]) = "Unavailable"

\* No open iteration is ever stuck: a poll of what is stored never answers
\* IterationDeadlock, that is, the cascade and the unblocking always find every blocked task.
NoIterationDeadlock ==
    \A i \in Iterations : IsOpen(i) =>
        \A pickup \in Pickups(objects[i]) : pickup.kind # "Deadlock"

\* A result in the store stays: a task stored as completed or as skipped by its executor is
\* not executed again and is not overwritten by any copy read before.
ResultIsFinal ==
    [][\A i \in Iterations : Exists(i) =>
        \A t \in DOMAIN objects[i].tasks :
            objects[i].tasks[t].status \in {"Completed", "SkippedByExecutor"} =>
                /\ t \in DOMAIN objects'[i].tasks
                /\ objects'[i].tasks[t].status = objects[i].tasks[t].status]_objects

\* The merge of a result takes no task back: whatever else it carries over than the task that was
\* executed is stored for nobody or for the worker that merges (job.rs:1357: it "may only overwrite
\* what this worker changed since").  merge_with_processed_task asks check_task_stolen of the
\* executed task only.
MergesTakeNothingBack ==
    \A w \in Workers : pc[w] = "SaveResult" =>
        LET stored == objects[mine[w].iter]
        IN \A t \in (DOMAIN stored.tasks \cap CarriedOver(stored, mine[w], w)) \ {task[w]} :
                ~OwnedByOther(stored.tasks[t], w)

\* A task in the store stays in the store: neither a merge nor a rollback takes a task away
\* that some worker has already stored.
NoTaskVanishes ==
    [][\A i \in Iterations : Exists(i) =>
        DOMAIN objects[i].tasks \subseteq DOMAIN objects'[i].tasks]_objects

\* No two workers execute one task within its deadline: a task is handed over only once the
\* deadline its worker was given has passed.
OneExecutorWithinDeadline ==
    \A v, w \in Workers :
        /\ pc[v] = "Execute" /\ pc[w] = "Execute"
        /\ mine[v].iter = mine[w].iter /\ task[v] = task[w]
        /\ ~IsExpired(mine[v].tasks[task[v]]) /\ ~IsExpired(mine[w].tasks[task[w]])
        => v = w

\* No task runs ahead of its dependencies: when a worker executes a task, every dependency of
\* it is stored with a result the task declared it can start from.
DependenciesBeforeExecution ==
    \A w \in Workers : pc[w] = "Execute" =>
        LET stored == objects[mine[w].iter].tasks
        IN \A d \in DependsOn[task[w]] :
            /\ d \in DOMAIN stored
            /\ \/ stored[d].status = "Completed"
               \/ stored[d].status = "Failed" /\ task[w] \in AllowsFailed
               \/ stored[d].status \in Skipped /\ task[w] \in AllowsSkipped

\* The rollback of a failed execution leaves nothing behind: a task added at runtime is
\* stored only beside a planner that was completed or skipped by its executor.
AddedTaskHasPlanner ==
    \A i \in Iterations : Exists(i) /\ DOMAIN objects[i].tasks \ InitialTasks # {} =>
        \E t \in Planners \cap DOMAIN objects[i].tasks :
            objects[i].tasks[t].status \in {"Completed", "SkippedByExecutor"}

\* The plan of an execution is stored together with its result or not at all, through
\* however many merges the write goes (is_created_now in merge_with_processed_task).
PlanIsStoredWithResult ==
    [][\A w \in Workers :
        LET i == mine[w].iter
        IN (pc[w] = "SaveResult" /\ pc'[w] = "Idle" /\ objects'[i] # objects[i])
            => created[w] \subseteq DOMAIN objects'[i].tasks]_vars

\* The next iteration does not open before the moment an executor set, or else before the
\* iteration interval ran out, however stale the copy of the worker that opens it.
NextIterationIsDue ==
    [][\A i \in 1 .. MaxIterations - 1 :
        ~Exists(i + 1) /\ Exists(i + 1)' =>
            \/ objects[i].next = 0
            \/ objects[i].next = Unset /\ objects[i].due = 0]_objects

\* The verdict on a task that outlived its maximum lifetime stands: a result of an execution
\* of it that is still on its way does not replace the failure already stored for it.
LifetimeVerdictIsFinal ==
    [][\A i \in Iterations : Exists(i) =>
        \A t \in DOMAIN objects[i].tasks :
            LET stored == objects[i].tasks[t]
            IN stored.status = "Failed" /\ IsLifetimeExpired(stored) =>
                objects'[i].tasks[t].status \notin {"Completed", "SkippedByExecutor"}]_objects

\* Every iteration that was stored is closed in the end, whatever dies, hangs or is lost.
EveryIterationSettles == \A i \in Iterations : Exists(i) ~> IsClosed(i)

\* Whoever waits for an iteration learns that it finished, in every process that lives: also
\* when another one closed it, and when the worker that closed it never got the answer to its
\* write (report_finished_iteration on the next pickup).
EveryIterationIsReported ==
    \A i \in Iterations, w \in Workers : IsClosed(i) ~> finished[w] >= i \/ pc[w] = "Dead"

=============================================================================
