----------------------------- MODULE WorkerPool -----------------------------
(***************************************************************************)
(* The loop of one worker pool (src/src/execution/worker_pool.rs): it owns *)
(* the poll schedule, hands due jobs to free workers, launches what they   *)
(* started, and sleeps until the next poll or until one of them is done.   *)
(*                                                                         *)
(* What a worker does with a job is JobWorkers' matter; here it ends with  *)
(* any progress it may report (src/src/execution/outcome.rs).  A report    *)
(* waits for the loop to join it, and others may be joined before.         *)
(***************************************************************************)
EXTENDS PollScheduler

CONSTANTS
    Workers,    \* the workers of the pool
    NoJob       \* what a worker without one has

ASSUME PoolAssumption == NoJob \notin Jobs /\ Workers # {}

VARIABLES
    polls,      \* scheduler.jobs: the slot and the backoff step of every job
    queue,      \* scheduler.due_queue
    place,      \* where each worker is
    job,        \* the job it works on
    report,     \* the progress it ended with, until the loop joins it
    pool,       \* where the loop is
    wake,       \* what it sleeps for: ticks, or ForPoolEvent
    cancelled,  \* the cancel token
    told        \* history: what reports said of each job since it was claimed

vars == <<polls, queue, place, job, report, pool, wake, cancelled, told>>

ForPoolEvent == -1

\* An idle worker is in idle_workers, a starting one in task_starts and an executing one in
\* executions, both as long as they run; Started and Executed have ended there and wait to be
\* joined; ToExecute is in tasks_to_execute.
PlaceOf == {"Idle", "Starting", "Started", "NotStarted", "ToExecute", "Executing", "Executed"}
InFlight == {"Starting", "Started", "NotStarted", "Executing", "Executed"}
NoProgress == Progress("None")

\* from_task_start of a start that wrote the start of a task, and of any other.
StartedProgress == {Progress("TaskPickable"), Progress("NothingPickable")}
NotStartedProgress ==
    {Progress("IterationsEnded"), Progress("NothingPickable"), Progress("Stalled")}
        \cup ProgressAt("NextIterationDueAt") \cup ProgressAt("RetryDueAt")

\* from_job_execution
ExecutionProgress ==
    {Progress("IterationsEnded"), Progress("TaskPickable"), Progress("NothingPickable")}
        \cup ProgressAt("NextIterationDueAt")

IsProgress(progress) ==
    /\ DOMAIN progress = {"kind", "at"} /\ progress.at \in Nat
    /\ progress.kind \in {"None", "IterationsEnded", "NextIterationDueAt", "TaskPickable",
                          "RetryDueAt", "NothingPickable", "Stalled"}

TypeOK ==
    /\ DOMAIN polls = Jobs
    /\ \A j \in Jobs : /\ DOMAIN polls[j] = {"interval", "slot"} /\ IsSlot(polls[j].slot)
                       /\ polls[j].interval \in BaseInterval .. MaxInterval
    /\ queue \in Seq(Jobs)
    /\ place \in [Workers -> PlaceOf]
    /\ job \in [Workers -> Jobs \cup {NoJob}]
    /\ DOMAIN report = Workers /\ \A w \in Workers : IsProgress(report[w])
    /\ pool \in {"Looking", "Claiming", "Waiting", "Draining", "Stopped"}
    /\ wake \in Nat \cup {ForPoolEvent}
    /\ cancelled \in BOOLEAN
    /\ told \in [Jobs -> {"Nothing", "Work", "End"}]

\* PollScheduler::new and WorkerPool::new: every job is due at once.
Init ==
    /\ polls = [j \in Jobs |-> [interval |-> BaseInterval, slot |-> Queued(0)]]
    /\ queue \in {q \in [1 .. Cardinality(Jobs) -> Jobs] : \A j \in Jobs : \E n \in DOMAIN q : q[n] = j}
    /\ place = [w \in Workers |-> "Idle"]
    /\ job = [w \in Workers |-> NoJob]
    /\ report = [w \in Workers |-> NoProgress]
    /\ pool = "Looking"
    /\ wake = ForPoolEvent
    /\ cancelled = FALSE
    /\ told = [j \in Jobs |-> "Nothing"]

-----------------------------------------------------------------------------
(* The loop *)

IdleWorkers == {w \in Workers : place[w] = "Idle"}

\* The head of the loop: start_executions, unless the pool is being stopped.
StartExecutions ==
    /\ pool = "Looking"
    /\ IF cancelled
       THEN pool' = "Draining" /\ UNCHANGED place
       ELSE /\ pool' = "Claiming"
            /\ place' = [w \in Workers |-> IF place[w] = "ToExecute" THEN "Executing" ELSE place[w]]
    /\ UNCHANGED <<polls, queue, job, report, wake, cancelled, told>>

IsJobDue == queue # <<>> /\ polls[Head(queue)].slot.due = 0

\* One turn of spawn_task_starts: try_claim_due_job for a free worker.
ClaimDueJob ==
    /\ pool = "Claiming" /\ IsJobDue
    /\ \E w \in IdleWorkers :
        /\ place' = [place EXCEPT ![w] = "Starting"]
        /\ job' = [job EXCEPT ![w] = Head(queue)]
    /\ polls' = [polls EXCEPT ![Head(queue)].slot = Claimed(NoDue)]
    /\ queue' = Tail(queue)
    /\ told' = [told EXCEPT ![Head(queue)] = "Nothing"]
    /\ UNCHANGED <<report, pool, wake, cancelled>>

\* Fault: the sleep is as long as the last job of the queue is away.
WakeForLast ==
    IF IdleWorkers = {} \/ queue = <<>> THEN ForPoolEvent ELSE polls[queue[Len(queue)]].slot.due

\* What spawn_task_starts returns once it ran out of workers or of due jobs.
WakeFor ==
    IF IdleWorkers = {} \/ queue = <<>> THEN ForPoolEvent ELSE polls[Head(queue)].slot.due

Sleep ==
    /\ pool = "Claiming" /\ (IdleWorkers = {} \/ ~IsJobDue)
    /\ wake' = WakeFor
    /\ pool' = "Waiting"
    /\ UNCHANGED <<polls, queue, place, job, report, cancelled, told>>

\* Fault: only the moment of the sleep ends it.
WakeUpLate ==
    /\ pool = "Waiting" /\ wake = 0
    /\ pool' = "Looking"
    /\ UNCHANGED <<polls, queue, place, job, report, wake, cancelled, told>>

\* sleep_until_wake and the cancellation branch of the select.
WakeUp ==
    /\ pool = "Waiting" /\ (wake = 0 \/ cancelled)
    /\ pool' = "Looking"
    /\ UNCHANGED <<polls, queue, place, job, report, wake, cancelled, told>>

\* A join: the loop goes round again, or goes on draining.
Joined == pool' = IF pool = "Waiting" THEN "Looking" ELSE pool

\* What the report of w adds to the history of its job: the end outweighs everything, and an
\* execution that closed the iteration replaces work that was seen before.
Tells(w) ==
    told' = [told EXCEPT ![job[w]] =
                CASE @ = "End" \/ report[w].kind = "IterationsEnded" -> "End"
                  [] @ # "End" /\ report[w].kind = "TaskPickable" -> "Work"
                  [] @ # "End" /\ report[w].kind = "NextIterationDueAt" /\ place[w] = "Executed" -> "Nothing"
                  [] OTHER -> @]

\* close_task_start: the claim goes back to the schedule before the task is executed.
CloseTaskStart(w) ==
    /\ pool \in {"Waiting", "Draining"} /\ place[w] \in {"Started", "NotStarted"}
    /\ \E jitter \in Jitters :
        polls' = [polls EXCEPT ![job[w]] = Released(@, report[w], jitter)]
    /\ queue' \in Requeued(queue, polls, polls', job[w])
    /\ place' = [place EXCEPT ![w] = IF @ = "Started" THEN "ToExecute" ELSE "Idle"]
    /\ job' = [job EXCEPT ![w] = IF place[w] = "Started" THEN @ ELSE NoJob]
    /\ report' = [report EXCEPT ![w] = NoProgress]
    /\ Joined /\ Tells(w)
    /\ UNCHANGED <<wake, cancelled>>

\* close_execution
CloseExecution(w) ==
    /\ pool \in {"Waiting", "Draining"} /\ place[w] = "Executed"
    /\ \E jitter \in Jitters :
        polls' = [polls EXCEPT ![job[w]] = Rescheduled(@, report[w], jitter)]
    /\ queue' \in Requeued(queue, polls, polls', job[w])
    /\ place' = [place EXCEPT ![w] = "Idle"]
    /\ job' = [job EXCEPT ![w] = NoJob]
    /\ report' = [report EXCEPT ![w] = NoProgress]
    /\ Joined /\ Tells(w)
    /\ UNCHANGED <<wake, cancelled>>

\* The end of run: nothing is in flight any more; a task not launched by now stays started.
Stop ==
    /\ pool = "Draining" /\ \A w \in Workers : place[w] \notin InFlight
    /\ pool' = "Stopped"
    /\ UNCHANGED <<polls, queue, place, job, report, wake, cancelled, told>>

-----------------------------------------------------------------------------
(* The workers, the caller and the clock *)

Ends(w, from, to, progress) ==
    /\ place[w] = from
    /\ place' = [place EXCEPT ![w] = to]
    /\ report' = [report EXCEPT ![w] = progress]
    /\ UNCHANGED <<polls, queue, job, pool, wake, cancelled, told>>

\* Worker::start_task returned.
TaskStartEnds(w) ==
    \/ \E progress \in StartedProgress : Ends(w, "Starting", "Started", progress)
    \/ \E progress \in NotStartedProgress : Ends(w, "Starting", "NotStarted", progress)

\* Worker::execute_task returned.
ExecutionEnds(w) ==
    \E progress \in ExecutionProgress : Ends(w, "Executing", "Executed", progress)

\* JobsManagerHandle::shutdown
Cancel ==
    /\ ~cancelled
    /\ cancelled' = TRUE
    /\ UNCHANGED <<polls, queue, place, job, report, pool, wake, told>>

Tick ==
    /\ pool # "Stopped"
    /\ polls' = [j \in Jobs |-> ElapsedPoll(polls[j])]
    /\ wake' = Closer(wake)
    /\ report' = [w \in Workers |-> [report[w] EXCEPT !.at = Closer(@)]]
    /\ UNCHANGED <<queue, place, job, pool, cancelled, told>>

Loop == StartExecutions \/ ClaimDueJob \/ Sleep \/ WakeUp \/ Stop

Next ==
    \/ Loop \/ Cancel \/ Tick
    \/ \E w \in Workers : CloseTaskStart(w) \/ CloseExecution(w) \/ TaskStartEnds(w) \/ ExecutionEnds(w)

Spec == Init /\ [][Next]_vars

\* The loop is never held up, task starts and executions return, and time passes.  The joins are
\* strongly fair because select picks among its ready branches at random and the set of
\* finished tasks gives out the oldest.
Fairness ==
    /\ WF_vars(Loop) /\ WF_vars(Tick)
    /\ \A w \in Workers : /\ WF_vars(TaskStartEnds(w)) /\ WF_vars(ExecutionEnds(w))
                          /\ SF_vars(CloseTaskStart(w)) /\ SF_vars(CloseExecution(w))

FairSpec == Spec /\ Fairness

-----------------------------------------------------------------------------
(* Properties *)

\* A job is claimed exactly as long as one worker starts a task of it: however many executions
\* of the job end meanwhile, no second worker of the pool is handed it, and no claim is lost
\* or given back twice (ScheduleError::NotClaimed never happens).
ClaimIsExclusive ==
    \A j \in Jobs :
        LET starting == {w \in Workers : job[w] = j /\ place[w] \in {"Starting", "Started", "NotStarted"}}
        IN Cardinality(starting) = IF polls[j].slot.kind = "Claimed" THEN 1 ELSE 0

\* The due queue is an index of the slots: it holds every queued job once, in the order of the
\* moments they wait for, through every claim, release and reschedule (transition_job).
QueueIndexesSlots ==
    /\ \A j \in Jobs : Cardinality({n \in DOMAIN queue : queue[n] = j}) =
                            IF polls[j].slot.kind = "Queued" THEN 1 ELSE 0
    /\ \A n, k \in DOMAIN queue : n < k => polls[queue[n]].slot.due <= polls[queue[k]].slot.due

\* No report is lost between a claim and its release, in whatever order reports are joined: a
\* job with work another worker may start at once is due at once, and a job whose budget is spent
\* is never queued again - and no other job is given up (overwritten_poll_due).
ReportsAreScheduled ==
    \A j \in Jobs :
        LET slot == polls[j].slot
        IN /\ told[j] = "Work" => slot.kind = "Claimed" \/ slot = Queued(0)
           /\ told[j] = "End" => slot.kind = "Claimed" \/ slot = Exhausted
           /\ slot = Exhausted => told[j] = "End"

\* The pool does not oversleep: while a worker is free, it wakes no later than the first poll
\* that falls due, and without one only somebody in flight can change anything.
NoOversleep ==
    pool = "Waiting" =>
        /\ IdleWorkers # {} /\ queue # <<>> =>
                wake # ForPoolEvent /\ wake <= polls[Head(queue)].slot.due
        /\ wake = ForPoolEvent =>
                \/ \E w \in Workers : place[w] \in InFlight
                \/ \A j \in Jobs : polls[j].slot = Exhausted

\* Every job is polled again and again until its budget is spent, even with fewer workers than
\* jobs and with neighbours that always have work (the earliest due job is claimed first).
EveryJobIsPolled ==
    \A j \in Jobs : []<>(polls[j].slot.kind # "Queued" \/ pool = "Stopped")

\* A shutdown ends: the loop notices it from every sleep and drains what is in flight.
ShutdownEnds == cancelled ~> pool = "Stopped"

=============================================================================
