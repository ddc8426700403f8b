---------------------------- MODULE JobsManager ----------------------------
(***************************************************************************)
(* A pool from its description to its end, as its owner sees it            *)
(* (src/src/execution/jobs_manager.rs): it is built (JobsBuilder), started *)
(* (WorkerPool), waited on, and shut down, aborted or dropped.             *)
(*                                                                         *)
(* The composition decides what the two leave open: the workers report     *)
(* what the stored iteration they hold allows, and record the iterations   *)
(* they find or leave closed where the waits read them.  A stored job is   *)
(* its newest iteration, open or closed; JobWorkers says how one closes,   *)
(* and other processes work on it too.                                     *)
(***************************************************************************)
EXTENDS Integers, Sequences, FiniteSets

CONSTANTS
    Jobs, BaseInterval, MaxInterval, Jitters, DueMoments, Workers, NoJob,
    Descriptions, Unset, DefaultInterval, LongestInterval, LongestDuration, MinRetention,
    Waiters,        \* callers of the wait_for_ methods of the handle
    LastIteration   \* a bound on iteration numbers

VARIABLES
    polls, queue, place, job, report, pool, wake, cancelled, told,
    description, phase, building, visits, stack, start, cause, registry,
    budget,     \* max_iterations of every job, Unset without
    stored,     \* the newest iteration of every job in the store
    held,       \* the iteration each worker read or wrote last
    turn,       \* what it has done with it
    finished,   \* FinishedIterations: the last one recorded for every job, 0 without
    handle,     \* what the owner did with the JobsManagerHandle
    waits       \* the calls that wait on it

poolVars == <<polls, queue, place, job, report, pool, wake, cancelled, told>>
buildVars == <<description, phase, building, visits, stack, start, cause, registry>>
workVars == <<stored, held, turn>>
outside == <<buildVars, workVars, budget, finished, handle, waits>>  \* all but poolVars
vars == <<poolVars, buildVars, workVars, budget, finished, handle, waits>>

Pool == INSTANCE WorkerPool
Builder == INSTANCE JobsBuilder

ASSUME ManagerAssumption ==
    /\ LastIteration \in Nat \ {0} /\ MinRetention \in Nat /\ Unset \notin Nat
    /\ BaseInterval \in Nat \ {0} /\ MaxInterval \in Nat /\ Jitters \subseteq Nat /\ DueMoments \subseteq Nat
    /\ IsFiniteSet(Jobs) /\ NoJob \notin Jobs
    /\ LongestInterval \in Nat /\ DefaultInterval \in 1 .. LongestInterval /\ LongestDuration \in Nat
    /\ \A described \in Descriptions : Builder!IsDescription(described)

Iteration(number, isOpen) == [number |-> number, isOpen |-> isOpen]
NoIteration == Iteration(0, TRUE)
Iterations == {NoIteration} \cup [number : 1 .. LastIteration, isOpen : BOOLEAN]

\* A call that waits: for an iteration of a job or for its budget, and the number it read last.
NoWait == [state |-> "None", job |-> NoJob, goal |-> 0, read |-> 0]
WaitStates == {"None", "Checking", "Parked", "Answered", "Refused"}

TypeOK ==
    /\ phase = "Started" => Pool!TypeOK
    /\ phase \in {"Jobs", "Searching", "Refused", "Built", "Started"}
    /\ budget \in [Jobs -> (1 .. LastIteration) \cup {Unset}]
    /\ stored \in [Jobs -> Iterations]
    /\ held \in [Workers -> Iterations]
    /\ turn \in [Workers -> {"Unread", "Unrecorded", "Due", "Behind", "Open", "Settled", "Closed"}]
    /\ finished \in [Jobs -> 0 .. LastIteration]
    /\ handle \in {"None", "Held", "ShuttingDown", "Aborted", "Gone"}
    /\ waits \in [Waiters -> [state : WaitStates, job : Jobs \cup {NoJob},
                              goal : 0 .. LastIteration, read : 0 .. LastIteration]]

Init ==
    /\ Builder!Init /\ Pool!Init
    /\ budget = [j \in Jobs |-> Unset]
    /\ stored = [j \in Jobs |-> NoIteration]
    /\ held = [w \in Workers |-> NoIteration]
    /\ turn = [w \in Workers |-> "Unread"]
    /\ finished = [j \in Jobs |-> 0]
    /\ handle = "None"
    /\ waits = [x \in Waiters |-> NoWait]

-----------------------------------------------------------------------------
(* JobsManagerBuilder::build and JobsManager::start *)

Builds ==
    /\ Builder!Next
    /\ UNCHANGED <<poolVars, workVars, budget, finished, handle, waits>>

\* JobRegistry::get_job
DefinitionOf(j) ==
    description.jobs[CHOOSE n \in DOMAIN description.jobs : description.jobs[n].code = <<j>>]

\* start: the pool of WorkerPool's instance is the one with these jobs, workers and intervals.  The
\* description is not needed any more.
Start ==
    /\ phase = "Built"
    /\ {description.jobs[n].code : n \in DOMAIN description.jobs} = {<<j>> : j \in Jobs}
    /\ description.workers = Cardinality(Workers)
    /\ Builder!PollInterval(description) = BaseInterval /\ Builder!MaxPollInterval(description) = MaxInterval
    /\ budget' = [j \in Jobs |-> DefinitionOf(j).budget]
    /\ phase' = "Started" /\ handle' = "Held"
    /\ description' = <<>> /\ registry' = <<>> /\ building' = 1
    /\ UNCHANGED <<poolVars, workVars, finished, waits, visits, stack, start, cause>>

-----------------------------------------------------------------------------
(* The workers: what start_task and execute_task do to the stored iteration *)

IsProcessed(iteration) == ~iteration.isOpen

IsBudgetSpent(j, iteration) == budget[j] # Unset /\ iteration.number >= budget[j]

\* The worker holds an iteration; the pool sees nothing of it yet.
Holds(w, iteration, next) ==
    /\ held' = [held EXCEPT ![w] = iteration]
    /\ turn' = [turn EXCEPT ![w] = next]
    /\ UNCHANGED <<poolVars, buildVars, budget, handle, waits>>

\* Fault: whatever was read is recorded as finished.
ReadJobUnchecked(w) ==
    /\ place[w] = "Starting" /\ turn[w] = "Unread"
    /\ stored' = [stored EXCEPT ![job[w]] = IF @ = NoIteration THEN Iteration(1, TRUE) ELSE @]
    /\ Holds(w, stored'[job[w]], "Unrecorded")
    /\ UNCHANGED finished

\* get_job, and create_new_job where there is none: whoever created it, the worker holds it.
ReadJob(w) ==
    /\ place[w] = "Starting" /\ turn[w] = "Unread"
    /\ stored' = [stored EXCEPT ![job[w]] = IF @ = NoIteration THEN Iteration(1, TRUE) ELSE @]
    /\ Holds(w, stored'[job[w]], IF IsProcessed(stored'[job[w]]) THEN "Unrecorded" ELSE "Open")
    /\ UNCHANGED finished

\* Fault: the report of a worker that fell behind rewinds the number.
RecordedLast(j, number) == [finished EXCEPT ![j] = number]

\* record_finished_iteration: the number only moves forward.
Recorded(j, number) == [finished EXCEPT ![j] = IF @ < number THEN number ELSE @]

\* report_finished_iteration, at the pickup of a closed iteration and after the write that
\* closed one.
RecordFinishedIteration(w) ==
    /\ place[w] \in {"Starting", "Executing"} /\ turn[w] \in {"Unrecorded", "Settled"}
    /\ finished' = Recorded(job[w], held[w].number)
    /\ Holds(w, held[w], IF turn[w] = "Unrecorded" THEN "Due" ELSE "Closed")
    /\ UNCHANGED stored

\* start_new_job_iteration: written, or found started by somebody else, who may have closed it.
StartNewJobIteration(w) ==
    LET next == Iteration(held[w].number + 1, TRUE)
        found == stored[job[w]]
    IN /\ place[w] = "Starting" /\ turn[w] = "Due"
       /\ ~IsBudgetSpent(job[w], held[w]) /\ held[w].number < LastIteration
       /\ IF found = held[w]
          THEN stored' = [stored EXCEPT ![job[w]] = next] /\ Holds(w, next, "Open")
          ELSE Holds(w, found, IF IsProcessed(found) THEN "Behind" ELSE "Open") /\ UNCHANGED stored
       /\ UNCHANGED finished

\* The write that closes an iteration: save_settled_job_iteration of a task start and save_task
\* of an execution.
CloseIteration(w) ==
    /\ place[w] \in {"Starting", "Executing"} /\ turn[w] = "Open" /\ stored[job[w]] = held[w]
    /\ stored' = [stored EXCEPT ![job[w]].isOpen = FALSE]
    /\ Holds(w, stored'[job[w]], "Settled")
    /\ UNCHANGED finished

\* find_iteration_status of the closed iteration, as from_task_start reports it.
ClosedProgress(w) ==
    IF IsBudgetSpent(job[w], held[w]) THEN {Pool!Progress("IterationsEnded")}
    ELSE Pool!ProgressAt("NextIterationDueAt") \cup {Pool!Progress("Stalled")}

\* The progress a task start without a task may end with.
NotStartedProgress(w) ==
    CASE turn[w] \in {"Unread", "Behind"} -> {Pool!Progress("Stalled")}
      [] turn[w] \in {"Due", "Closed"} -> ClosedProgress(w)
      [] turn[w] = "Open" -> {Pool!Progress("NothingPickable"), Pool!Progress("Stalled")}
                                \cup Pool!ProgressAt("RetryDueAt")
      [] OTHER -> {}

\* from_job_execution
ExecutedProgress(w) ==
    CASE turn[w] = "Open" -> {Pool!Progress("TaskPickable"), Pool!Progress("NothingPickable")}
      [] turn[w] = "Closed" /\ IsBudgetSpent(job[w], held[w]) -> {Pool!Progress("IterationsEnded")}
      [] turn[w] = "Closed" /\ ~IsBudgetSpent(job[w], held[w]) ->
            {Pool!Progress("TaskPickable"), Pool!Progress("NothingPickable")}
                \cup Pool!ProgressAt("NextIterationDueAt")
      [] OTHER -> {}

LetsGo(w) ==
    /\ held' = [held EXCEPT ![w] = NoIteration]
    /\ turn' = [turn EXCEPT ![w] = "Unread"]

\* start_task wrote the start of a task, which the worker goes on to execute.
StartsTask(w) ==
    /\ turn[w] = "Open" /\ stored[job[w]] = held[w]
    /\ \E progress \in Pool!StartedProgress : Pool!Ends(w, "Starting", "Started", progress)
    /\ UNCHANGED outside

StartsNoTask(w) ==
    /\ \E progress \in NotStartedProgress(w) : Pool!Ends(w, "Starting", "NotStarted", progress)
    /\ LetsGo(w)
    /\ UNCHANGED <<buildVars, stored, budget, finished, handle, waits>>

EndsExecution(w) ==
    /\ \E progress \in ExecutedProgress(w) : Pool!Ends(w, "Executing", "Executed", progress)
    /\ LetsGo(w)
    /\ UNCHANGED <<buildVars, stored, budget, finished, handle, waits>>

Works(w) ==
    \/ ReadJob(w) \/ RecordFinishedIteration(w) \/ StartNewJobIteration(w) \/ CloseIteration(w)
    \/ StartsTask(w) \/ StartsNoTask(w) \/ EndsExecution(w)

\* A worker of another process creates a job, closes its iteration or starts the next one.
OtherProcess(j) ==
    /\ phase = "Started"
    /\ \/ stored[j] = NoIteration /\ stored' = [stored EXCEPT ![j] = Iteration(1, TRUE)]
       \/ stored[j] # NoIteration /\ stored[j].isOpen /\ stored' = [stored EXCEPT ![j].isOpen = FALSE]
       \/ /\ ~stored[j].isOpen /\ stored[j].number < LastIteration
          /\ ~IsBudgetSpent(j, stored[j])
          /\ stored' = [stored EXCEPT ![j] = Iteration(@.number + 1, TRUE)]
    /\ UNCHANGED <<poolVars, buildVars, budget, held, turn, finished, handle, waits>>

-----------------------------------------------------------------------------
(* The pool's loop and its end *)

LoopTurns ==
    /\ phase = "Started"
    /\ Pool!Loop \/ Pool!Tick \/ \E w \in Workers : Pool!CloseTaskStart(w) \/ Pool!CloseExecution(w)
    /\ UNCHANGED outside

IsWaiting(x) == waits[x].state \in {"Checking", "Parked"}
IsAtWork(w) == place[w] \in {"Starting", "Executing"}

\* The owner may take the handle only while no call borrows it.
TakesHandle(next) ==
    /\ handle' = next /\ \A x \in Waiters : ~IsWaiting(x)
    /\ cancelled' = TRUE
    /\ UNCHANGED <<polls, queue, place, job, report, pool, wake, told>>
    /\ UNCHANGED <<buildVars, workVars, budget, finished, waits>>

Shutdown == handle = "Held" /\ TakesHandle("ShuttingDown")

Abort == handle = "Held" /\ TakesHandle("Aborted")

\* The handle is dropped, by its owner or with a shutdown that is over or was itself dropped.
DropHandle == handle \in {"Held", "Aborted", "ShuttingDown"} /\ TakesHandle("Gone")

IsAborted == handle \in {"Aborted", "Gone"}

\* abort_all: the task of the pool ends at its next await, and what it spawned at theirs.
AbortPool ==
    /\ IsAborted /\ pool # "Stopped"
    /\ pool' = "Stopped"
    /\ UNCHANGED <<polls, queue, place, job, report, wake, cancelled, told>>
    /\ UNCHANGED outside

AbortWorker(w) ==
    /\ IsAborted /\ pool = "Stopped" /\ IsAtWork(w)
    /\ place' = [place EXCEPT ![w] = "Idle"]
    /\ job' = [job EXCEPT ![w] = NoJob]
    /\ LetsGo(w)
    /\ UNCHANGED <<polls, queue, report, pool, wake, cancelled, told>>
    /\ UNCHANGED <<buildVars, stored, budget, finished, handle, waits>>

-----------------------------------------------------------------------------
(* wait_for_iteration_completion and wait_for_job_completion *)

Waits(x, wait) ==
    /\ waits' = [waits EXCEPT ![x] = wait]
    /\ UNCHANGED <<poolVars, buildVars, workVars, budget, finished, handle>>

\* A call: for any iteration of a job, or for the last one of a job that has one.
CallWait(x) ==
    /\ handle \in {"Held", "Aborted"} /\ ~IsWaiting(x)
    /\ \E j \in Jobs :
        \/ Waits(x, [state |-> "Checking", job |-> j, goal |-> 1, read |-> 0])
        \/ budget[j] # Unset /\ Waits(x, [state |-> "Checking", job |-> j, goal |-> budget[j], read |-> 0])
        \/ budget[j] = Unset /\ Waits(x, [NoWait EXCEPT !.state = "Refused"])

\* borrow_and_update
CheckFinished(x) ==
    LET wait == waits[x]
        number == finished[wait.job]
    IN /\ wait.state = "Checking"
       /\ Waits(x, [wait EXCEPT !.read = number,
                                !.state = IF number >= wait.goal THEN "Answered" ELSE "Parked"])

\* Fault: the handle keeps senders of its own.
AreSendersDropped == pool = "Stopped" /\ handle = "Gone"

\* Every sender is gone: the workers own them, and the pool and its tasks own the workers.
AreSendersGone == pool = "Stopped" /\ \A w \in Workers : ~IsAtWork(w)

\* changed: a number not read yet, or else the end of the senders.
Changed(x) ==
    LET wait == waits[x]
        hasChanged == finished[wait.job] # wait.read
    IN /\ wait.state = "Parked" /\ (hasChanged \/ AreSendersGone)
       /\ Waits(x, [wait EXCEPT !.state = IF hasChanged THEN "Checking" ELSE "Refused"])

\* The caller drops the future.
DropWait(x) == IsWaiting(x) /\ Waits(x, NoWait)

-----------------------------------------------------------------------------

Next ==
    \/ Builds \/ Start
    \/ LoopTurns \/ Shutdown \/ Abort \/ DropHandle \/ AbortPool
    \/ \E w \in Workers : Works(w) \/ AbortWorker(w)
    \/ \E j \in Jobs : OtherProcess(j)
    \/ \E x \in Waiters : CallWait(x) \/ CheckFinished(x) \/ Changed(x) \/ DropWait(x)

Spec == Init /\ [][Next]_vars

\* The executor polls a wait that can go on and takes down what was aborted.  Nothing is assumed
\* of the owner, of the pool or of the store.
Fairness ==
    /\ \A x \in Waiters : WF_vars(CheckFinished(x)) /\ WF_vars(Changed(x))
    /\ WF_vars(AbortPool) /\ \A w \in Workers : WF_vars(AbortWorker(w))

FairSpec == Spec /\ Fairness

-----------------------------------------------------------------------------
(* Properties *)

\* The dependencies of a job that JobsManagerBuilder::build lets through can be met: none that was
\* declared is dropped on the way, whatever task it names, and no task waits for itself; and build
\* refuses for a cycle only what has one, through the position it names, whichever way
\* find_dependency_cycle walks.
DependenciesCanBeMet ==
    phase # "Started" => Builder!CyclesAreFound /\ Builder!NothingSaidIsLost

\* A wait is answered with the number of an iteration that is over in the store, and one for the
\* whole job only when its budget is spent (wait_for_matching_iteration).
AnswerIsFinished ==
    \A x \in Waiters :
        waits[x].state = "Answered" =>
            LET newest == stored[waits[x].job]
            IN /\ waits[x].read >= waits[x].goal
               /\ newest.number > waits[x].read \/ newest = Iteration(waits[x].read, FALSE)

\* A job the pool gives up polling has had its last iteration recorded: nobody would ever record
\* it later, and a wait for the job would hang (advance_job_iteration, job_iteration_settled).
GivenUpIsRecorded ==
    \A j \in Jobs : phase = "Started" /\ polls[j].slot.kind = "Exhausted" => finished[j] >= budget[j]

\* A wait ends when what it waits for is recorded, when the pool gave the job up, and when the
\* pool was aborted: no wake-up is lost between a look at the number and the sleep, no report of a
\* worker that fell behind takes a number back, and no sender outlives the pool.
WaitEnds ==
    \A x \in Waiters :
        (/\ IsWaiting(x)
         /\ \/ finished[waits[x].job] >= waits[x].goal
            \/ polls[waits[x].job].slot.kind = "Exhausted"
            \/ IsAborted)
        ~> ~IsWaiting(x)

=============================================================================
