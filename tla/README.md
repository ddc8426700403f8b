# Verification of jobmanager

jobmanager runs jobs made of tasks on workers of any number of processes. The
workers share nothing but an object store: an iteration of a job is one object,
every write of it is conditional on the version it was read at, and a worker
whose write is refused merges what it did into what it finds and writes again.

This directory holds TLA+ models of that protocol, of the store under it and of
the scheduling around it, the TLC configurations that check them on small instances, and TLAPS proofs
of what holds for every instance.

    tlc -workers 2 -config chain.cfg MCJobWorkers      one run
    tlapm JobWorkers_proofs.tla                        the proofs

## 1. Inventory

| Component | State | Operations | Module |
|---|---|---|---|
| Task, `core/task.rs` | status, owner, attempt, retry decision, deadline, lifetime deadline, moment of the last failure | start and take over, complete, skip, fail, availability, judgement of a dependency | `JobState` |
| Job, `core/job.rs` | iteration number, status, tasks, schedule of the next iteration | plan, pick, start, complete, fail with rollback, skip, cascade, unblock, settle, merge of a start, merge of a result; the definition and its checks | `JobState`, `JobsBuilder` |
| Worker, `execution/worker.rs` | a copy of the job between a read and a write | start a task, open an iteration, execute, save, conflict handlers, reports | `JobWorkers` |
| Job handle, `execution/job_handle.rs` | the job the executor may change, open or closed | add, complete, fail, skip a branch, move the next start | `JobWorkers` (closing: see Not modelled) |
| Conditional store, `storage/object_storage.rs`, `backend.rs`, `in_memory.rs` | one object per iteration with a version | read the newest, read conditionally, write conditionally, list, delete | `ObjectStorage`, which implements `IterationStore`; as single steps in `JobWorkers`, `CachedStorage`, `JobCleaner` |
| Providers, `storage/s3.rs`, `azure.rs`, `gcs.rs` and their error modules | the container, the limits of the configuration | requests with their conditions, pages, batches, container creation, error mapping, recording | `StorageBackend`, `ObjectStorage` |
| Paths and codec, `storage/paths.rs`, `state.rs`, `state_codec.rs` | - | keys in inverted order, their parsing, the listing boundary | `ObjectStorage` (byte formats: not modelled) |
| Poll scheduler, `execution/scheduler.rs`, `outcome.rs` | slot and backoff step per job, due queue | claim, release, reschedule | `PollScheduler` |
| Worker pool, `execution/worker_pool.rs` | idle workers, task starts, executions, tasks to launch | loop, claims, launches, joins, sleep, shutdown | `WorkerPool` |
| Jobs manager, `execution/jobs_manager.rs` | highest finished iteration per job, waiters, join handles | record, wait, shutdown, abort | `JobsManager` over `WorkerPool` |
| Cleaner, `execution/job_cleaner.rs` | reports in the channel, what a sweep listed | sweep at start, delete what a report pushes out of the window | `JobCleaner` |
| Cached storage, `storage/cached.rs` | last job per code under a lock | conditional read, read through, save | `CachedStorage` |
| Retrier, `infra/retrier.rs` | attempt number | repeat, give up, stop on cancellation | `ObjectStorage`; its outcomes in `JobWorkers` |
| Builder, registry, `execution/builder.rs`, `core/registry.rs` | what the user declared; executors by key | validation, dependency cycles, registration, lookup | `JobsBuilder` |
| Metrics, errors | - | counting, wording | not modelled: nothing reads them back |

How they interact. A pool claims a due job for a free worker. The worker reads
the newest iteration (or plans the first), reports it if somebody closed it,
opens the next one if it is due, picks a task, writes its start and gives the
claim back. Then the executor runs on the worker's copy, changing it through
the handle; the result is applied, the iteration closed on the copy if that
settles it, and the copy written. Every one of those writes may be refused,
repeated, lost on the way back or outlived by the process, and between any two
of them workers of this or of another process write the same object. All reads
and writes of one pool go through its cache. Every iteration a worker opened is
reported to the cleaner of its process, which deletes what fell out of the
retention window, in the store all the others use too. The owner of the pool has
described it, built it and holds its handle: with it he waits for iterations the
workers record as finished, and shuts the pool down, aborts or drops it.

A call of the store is one or several HTTP requests. Each is served at one moment
between being sent and being answered, may be refused, fail, time out or be given
up, and one that was given up may still be served later; calls that are worth it
are repeated.

What is hard here:

- a copy is old by the time it is written, and a merge has to tell what this
  worker changed from what it merely read;
- three timers end an execution from outside (deadline, lifetime, retry pause),
  and run out between any two steps of anybody;
- a write may have been applied although its answer says otherwise;
- an execution may plan tasks, which must be stored with its result, or go with
  its failure, through every merge;
- reports of a job are joined out of order with the claim on it;
- a cached job is read outside the lock of its entry, while others save;
- iterations are deleted under workers that still hold them, and under listings
  that are between two pages;
- each provider says the same thing in its own way: where a listing starts, how a
  lost race, a moved version and a missing object are reported;
- a wait looks at a number, then sleeps, while workers record and senders go;
- something must happen in the end although any worker may die: the iteration
  is closed, every waiter woken, every job polled, a shutdown finished.

`PROJECT.json` lists these places line by line under `hazards`, each with the
properties aimed at it.

## 2. The modules

### JobState: the rules of one job

Pure operators on records; each has the name of the function it stands for.

*Time.* Every timestamp of a job is only ever compared with the present, so a
moment is kept as the number of ticks left until that comparison turns
(`Unset` for `None`), and `Elapse` takes a tick off all of them. No clock has to
be bounded. The comparisons with deadlines are strict in the code, hence the
`+ 1` in `StartedTask`.

*Pick.* `find_pickable_task` takes the first pickable task of a hash map;
`Pickups` offers every one of them.

*Cascade.* `skip_unreachable_tasks` walks dependents breadth first.
`SkipUnreachableTasks` puts out whole generations (`PutOutGeneration`) as often
as there are tasks. The verdict of an iteration only asks whether some task was
skipped by a failure, which both orders agree on; the label of a task that is
reachable both by a failure and by a shorter path of a decision may differ from
the one the walk writes. That it ends with nothing left to put out is `CascadeEnds`
of `JobState_proofs`.

*Definition.* The constants are a definition `JobDefinition::new` accepts; that it
has no cycle is `OrderAssumption`, and that the builder lets no other through is
`DependenciesCanBeMet` of `JobsManager`.

*Rollback.* `created_by_task` is known to the running process only (a job read
from the store has lost it), so it is not part of a task but of the worker that
executes (`created` in `JobWorkers`).

### JobWorkers: workers on one job

| Variable | Code |
|---|---|
| `objects` | the objects of the store, one per iteration |
| `pc` | where a worker awaits: before a read, after it, before a write, in the executor |
| `mine`, `version` | the `Job` it holds and its `version()` |
| `task`, `created` | the task of its `StartedTask`, and what that execution added |
| `finished` | `FinishedIterations` of its process |
| `faults` | how often the environment may still interfere |

A version is only compared for equality with the stored one, so `version` is
the outcome of that comparison: `New` (never stored, written with `CreateOnly`),
`Current` or `Stale`; a write makes the other copies of its iteration stale.

A step ends where the code awaits the store or the executor. `GetJob`,
`CreateNewJob`, `AdvanceJobIteration` and `PickInNewIteration` are
`Worker::start_task`; `SaveAcknowledged`, `SaveRefused`, `SaveAnswerLost` and
`SaveGivenUp` are the ends of `save_job_state` for each of its five callers
(`AfterSave` and the disjuncts of `SaveRefused` are their handlers);
`ExecutorReturns` and `ReleasedByDeadline` end `execute_task`; `AddTask`,
`CompleteTask`, `FailTaskByHandle`, `SkipTaskBranch` and `SetNextStartAt` are
the calls of the handle; `Tick` is time. A refused write and the read its
handler makes are one step: the handler sees only the state that read returned.

A read answers with the newest iteration, or with one that was the newest when
its key was listed (or cached) and was closed since: `IsReadable`.

Abstractions: all workers read one clock, and one step reads it once; a shutdown
of a worker looks like a crash to the others (nothing is saved) and has no
action of its own; an `Unscheduled` next iteration (a date out of range) is left
out; every worker is a process of its own, so what workers of one pool share
(the finished iterations, the cache) is not shared here. The cache keeps a clone
of the job it saved with the marks of `created_by_task` still on it
(`cached.rs:285`; `state.rs:25-28` and `task.rs:600-604` speak of a job that comes
back from the store without them), and hands it to other workers of the pool.
`JobWorkers` empties `created` at each save, so `NoTaskVanishes` speaks of
workers that read what the store holds. A mark only matters to a rollback of the
task it names, and that task was completed when it was saved: it would take the
repeated execution of `stale_result` to reach it.

### PollScheduler and WorkerPool: one pool

`PollScheduler` holds the operators of `scheduler.rs`: `Released`,
`Rescheduled`, `Requeued` and the arithmetic of intervals. `due_queue` is a
sequence; moments that fall into one tick may be in either order, except that a
job rescheduled for now goes behind the jobs that are due already. `Without` takes
out the one entry of a job, as `BTreeSet::take` does. The cap of a
year on every wait lies beyond the instances and is left out.

`WorkerPool` is `WorkerPool::run`: `StartExecutions`, `ClaimDueJob`, `Sleep`,
`WakeUp`, `CloseTaskStart`, `CloseExecution` and `Stop` are the loop;
`TaskStartEnds` and `ExecutionEnds` let a worker end with any progress
`outcome.rs` can derive; `Cancel` is the shutdown. A panic is one of those ends
(`Stalled`, `NothingPickable`), as in the code. The loop pops the worker that
was pushed last; the model takes any idle one. `told` is a history variable: what
reports said of a job since it was claimed.

### CachedStorage: the cache of a pool

One entry, which is one job code. A job is what the cache tells apart: its
iteration, its version and whether it is finished.

| Variable | Code |
|---|---|
| `store` | the objects; a deleted one remembers its version, since versions are never given twice |
| `cache`, `lock` | `CachedJob` and the holder of its `Mutex` |
| `pc`, `known`, `found`, `attempts` | where a call awaits, the metadata or snapshot its request is about, what it brought, the attempts of the cold read |
| `hand` | what the worker got or saved last |
| `floor`, `revived` | history: the newest job when a read began or looked again; iterations created again after their deletion |

Each request is a step: `GetJob`, `CheckUnmoved`, `CheckChanged`, `CheckGone` and
`Refresh` are the hot path, which holds no lock while it asks; `FindMeta`,
`LockEntry`, `Fetch`, `FetchGone`, `FetchConflict` and `FindMetaAgain` the cold
one, which keeps the lock from its first fetch on; `SaveJob` with `SaveAcknowledged`,
`SaveRefused` and `SaveFails` is a save. A fetch whose object was deleted since
its key was found returns `NotFound`, as the code passes the error on, and the
worker takes it for a job that does not exist. `OutsiderSaves` and
`DeleteOutdated` are other processes. The cache's own `get_job_by_meta`, which
nothing in the repository calls on the cache, is left out.

`AnswerIsCurrent` is what `IsReadable` of `JobWorkers` assumes of a read: the
newest iteration with its newest version, or one that was closed since.

### JobCleaner: deletion against creation

An instance is a process with one worker and one cleaner, on one job. What is in
an iteration is left to `JobWorkers`: a worker that holds one may open the next
or leave it, after any time. `FindJobMeta`, `ReadJob`, `CreateNewJob`,
`StartNewIteration` and `FindIterationStarted` are the parts of
`Worker::start_task` that touch the set of iterations; a start is reported only
when the answer to its write arrived, and `try_send` drops it when the channel is
full. `SweepFind`, `SweepList`, `SweepDelete` and `SweepFails` are
`reconcile_registry_jobs`; `ReceiveReport`, `DeleteReported` and
`DeleteReportedFails` are `process_iteration_messages`, which runs beside the
sweep. A batch of a deletion may fail and the whole be repeated, any number of
times (the retrier's limit is left open, which allows more). `Restart` ends a
process anywhere and loses what its channel held. A listing is one step: its
pages may see later creations, which only makes the swept set larger, and later
deletions, which repeat harmlessly. The history variables are `tail` (what was
outdated when a sweep began), `lost` (deletions lost with a report) and `revived`
(iterations created below a newer one).

### StorageBackend, ObjectStorage and IterationStore: the store

`StorageBackend` is what a provider makes of a request that failed: a failure has
the shape its client reports it in, and `IntoStorageError`, `SettleRefusal`,
`IsObjectGone`, `IsLostCreationRace` and `ClassifyDeleteFailures` are the mappings
to the storage errors, with the differences between S3, Azure and Google Cloud
Storage. The stores themselves are external: `RefusalsFor` and the three `Lists`
say how each of them answers, as the code that reads the answers expects.

`ObjectStorage` is the store of one job as pools and cleaners call it.

| Variable | Code |
|---|---|
| `setup` | the provider's configuration, and two facts of its store: whether it honours the start of a listing, whether an object of another codec lies beside the job |
| `container` | whether the bucket or container exists |
| `objects`, `writes` | the version of each iteration and the version its state was derived from; the versions given out |
| `call` | the call a caller is in: its request, attempt, cursor, keys, what it found, requests sent and recorded, result |
| `known` | the state the caller holds: iteration, version, and whose bytes it is |
| `cancelled`, `adrift` | the caller's token; requests given up that the store may still serve |
| `steady`, `ousted` | history: iterations stored all through the call; whether one went away under it |

`BeginReach`, `BeginGet`, `BeginChanged`, `BeginSave`, `BeginList` and
`BeginDelete` are the entries of `Storage` (and the container check of `build`).
`Send`, `LetGo` and `TimesOut` are `send_request`; `NotPrepared` is what ends a
request before it is sent or recorded (headers Google's credentials do not give,
the pager of a listing the Azure client does not build); `Answered`,
`AnswersUnusably`, `Fails` and `DeletesInPart` are what comes back, where a batch
that failed in part takes the first transient code in the order of the answer,
which is any of them; `Retried` is
`Retrier::retry`, where a budget of no attempts makes one. The store serves a
request in the step that answers it, or in `ServesAdrift` when nobody waits any
more. `ServedInMemory` is `in_memory.rs`, which answers under one lock and keeps
one iteration. A key is a number: the inverted iteration number, with the codec
as its parity; `ParseIterNum` is its inverse. A page of a listing and a batch of a
deletion are the first keys in order, as many as fit, and kept as sets, since the
keys already are their order. The store in memory has no pages and no foreign
objects (`SetupsAssumption`).

`IterationStore` is the promise: a state is written over the very one it was
derived from, a new iteration where there is none, and what disappears is never
the newest. `IsAnIterationStore` says that `ObjectStorage` implements it, with
the same `objects` and `writes`: whatever is repeated, lost or late, the store
takes each state as if one careful writer had put it there. The other modules
rely on this when they take a save or a deletion for one step.

A late creation that is still adrift may put an old iteration back after it was
deleted. It lies below the newest one, and `IterationStore` allows it: the newest
is found all the same.

### JobsBuilder and JobsManager: a pool and its owner

`JobsBuilder` goes from a description to a registry. `BuildDefinition` is
`JobDefinition::new` up to the search, `SearchFrom` and `SearchEdge` are
`find_dependency_cycle` turn by turn with its stack and visit marks,
`EndDefinition` the rest of `build_definition`, `Build` the registry, the storage
and the pool settings. Several flaws of one definition are reported in a fixed
order where the code goes task by task; that a description is refused, and the
position a cycle is reported at, are as in the code.

`JobsManager` composes it with `WorkerPool` (both by `INSTANCE` on shared
variables) and adds what connects them:

| Variable | Code |
|---|---|
| `budget`, `stored` | `max_iterations`; the newest iteration of each job, open or closed |
| `held`, `turn` | what a worker read or wrote last, and what it has done with it |
| `finished` | `FinishedIterations` |
| `handle`, `waits` | the `JobsManagerHandle` and the calls that wait on it |

`WorkerPool` lets a task start or an execution end with any progress.
`JobsManager` narrows this to what the iteration in the worker's hand allows
(`NotStartedProgress`, `ExecutedProgress`, that is `outcome.rs` over the job), and
interleaves `RecordFinishedIteration` where the worker calls it. `CallWait`,
`CheckFinished` and `Changed` are `wait_for_matching_iteration` with a step
between the look at the number and the sleep; `AbortPool` and `AbortWorker` are
`abort_all` taking down the pool and what it spawned; `OtherProcess` moves the
stored iteration from outside.

`Start` hands over only a description whose jobs, number of workers, interval and
ceiling are those of the `WorkerPool` of the instance, so the settings `build`
checked are the ones the pool runs with.

`NothingSaidIsLost` compares what was said, pairs of references from the tasks'
own lists and from `depends_on` and `chain` whatever they refer to (`Said`), with
the graph that is searched (`Edges`). A declaration for a task of another job has
no place in that graph; `merge_declared_dependencies` refuses it, and a comment of
the builder recalls that a layout by slots dropped it (`builder.rs:36-38`).

The two codes of an executor's key are joined by ":", which either code may
contain. `ExecutorIsItsOwn` says that every task gets the executor its own job
registered, of all codes, and is not so; `CodesAreApart` is what it takes (see
section 3, Disagreements, and section 4).

`ManagerAssumption` says what the types of the code say: durations are not negative,
a job has a code, the interval of a pool that sets none is a valid one, and every
list of a description is a finite vector (`IsVec`).

`MCJobWorkers`, `MCWorkerPool`, `MCJobCleaner`, `MCObjectStorage` and
`MCJobsManager` hold the dependency graphs, configurations, descriptions and
symmetries of the instances; `cache.cfg` checks `CachedStorage` as it is.

Operators whose comment begins with "Fault:" are not part of the models. Each is
a plausible mistake in the definition it stands beside; put in its place, it
makes TLC find the property `PROJECT.json` names under `mutants` violated.

## 3. The runs

Two workers are enough for every race of this protocol that two writers can
have; a third only adds workers that wait. Times are one or two ticks, so that
every order of deadline, lifetime, pause and steps occurs. In `JobWorkers` one
fault per behaviour may strike anywhere; in `ObjectStorage` any request may fail.
Symmetry is used on workers, callers and jobs in the runs without liveness only.

| Run | Instance | What it shows | States |
|---|---|---|---|
| `chain` | three tasks in a row, two attempts, a timeout of one tick, a lifetime of two, every fault | no task runs twice within its deadline or ahead of its dependencies, no merge takes back what another worker took over, a stored result is not undone, no iteration is stuck, everything has its type | 600 595 |
| `plan` | two tasks side by side, one of which adds a third that depends on the other; all outcomes and handle calls but the schedule | an iteration is not closed over work, a plan is stored with its result or not at all, a rollback leaves nothing behind, no stored task vanishes | 1 003 697 |
| `iterations` | two iterations of one task with an interval, executors that move the next start, every fault | iterations open in order and never early, closed ones are final, only closed ones are reported | 883 164 |
| `settles` | two tasks in a row, fairness, every fault | every iteration is closed and every live process reports it | 109 924 |
| `pool` | two jobs, two workers, jitter | one claim per job, the queue indexes the slots, no report is lost, no poll overslept, the backoff keeps to its ceiling | 184 801 |
| `polling` | three jobs, one worker, fairness | every job is polled until its budget is spent, a shutdown ends | 105 604 |
| `cache` | two workers on one entry, two iterations, four writes, a window of one, other processes writing and deleting, fairness | a read never answers with an outdated open job, an older state never replaces a newer entry, a worker that polls holds the newest job again and again | 195 568 |
| `cleaner` | two instances, four iterations, a window of two, a channel of one | the iterations of the window stay, every outdated one has its deletion on the way, a sweep leaves none of the tail it found | 601 338 |
| `store` | two callers of two calls each, three iterations, histories of none, two and three, seven setups of the four stores, one request adrift | the store implements `IterationStore`; a read is whole and of the newest iteration, a listing over changing pages exact, a deletion that succeeded complete and one that failed had a cause; requests are recorded once and no more than the budget is sent; a pool starts over a container | 700 818 |
| `manager` | every graph of up to three tasks, declarations through the builder for and on tasks of this job, of another, created at runtime or at no position, settings at their edges, pairs of jobs with shared codes, all pool settings; then one job of two iterations, two workers, one waiter, another process | cycles are found exactly and no declared dependency is dropped, so what was built can run; a wait is answered for what is closed in the store, a job that was given up is recorded, every wait ends | 259 265 |

`pool`, `polling`, `store` and `manager` do not check for deadlock: a pool that
was stopped stops, callers have made their calls, and a description that was
refused is not built again.

`iterations` stops at the second iteration; that order, finality and reports do
not depend on how many follow is proved in section 4.

`cache` needs three writes for the read that lost a race: it has to come back
with one version, when the entry it asked about held the one before and a save
has put the one after into it; the fourth opens the next iteration. The windows
of `cache` and `cleaner` are smaller than the code's floor of 5 so that deletions
start early; nothing depends on the width, as the proofs of section 4 show for
both, and `recreated` below uses the floor itself.

`store` takes, for each provider, a store as documented with two attempts, and
one with a budget of no attempts, no right to create its container, and a start
of listings that is dropped (a case `list_job_outdated_iterations` filters for);
two of the latter hold an object of another codec. Two attempts are enough to
meet one's own earlier write. A page holds one key and a batch two, so that three
iterations take several of each. Two calls per caller make every pair in a row,
such as a read and the save of what it brought, or a listing and its deletion,
against any two calls of the other caller. `writes`, and with it the versions, is
bounded by the calls. `ReadIsTrue`, `DeletionIsTrue`, `RequestsAreAccountedFor`
and `DependenciesCanBeMet` of `manager` are conjunctions of two named parts each.
The type invariants of `ObjectStorage` and `JobsManager` describe their states and that
of `JobCleaner` is proved; the configurations leave the three out.

In `manager` the search for cycles meets every graph of up to three tasks; for
two tasks in every order of the edges as well. Two jobs with two workers come to
more than 11 million states, so one job is run; jobs share nothing but the
workers and the queue, which `pool` and `polling` check.

`ResultIsFinal`, `OneExecutorWithinDeadline`, `DependenciesBeforeExecution` and
`AddedTaskHasPlanner` do not hold of every job: a merge may take a task back
(`stale_result` below). `MergesTakeNothingBack` says in one state that it does not.
The instance of `chain` is a pipeline and that of `plan` a job whose tasks are
started once, the two kinds of job of which section 4 proves it.

### Disagreements between code and comments

| Run | Violated | What happens |
|---|---|---|
| `stale_result` | `ResultIsFinal` | Worker 1 fails task a and goes on to b with the same ownership of a in its copy; worker 2 retries and completes a; worker 1's save of b is refused, and the merge carries over every task that names worker 1, a's old failure included. `job.rs:1357` says a copy "may only overwrite what this worker changed since". |
| `recreated` | `JobIsNotRecreated` | A worker finds no job, or its key gone before the object is read, and lags until iteration 1 is deleted; its write creates iteration 1 beside the live history. `job_cleaner.rs:62` says that "no worker can recreate it from `iter_num = 1`". The newest iteration is found all the same (`RecentIterationsAreKept`). |

The merges have further consequences, when the lifetime of a task runs out between a
worker's read and its write:

- A result accepted within the lifetime is refused by the store and merged after
  another worker failed the task for its lifetime (`job.rs:1349`,
  `LifetimeVerdictIsFinal` in `JobWorkers`); `task.rs:1071` refuses late results
  because they "would otherwise overwrite the verdict already written for it".
- A retry picked just before the lifetime ends is merged over the lifetime failure on
  which a tolerant dependent was already released (`job.rs:1311`,
  `DependenciesBeforeExecution` on a tolerant pair).
- A start is merged although what released it did not come about. In a chain a, b, c,
  let c tolerate a skipped b. Worker 1 completes a within its lifetime; worker 2,
  whose copy shows a past it, fails a, puts out b and picks c. Worker 1's write comes
  first. The merge of worker 2's start finds a completed and b waiting, and carries c
  over without asking again whether its dependencies release it (`job.rs:1311`): c
  runs before b. `job.rs:1264` says lifetimes and cascade are derived again so that
  no dependent is "released against a dependency this state still shows running", and
  `task_lifetime_test.rs:336` speaks of a check that follows the derivation, which
  does not exist. TLC shows it in 14 states on the instance of `chain` with
  `AllowsSkipped = {c}`, without any fault.

Another disagreement has no run of its own. `registry.rs:17-19` promises "a
`(job code, task code)` lookup, so the same task code may carry different executors
in different jobs". The table has one string per pair (`registry.rs:90`), neither
code is restricted, and a key that is there already is overwritten without an error
(`registry.rs:47`): of job `a` with task `b:c` and job `a:b` with task `c`, one runs
the other's executor. The descriptions of `manager` have such a pair; with
`Builder!ExecutorIsItsOwn` for an invariant TLC stops at it, and with the formula of
`ExecutorsAreTheirOwn` (section 4) it does not.

A comment that is inaccurate without consequence: `cached.rs:319` says the cache
"only ever holds a job's current iteration, which is never among the deleted
ones". An entry is only replaced by the next read, so other processes may open
newer iterations and a cleaner delete the cached one; that read asks the store
and finds out (`AnswerIsCurrent`, `EventuallyCurrent`).

### Fairness

*JobWorkers.* As long as a process lives and has not read that the iteration
budget is spent, its pool polls (that is `EveryJobIsPolled` of `WorkerPool`),
every call of the store returns (the HTTP clients time out, the retrier gives
up), every executor returns (the deadline cancels it), and time passes. A dead
worker owes nothing, and at least one worker lives. It is stated as `Moves`
happening again and again, which is weak fairness of a worker's own steps: such
a step is possible wherever a live worker stands. The answer of a refused write
is not owed success: progress may lie with whoever wrote in between.

*WorkerPool.* The loop runs, task starts and executions return, time passes. The
joins are strongly fair: `select!` picks at random among its ready branches, and
a `JoinSet` gives out what finished first, so a report is not passed over for
ever although the branch of the sleep may win many times.

*CachedStorage.* A worker polls again and again and waits for its answers. The
fairness of a worker's steps is strong, since others may hold the lock any number
of times in between: the tokio `Mutex` serves its waiters in turn.
`EventuallyCurrent` has a premise of its own: from some moment on the store
answers reads.

*JobsManager.* `WaitEnds` assumes that tokio polls a wait that can go on and that
`abort_all` takes down what it aborts. Nothing is assumed of the owner, of the
pool or of the store: the property starts where the number is recorded, the job
given up, or the pool aborted. That a pool comes to that point is `settles` and
`polling`.

*ObjectStorage* states no fairness: a caller may be left without an answer for
ever, which the timeout of the HTTP client excludes; no property of the run
needs an answer to come.

*JobCleaner* states no fairness: `OutdatedIsPending` says in one state that the
deletion is on the way, and a channel that is received from in order does the
rest.

## 4. The proofs

Every safety property of section 3 that holds for every instance is a theorem, and
the four that a merge may break are theorems about every behaviour in which none
does, and about two kinds of jobs without that condition. Each proof module extends the module it is about; `Extrema` holds what they share
about least and greatest numbers.

    for m in JobState JobWorkers WorkerPool ObjectStorage CachedStorage JobsManager JobCleaner
    do tlapm ${m}_proofs.tla; done; tlapm Extrema.tla

### The protocol: `JobState_proofs`, `JobWorkers_proofs`

For every set of workers, every graph of tasks, every limit and any number of
faults:

| Theorem | Statement |
|---|---|
| `Invariance` | `Spec => []IInv` |
| `TypeCorrect` | `Spec => []TypeOK` |
| `IterationsAreInOrder` | `Spec => []IterationsInOrder` |
| `ReportsAreTrue` | `Spec => []ReportedIterationIsClosed` |
| `ClosedIterationsAreFinal` | `Spec => ClosedIterationIsFinal` |
| `TasksStayStored` | `Spec => NoTaskVanishes` |
| `ClosedIterationsHoldNoWork` | `Spec => []ClosedIterationHoldsNoWork` |
| `NextIterationsAreDue` | `Spec => NextIterationIsDue` |
| `PlansAreStoredWithResults` | `Spec => PlanIsStoredWithResult` |
| `NoIterationIsStuck` | `Spec => []NoIterationDeadlock` |
| `ResultsAreFinal` | `Spec /\ []MergesTakeNothingBack => ResultIsFinal` |
| `OneExecutorAtATime` | `Spec /\ []MergesTakeNothingBack => []OneExecutorWithinDeadline` |
| `AddedTasksHavePlanners` | `Spec /\ []MergesTakeNothingBack => []AddedTaskHasPlanner` |
| `DependenciesComeFirst` | `NoTolerance`: `Spec /\ []MergesTakeNothingBack => []DependenciesBeforeExecution` |
| `PipelineMerges` | `NoTolerance`, `IsPipeline`: `Spec => []MergesTakeNothingBack` |
| `PipelinesAreSafe` | `NoTolerance`, `IsPipeline`: all four, from `Spec` alone |
| `SingleStartMerges` | `StartsOnce`: `Spec => []MergesTakeNothingBack` |
| `SingleStartsAreSafe` | `StartsOnce`: the first three, and with `NoTolerance` all four, from `Spec` alone |

They rest on the named assumptions of `JobState` and `JobWorkers`: finite tasks,
dependencies of planned tasks among the planned tasks and without a circle, limits
that are numbers, a timeout no longer than the lifetime - all of them checks of
the builder or of the definition.

*The inductive invariant.* None of the safety properties is inductive: each
depends on what a worker that is about to write holds. `IInv` adds `WorkerInv`,
one line per place where a worker may stand. The argument: a worker works only
on a copy it read open, and whoever writes an iteration makes every other copy
of it stale, so a copy whose version is current belongs to an open iteration
(this is where a lost answer matters: it leaves the writer's own copy stale).
Hence a conditional write never touches a closed iteration. An unconditional
creation happens only for the first iteration or after its predecessor was seen
closed, and closed iterations stay closed; so iterations are in order. For
`NoTaskVanishes` the copy with a current version contains the stored tasks, and
what a rollback takes away (`created`) was never stored.

*What a worker carries.* `CarriedInv` stands on `IInv` and says that each copy is
fit to be stored: a copy that is closed holds no task to run or to wait for, a
planned next iteration was due when its predecessor was read and a closed
predecessor does not change, and what an execution planned is in its copy, marked
with the worker, until it is in the store. A merge keeps all three: it judges the
merged tasks again before it closes, and carries over what bears the worker's mark
and is not stored yet.

*Nothing is stuck.* `OrderInv` says that the tasks of every stored iteration and of
every copy are in order: with a task they hold what it depends on, and among any of
them is one that waits on none of the others. A plan is in order by the check for
cycles; a task added at runtime depends on what is there; a rollback takes away
what only this execution added, and the tasks without it were in order when it
began. A merge is a union: what the copy had read is still stored, what it added is
stored or carried over, and the union of two sets in order is in order. In ordered
tasks, the first that is still blocked after the cascade has only resolved
dependencies, each of which either releases it or puts it out, so it cannot be
blocked (`SettlesOrMoves`). That the cascade comes to its end in as many
generations as there are tasks (`CascadeEnds`) is shown on the recursive function
itself, by the least generation that is missing, wrong or puts nothing out; no
induction theorem is needed.

*What a merge may break.* `ResultIsFinal`, `OneExecutorWithinDeadline`,
`DependenciesBeforeExecution` and `AddedTaskHasPlanner` fail where a merge carries a
task over that its worker finished in an earlier pass and another one has taken over
since (`stale_result`): `merge_with_processed_task` asks `check_task_stolen` of the
executed task only. TLC finds each of them violated on an instance where that strikes:
the first two on that of `stale_result`, the third on three planned tasks of which one
waits on another with two attempts, a timeout of no tick and a lifetime of two, the
fourth on that of `plan` with two attempts and a lifetime of two. The theorems say that
nothing else breaks them. `MergesTakeNothingBack` names the condition on a state: of
what a worker about to save a result would carry over, all but the executed task is
stored for nobody or for itself. It is not assumed of the code, but a hypothesis on
the behaviour; the last four theorems discharge it.

*Results.* `ResultInv` speaks of single tasks. A task has a worker exactly if it was
started, and a started one does not outlive its lifetime (`AreSound`). A copy that
matches the store respects it (`AreRespected`): a stored result is a result in the
copy, a task changed hands only to the copy's worker, and what another worker executes
within its deadline is the other's in the copy as well. A worker knows its own results,
also on a stale copy, and one that executes within its deadline is stored as the
worker of that task with that deadline. Each operator of `JobState` is shown once, task
by task, to do no more than `MayBecome` allows (`IsWorkOf`); that such work keeps the
respect is shown once too, and each action is then a few lines.

*Dependencies.* `SequenceInv` says that the tasks of every copy are in sequence (a task
that waits for nothing has all its dependencies completed), that what a copy holds as
completed is stored as such except by the running execution, and that whoever starts,
executes or saves a task has its dependencies completed in the store. It needs
`NoTolerance`, the default of `task.rs:213`: with tolerance the last case of section 3
refutes it.

*Pipelines.* In a job whose tasks come one after another (`IsPipeline`: of any two
tasks one is reached from the other along the dependencies), a worker that starts a
task finds everything before it completed and nothing after it started; so whatever
else it owns is completed in the store as its own, and completed tasks are not taken
over. Retries, takeovers and lifetimes of any number are allowed. The chain of `chain`
is such a job.

*Tasks that are started once.* `StartsOnce` is one attempt and a timeout as long as the
lifetime, as in `plan`; one attempt alone is not enough, since a task whose start was
given up is taken over when its deadline passes, unless its lifetime ends with it.
`OnceInv` then says that a copy that matches the store names every worker the store
names, and that what a worker owns in its copy, a start not written yet apart, is
stored as its own. Only a task without a worker is picked, so nobody else becomes its
worker.

`Inductive`, `InductiveCarries`, `InductiveOrder`, `InductiveHand`, `InductiveSequence`
and `InductiveOnce` have one lemma per action;
`StoreStep` carries what every write has in common, and `OwnStep` what every step
in a worker's own memory has.

### The pool: `WorkerPool_proofs`

For every set of jobs and of workers and every interval, ceiling and jitter:

| Theorem | Statement |
|---|---|
| `TypeCorrect` | `Spec => []TypeOK` |
| `ClaimsAreExclusive` | `Spec => []ClaimIsExclusive` |
| `QueueIsAnIndex` | `Spec => []QueueIndexesSlots` |
| `NoReportIsLost` | `Spec => []ReportsAreScheduled` |
| `NeverOversleeps` | `Spec => []NoOversleep` |

`Inv` adds that the claimed slots are exactly the workers that start a task, each
of a job of its own (`Claims`), that a slot remembers what reports said since its
claim until it goes back to the queue (`Remembered`), and that no started task is
left behind when the pool claims or sleeps (`Launched`). The queue is treated on
its own: `Indexes` is kept by removing an entry, by inserting one behind what is
due no later, and by a tick that brings all of them closer.

### The store: `ObjectStorage_proofs`

For every number of callers, calls and iterations, every configuration of every
provider and any number of requests adrift:

| Theorem | Statement |
|---|---|
| `StoresImplementTheAbstractOne` | `Spec => IsAnIterationStore`, that is, `ObjectStorage` implements `IterationStore` |
| `ReadsAreTrue` | `Spec => []ReadIsTrue` |
| `ListingsAreExact` | `Spec => []ListingIsExact` |
| `DeletionsAreTrue` | `Spec => []DeletionIsTrue` |
| `RequestsAreAccounted` | `Spec => []RequestsAreAccountedFor` |
| `PoolsHaveAContainer` | `Spec => []PoolHasAContainer` |

The refinement maps `objects` and `writes` to themselves; each step of a caller or
of the store is a write, a deletion or a stutter of `IterationStore`. Its inductive
part is about requests: a write in flight or adrift carries the state its version
names, so that the condition of the request is the condition of the abstract write,
and a deletion, however late it is served, names only keys below the newest stored
iteration, which creations only push up. For the others, `Core` relates each call
to the history: what a listing has seen and what lies beyond its cursor together
hold everything that was stored all the while; what a deletion has still to name
and what is gone together make up what it was given. `Counting` bounds the requests
by the attempts, pages and batches. The mappings of errors enter only through what
they return for a refused request, provider by provider.

### The cache: `CachedStorage_proofs`

For every number of workers, iterations and writes:

| Theorem | Statement |
|---|---|
| `TypeCorrect` | `Spec => []TypeOK` |
| `AnswersAreCurrent` | `Spec => []AnswerIsCurrent` |
| `EntriesMoveForward` | `Spec => EntryMovesForward` |

`Inv` says how far a job somebody holds may be from the store (`Fits`: its version
was given out, and if it is the current one it is closed exactly when the stored job
is), what a call knows at each of its awaits (`CallSound`), and that below an
iteration that was ever opened none is open, unless it was created again
(`ClosedInOrder`). The last one is what makes a finished iteration a safe answer.

### The manager and the builder: `JobsManager_proofs`

For every set of jobs, workers and callers and every description:

| Theorem | Statement |
|---|---|
| `AnswersAreFinished` | `Spec => []AnswerIsFinished` |
| `GivenUpJobsAreRecorded` | `Spec => []GivenUpIsRecorded` |
| `BuiltDependenciesCanBeMet` | `Spec => []DependenciesCanBeMet` |
| `ExecutorsAreTheirOwn` | `Spec => [](phase # "Started" /\ Builder!CodesAreApart => Builder!ExecutorIsItsOwn)` |

That an iteration has passed is stable, whoever moves the store, and what a worker
holds, records or reports had passed when it did. That a job's iterations ended
travels from the worker that recorded the last one through its report and, when the
job is claimed meanwhile, through the overwritten poll to the slot; at each station
the number is recorded already.

For `build`, the stack of the search is a path along the dependencies and a position
that is done leads only to positions that are done (`SearchInv`). An edge back to the
stack closes a cycle, and a search that ends without one leaves a set of done
positions closed under the dependencies, in which a cycle would have no position
that was done first. A definition without a flaw has every reference, and every task
a declaration is for, at a position of its own job, so its edges are what was said
(`SaidIsSearched`). The registry maps each key to its last insertion. Two pairs of
codes with one key have job codes of which one begins the other, so where no code
does, a key names one job and one task (`KeysDiffer`); where one does, the theorem
says nothing, and the code keeps one of the two executors.

### The cleaner: `JobCleaner_proofs`

For every set of instances, every retention, every length of the history and every
channel:

| Theorem | Statement |
|---|---|
| `Invariance` | `Spec => []Inv` |
| `TypeCorrect` | `Spec => []TypeOK` |
| `RecentIterationsStay` | `Spec => []RecentIterationsAreKept` |
| `ReportsLeaveNoGaps` | `Spec => []OutdatedIsPending` |
| `SweepsLeaveNoTail` | `Spec => SweptTailIsGone` |

from `CleanerAssumption` (the three numbers are positive). A deletion is decided
long before it is made, so the property alone is not inductive: `Inv` adds
`NotesAreReached`, that whatever anybody wrote down stays behind the store. A
copy and a report are no newer than some stored iteration, and what a report or a
sweep is about to delete is a whole window behind one. No step undoes this
(`Advances`: for every stored iteration there is one at least as new after the
step), because a deletion leaves the iteration it is a window behind, and a
creation only adds. The recreated iteration of `recreated` is within the theorem:
it lies below the window. For `ReportsLeaveNoGaps`, an iteration becomes outdated
only by the creation of the one exactly a window ahead of it, because a worker
creates the successor of what the store has reached; that creation is the one
whose report names it, and the report stays in the channel or in hand until the
deletion is made or counted as lost. For `SweepsLeaveNoTail`, what is left of the
tail lies within the boundary of the sweep and, once listed, in its list
(`TailIsInSight`).

### Only model-checked

*Liveness*: `EveryIterationSettles`, `EveryIterationIsReported`, `EveryJobIsPolled`,
`ShutdownEnds`, `EventuallyCurrent`, `WaitEnds`. The prover has no rule for fairness.

*What holds of some jobs only.* For jobs that are neither pipelines nor started once,
the four properties of the paragraphs above are proved as far as no merge takes a task
back, and TLC shows on `stale_result` that one may. `LifetimeVerdictIsFinal` fails for
the same reason and is no theorem.

*What a recursive definition computes* for every input is out of reach of induction
over data here; `CascadeEnds` goes around it, and the search for cycles is a machine
with steps of its own (`SearchInv`).

## 5. The plan

1. `JobState`, `JobWorkers`: the protocol on the store - done.
2. `PollScheduler`, `WorkerPool`: the pool - done.
3. Proofs of type correctness, order and finality of iterations - done.
4. `CachedStorage`: conditional reads made outside the lock, against saves and
   against each other - done.
5. `JobCleaner`: sweeps, dropped reports, the retention window and lagging
   workers (the TODO at `job_cleaner.rs:80`), with its proof - done.
6. `StorageBackend`, `ObjectStorage`: the calls of the store request by request,
   over the three providers and in memory, implementing `IterationStore` - done.
7. `JobsBuilder`, `JobsManager`: descriptions, the search for cycles, the
   registry, waits, shutdown and abort around the pool - done.
8. Proofs for `WorkerPool` - done.
9. Proofs for `JobWorkers`: `ClosedIterationHoldsNoWork`, `PlanIsStoredWithResult`,
   `NextIterationIsDue`, `NoIterationDeadlock` - done.
10. Proofs for `ObjectStorage`, with the refinement, and for `JobsManager` - done.
11. Proofs for `CachedStorage` - done.
12. Proofs for `JobWorkers` of the four properties that a merge may break: that nothing
    else breaks them, and that nothing does in pipelines and in jobs whose tasks are
    started once - done.

## 6. Not modelled

- *The closing of a job handle.* `close` and every call of the handle take one
  lock, and whether it is open is asked under that lock (`job_handle.rs:197-219`):
  an executor that keeps its handle past its return gets an error. `JobWorkers`
  has the calls between the start and the end of an execution, which is what the
  lock leaves.
- *Copies with marks.* The cache hands out copies on which `created_by_task` is
  still set; see the abstractions of `JobWorkers`.
- *Signing, credentials and client set-up* of the providers
  (`azure_signing.rs`, `gcs_client.rs`, the credential and endpoint parts of `s3.rs`, `azure.rs`
  and `gcs.rs`): they produce headers or fail, and the failures are in
  `StorageBackend`.
- *Byte formats* of the state codec. Which fields survive a save is in
  `JobWorkers`; that encoding and decoding agree is a matter for tests.
- *The delays of the retrier*, jitter included: nothing in `ObjectStorage` depends
  on when an attempt is made, only on what happened since.
- *Metrics, tracing and error texts*, except that a request is recorded once.
- *User code in executors*, which is represented by its outcomes and its calls.
