---------------------------- MODULE JobsBuilder ----------------------------
(***************************************************************************)
(* From a description to a pool that may be started                        *)
(* (src/src/execution/builder.rs): every job becomes a validated           *)
(* JobDefinition (src/src/core/job.rs), its dependency graph is searched   *)
(* for cycles, the definitions are put into the registry                   *)
(* (src/src/core/registry.rs), and the settings of the pool are checked.   *)
(*                                                                         *)
(* A description is what JobsManagerBuilder collected before build:        *)
(*   jobs: a sequence of JobBuilders: code, tasks, runtime executors,      *)
(*       declared dependencies, limit, budget, keep, every                 *)
(*   storage, workers, interval, ceiling: of the pool                      *)
(* and a task is a TaskDefinition with the executor added with it.         *)
(* A code is a sequence of segments: what stands between the separators    *)
(* ":" of the string.  An executor is known by its identity.               *)
(***************************************************************************)
EXTENDS Integers, Sequences, FiniteSets, SequencesExt

CONSTANTS
    Descriptions,       \* the descriptions of this instance
    Unset,              \* a setting nobody named
    DefaultInterval,    \* DEFAULT_POLL_INTERVAL
    LongestInterval,    \* LONGEST_ACCEPTED_POLL_INTERVAL
    LongestDuration,    \* the longest duration chrono represents
    MinRetention        \* MIN_ITERATION_RETENTION

VARIABLES
    description,    \* what build was called on
    phase,          \* how far build is
    building,       \* the number of the job whose definition is being built
    visits,         \* find_dependency_cycle: the state of every position of that job
    stack,          \* its stack: pairs of a position and its next edge
    start,          \* the position it starts from next
    cause,          \* why build refused
    registry        \* task_executors_by_key

vars == <<description, phase, building, visits, stack, start, cause, registry>>

None == [kind |-> "None", at |-> 0]

\* A TaskRef: a position of this job, or a task of another job or one created at runtime.
Initial(position) == [kind |-> "Initial", at |-> position]
Foreign == [kind |-> "Foreign", at |-> 0]
Created == [kind |-> "Created", at |-> 0]

\* DEFAULT_MAX_POLL_INTERVAL_FACTOR
DefaultCeilingFactor == 10

\* A Vec, or the characters of a code: a sequence.
IsVec(s) == s \in Seq(Range(s))

IsTaskRef(ref) == ref \in {Foreign, Created} \cup [kind : {"Initial"}, at : Nat \ {0}]
IsRefs(refs) == IsVec(refs) /\ \A n \in DOMAIN refs : IsTaskRef(refs[n])

\* TaskDefinition: what its own methods accept, none of which rejects anything.
IsTaskDefinition(task) ==
    /\ IsVec(task.code) /\ task.timeout \in Nat /\ task.lifetime \in Nat
    /\ task.attempts \in Nat /\ task.input \in Nat
    /\ task.tolerant \in BOOLEAN /\ IsRefs(task.dependencies)

\* JobBuilder: a setting nobody named stays Unset.
IsJobBuilder(described) ==
    /\ IsVec(described.code) /\ IsVec(described.tasks) /\ IsVec(described.runtime) /\ IsVec(described.declared)
    /\ \A n \in DOMAIN described.tasks : IsTaskDefinition(described.tasks[n])
    /\ \A n \in DOMAIN described.runtime : IsVec(described.runtime[n][1])
    /\ \A n \in DOMAIN described.declared :
            IsTaskRef(described.declared[n].task) /\ IsRefs(described.declared[n].on)
    /\ described.limit \in Nat
    /\ {described.budget, described.keep, described.every} \subseteq Nat \cup {Unset}

\* JobsManagerBuilder
IsDescription(described) ==
    /\ IsVec(described.jobs) /\ \A n \in DOMAIN described.jobs : IsJobBuilder(described.jobs[n])
    /\ described.storage \in {"Object", "InMemory", "Unreachable", Unset} /\ described.workers \in Nat
    /\ {described.interval, described.ceiling} \subseteq Nat \cup {Unset}

-----------------------------------------------------------------------------
(* JobDefinition::new *)

\* TaskDefinition::validate
IsValid(task, limit) ==
    /\ task.timeout \in 1 .. LongestDuration
    /\ task.lifetime \in task.timeout .. LongestDuration
    /\ task.attempts > 0
    /\ task.input <= limit

\* What a job registers: the executors of its initial tasks, then the ones for runtime tasks.
Registrations(described) ==
    [n \in DOMAIN described.tasks |-> <<described.tasks[n].code, described.tasks[n].executor>>]
        \o described.runtime

\* register_executor refuses a second, different executor for a code.
IsUnambiguous(registrations) ==
    \A n, k \in DOMAIN registrations :
        registrations[n][1] = registrations[k][1] => registrations[n][2] = registrations[k][2]

\* resolve_initial_position succeeds.
IsResolvable(ref, count) == ref.kind = "Initial" /\ ref.at \in 1 .. count

\* What depends_on and chain of the builder declared for the task at a position.
DeclaredDependencies(described, position) ==
    FlattenSeq([n \in DOMAIN described.declared |->
        IF described.declared[n].task = Initial(position) THEN described.declared[n].on ELSE <<>>])

\* merge_declared_dependencies: what the task at a position waits for, from both channels.
DependsOn(described, position) ==
    described.tasks[position].dependencies \o DeclaredDependencies(described, position)

\* Fault: a declaration for a task that is not there has no slot and is passed over.
DeclarationsHaveSlots(described) == TRUE

\* merge_declared_dependencies: every declaration is for a task of this job.
DeclarationsHaveTasks(described) ==
    \A n \in DOMAIN described.declared :
        IsResolvable(described.declared[n].task, Len(described.tasks))

\* A reason JobDefinition::new refuses for before it searches for cycles; of several, the code
\* names the one it meets first on its way along the tasks.
DefinitionFlaw(described) ==
    LET positions == DOMAIN described.tasks
        count == Len(described.tasks)
    IN CASE count = 0 -> "NoInitialTask"
         [] \E p \in positions : ~IsValid(described.tasks[p], described.limit) -> "IllegalTask"
         [] ~IsUnambiguous(Registrations(described)) -> "TwoExecutors"
         [] ~DeclarationsHaveTasks(described) -> "UnknownTask"
         [] \E p \in positions :
                \/ described.tasks[p].tolerant /\ DependsOn(described, p) = <<>>
                \/ \E ref \in Range(DependsOn(described, p)) : ~IsResolvable(ref, count) -> "BadDependency"
         [] OTHER -> "None"

\* positions_by_task
Edges(described) ==
    [p \in DOMAIN described.tasks |->
        [n \in DOMAIN DependsOn(described, p) |-> DependsOn(described, p)[n].at]]

\* with_max_iterations, with_iteration_retention, with_iteration_interval
SettingsFlaw(described) ==
    CASE described.budget # Unset /\ described.budget = 0 -> "NoIterations"
      [] described.keep # Unset /\ described.keep < MinRetention -> "ShortRetention"
      [] described.every # Unset /\ described.every \notin 1 .. LongestDuration -> "IllegalInterval"
      [] OTHER -> "None"

-----------------------------------------------------------------------------
(* JobRegistry::new and JobsManagerBuilder::build *)

\* task_executor_key: the two codes as one string.
TaskExecutorKey(jobCode, taskCode) == jobCode \o taskCode

\* get_task_executor
GetTaskExecutor(table, jobCode, taskCode) == table[TaskExecutorKey(jobCode, taskCode)]

Keyed(described) ==
    [n \in DOMAIN Registrations(described) |->
        <<TaskExecutorKey(described.code, Registrations(described)[n][1]), Registrations(described)[n][2]>>]

\* task_executors_by_key: a key inserted again holds what was inserted last.
ExecutorsByKey(jobs) ==
    LET inserted == FlattenSeq([n \in DOMAIN jobs |-> Keyed(jobs[n])])
    IN [key \in {inserted[n][1] : n \in DOMAIN inserted} |->
            LET last == CHOOSE n \in DOMAIN inserted :
                            /\ inserted[n][1] = key
                            /\ \A k \in DOMAIN inserted : inserted[k][1] = key => k <= n
            IN inserted[last][2]]

RegistryFlaw(jobs) ==
    CASE \E n \in DOMAIN jobs : jobs[n].code = <<>> -> "EmptyCode"
      [] \E n, k \in DOMAIN jobs : n # k /\ jobs[n].code = jobs[k].code -> "DuplicateJob"
      [] OTHER -> "None"

PollInterval(described) == IF described.interval = Unset THEN DefaultInterval ELSE described.interval

\* PollSchedulerConfig::max_poll_interval
MaxPollInterval(described) ==
    IF described.ceiling = Unset THEN DefaultCeilingFactor * PollInterval(described) ELSE described.ceiling

\* build_storage: the backend chosen has to be there, whatever cache is put in front of it.
HasStorage(described) == described.storage \notin {Unset, "Unreachable"}

\* with_poll_interval and with_max_poll_interval, called for the settings somebody named.
IsPollable(described) ==
    /\ PollInterval(described) \in 1 .. LongestInterval
    /\ described.ceiling # Unset => described.ceiling \in PollInterval(described) .. LongestInterval

\* What build looks at after the registry, in this order.
PoolFlaw(described) ==
    CASE ~HasStorage(described) -> "NoStorage"
      [] ~IsPollable(described) -> "IllegalPolling"
      [] described.workers = 0 -> "NoWorkers"
      [] OTHER -> "None"

-----------------------------------------------------------------------------
(* The steps of build *)

Init ==
    /\ description \in Descriptions
    /\ phase = "Jobs" /\ building = 1
    /\ visits = <<>> /\ stack = <<>> /\ start = 1
    /\ cause = None /\ registry = <<>>

Refuse(flaw, position) ==
    /\ phase' = "Refused"
    /\ cause' = [kind |-> flaw, at |-> position]
    /\ UNCHANGED <<description, building, visits, stack, start, registry>>

Described == description.jobs[building]

\* The head of the loop over the jobs: JobDefinition::new up to the search.
BuildDefinition ==
    /\ phase = "Jobs" /\ building \in DOMAIN description.jobs
    /\ IF DefinitionFlaw(Described) # "None"
       THEN Refuse(DefinitionFlaw(Described), 0)
       ELSE /\ phase' = "Searching"
            /\ visits' = [p \in DOMAIN Described.tasks |-> "Unseen"]
            /\ stack' = <<>> /\ start' = 1
            /\ UNCHANGED <<description, building, cause, registry>>

\* find_dependency_cycle: the next start, of which only an unseen one is searched.
SearchFrom ==
    /\ phase = "Searching" /\ stack = <<>> /\ start \in DOMAIN visits
    /\ start' = start + 1
    /\ IF visits[start] = "Unseen"
       THEN stack' = <<<<start, 1>>>> /\ visits' = [visits EXCEPT ![start] = "OnStack"]
       ELSE UNCHANGED <<stack, visits>>
    /\ UNCHANGED <<description, phase, building, cause, registry>>

\* Fault: a position seen before closes a cycle, on the stack or not.
ClosesCycleIfSeen(dependency) == visits[dependency] # "Unseen"

ClosesCycle(dependency) == visits[dependency] = "OnStack"

\* One turn of the search: the next edge of the position on top, or its end.
SearchEdge ==
    LET top == Last(stack)
        position == top[1]
        edges == Edges(Described)[position]
        dependency == edges[top[2]]
        rest == Append(Front(stack), <<position, top[2] + 1>>)
    IN /\ phase = "Searching" /\ stack # <<>>
       /\ IF top[2] \notin DOMAIN edges
          THEN /\ visits' = [visits EXCEPT ![position] = "Done"]
               /\ stack' = Front(stack)
               /\ UNCHANGED <<description, phase, building, start, cause, registry>>
          ELSE IF ClosesCycle(dependency) THEN Refuse("Cycle", dependency)
          ELSE /\ IF visits[dependency] = "Unseen"
                  THEN /\ visits' = [visits EXCEPT ![dependency] = "OnStack"]
                       /\ stack' = Append(rest, <<dependency, 1>>)
                  ELSE stack' = rest /\ UNCHANGED visits
               /\ UNCHANGED <<description, phase, building, start, cause, registry>>

\* The search found none: the rest of build_definition, and the next job.
EndDefinition ==
    /\ phase = "Searching" /\ stack = <<>> /\ start \notin DOMAIN visits
    /\ IF SettingsFlaw(Described) # "None"
       THEN Refuse(SettingsFlaw(Described), 0)
       ELSE /\ phase' = "Jobs" /\ building' = building + 1
            /\ visits' = <<>> /\ start' = 1
            /\ UNCHANGED <<description, stack, cause, registry>>

\* Every definition is built: the registry, the storage and the pool.
Build ==
    LET flaw == CASE description.jobs = <<>> -> "NoJobs"
                  [] RegistryFlaw(description.jobs) # "None" -> RegistryFlaw(description.jobs)
                  [] OTHER -> PoolFlaw(description)
    IN /\ phase = "Jobs" /\ building \notin DOMAIN description.jobs
       /\ IF flaw # "None"
          THEN Refuse(flaw, 0)
          ELSE /\ phase' = "Built"
               /\ registry' = ExecutorsByKey(description.jobs)
               /\ UNCHANGED <<description, building, visits, stack, start, cause>>

Next == BuildDefinition \/ SearchFrom \/ SearchEdge \/ EndDefinition \/ Build

Spec == Init /\ [][Next]_vars

-----------------------------------------------------------------------------
(* Properties *)

\* The positions a walk along the edges from p comes to.
ReachableFrom(edges, p) ==
    LET Closed(S) == \A q \in S : Range(edges[q]) \subseteq S
    IN {q \in DOMAIN edges :
            \A S \in SUBSET DOMAIN edges : Range(edges[p]) \subseteq S /\ Closed(S) => q \in S}

IsOnCycle(edges, p) == p \in ReachableFrom(edges, p)

\* The search finds a cycle if there is one and the position it names lies on one
\* (find_dependency_cycle), whatever the order of tasks and edges: a job that is built has an
\* order its tasks can run in, which JobWorkers takes for granted.
CyclesAreFound ==
    /\ cause.kind = "Cycle" => IsOnCycle(Edges(Described), cause.at)
    /\ phase = "Built" =>
            \A n \in DOMAIN description.jobs : LET edges == Edges(description.jobs[n])
                                               IN \A p \in DOMAIN edges : ~IsOnCycle(edges, p)

\* What the description says waits for what, as it was said: pairs of references, from the tasks'
\* own lists and from depends_on and chain, whatever they refer to.
Said(described) ==
    LET own(p) == {<<Initial(p), ref>> : ref \in Range(described.tasks[p].dependencies)}
        declared(n) == {<<described.declared[n].task, ref>> : ref \in Range(described.declared[n].on)}
    IN (UNION {own(p) : p \in DOMAIN described.tasks})
            \cup (UNION {declared(n) : n \in DOMAIN described.declared})

\* What a graph on the positions of a job says.
EdgePairs(edges) == UNION {{<<Initial(p), Initial(q)>> : q \in Range(edges[p])} : p \in DOMAIN edges}

\* The graph of a job that is built, the one that was searched for cycles, is the one described:
\* what was said of a task of another job, of one created at runtime or of a position there is not
\* was refused and not dropped (merge_declared_dependencies, resolve_initial_position).
NothingSaidIsLost ==
    phase = "Built" =>
        \A n \in DOMAIN description.jobs :
            Said(description.jobs[n]) = EdgePairs(Edges(description.jobs[n]))

\* No job's code is the beginning of another's, up to a separator.
CodesAreApart ==
    \A n, k \in DOMAIN description.jobs :
        n # k => ~IsPrefix(description.jobs[n].code, description.jobs[k].code)

\* The registry hands every task of every job the executor it was registered with (JobRegistry::new).
\* That is so where CodesAreApart; elsewhere two pairs of codes may be one key.
ExecutorIsItsOwn ==
    phase = "Built" =>
        \A n \in DOMAIN description.jobs :
            LET described == description.jobs[n]
                registrations == Registrations(described)
            IN \A k \in DOMAIN registrations :
                GetTaskExecutor(registry, described.code, registrations[k][1]) = registrations[k][2]

=============================================================================
