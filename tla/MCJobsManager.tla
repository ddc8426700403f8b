--------------------------- MODULE MCJobsManager ---------------------------
(* Instances of JobsManager for TLC. *)
EXTENDS JobsManager, TLC

A == <<"a">>
B == <<"b">>

\* A task without flaws, a job of one such task, and a pool for some jobs.
Task == [code |-> A, executor |-> 1, timeout |-> 1, lifetime |-> 2, attempts |-> 1, input |-> 0,
         dependencies |-> <<>>, tolerant |-> FALSE]
Job == [code |-> A, tasks |-> <<Task>>, runtime |-> <<>>, declared |-> <<>>, limit |-> 1,
        budget |-> Unset, keep |-> Unset, every |-> Unset]
PoolFor(jobs) ==
    [jobs |-> jobs, storage |-> "Object", workers |-> Cardinality(Workers),
     interval |-> Unset, ceiling |-> Unset]

\* A TaskRef to a position of the job, to a task of another job, to one created at runtime.
RefTo(position) == [kind |-> "Initial", at |-> position]
RefElsewhere(kind) == [kind |-> kind, at |-> 0]

\* References to positions in every order, at most one of each.
Lists(count) ==
    {<<>>} \cup UNION {{[k \in 1 .. n |-> RefTo(list[k])] :
                            list \in {f \in [1 .. n -> 1 .. count] : \A i, k \in 1 .. n : i # k => f[i] # f[k]}}
                       : n \in 1 .. count}

Depending(list) == [Task EXCEPT !.dependencies = list]

\* Every dependency graph of up to three tasks; of three, the edges in one order.
Ascending(list) == \A n, k \in DOMAIN list : n < k => list[n].at < list[k].at
Graphs ==
    {[Job EXCEPT !.tasks = [p \in DOMAIN lists |-> Depending(lists[p])]] :
        lists \in UNION {[1 .. n -> Lists(n)] : n \in 0 .. 2}
                    \cup [1 .. 3 -> {list \in Lists(3) : Ascending(list)}]}

\* Two tasks, of which the second may be tolerant, and a declaration of the builder: for and on a
\* task of this job, of another one, created at runtime, or at a position there is not.
Refs == {RefTo(1), RefTo(2), RefTo(3), RefElsewhere("Foreign"), RefElsewhere("Created")}
Declared ==
    {[Job EXCEPT !.tasks = <<Depending(list), [Task EXCEPT !.tolerant = tolerant]>>,
                 !.declared = <<[task |-> task, on |-> on]>>] :
        list \in Lists(2), tolerant \in BOOLEAN, task \in Refs, on \in {<<>>} \cup {<<ref>> : ref \in Refs}}

\* One setting of a task or of a job off its range, or at the edge of it.
Settings ==
    {[Job EXCEPT !.tasks = <<task>>] :
        task \in {[Task EXCEPT !.timeout = 0], [Task EXCEPT !.timeout = LongestDuration],
                  [Task EXCEPT !.timeout = 2], [Task EXCEPT !.timeout = 3], [Task EXCEPT !.attempts = 0],
                  [Task EXCEPT !.lifetime = LongestDuration + 1], [Task EXCEPT !.lifetime = 0],
                  [Task EXCEPT !.input = 1], [Task EXCEPT !.input = 2]}}
    \cup {[Job EXCEPT !.budget = b, !.keep = k, !.every = e] :
            b \in {Unset, 0, 1}, k \in {Unset, MinRetention - 1, MinRetention},
            e \in {Unset, 0, 1, LongestDuration + 1}}

\* Two jobs that share codes of tasks, of jobs, or parts of them, with executors of their own.
Pairs ==
    {<<[Job EXCEPT !.code = first, !.runtime = <<<<code, executor>>>>],
       [Job EXCEPT !.code = second, !.tasks = <<[Task EXCEPT !.executor = 3]>>]>> :
        first \in {A, B \o A, <<>>}, second \in {A, B, A \o B}, code \in {A, B, B \o A}, executor \in {1, 2}}

Pools ==
    {[PoolFor(<<Job>>) EXCEPT !.storage = s, !.workers = n, !.interval = i, !.ceiling = c] :
        s \in {Unset, "Unreachable", "InMemory"}, n \in {0, 1},
        i \in {Unset, 0, 1, LongestInterval, LongestInterval + 1}, c \in {Unset, 1, DefaultInterval,
        LongestInterval, LongestInterval + 1}}

\* The pool of this instance: one job ends, the others go on.
CONSTANT Ending
Running ==
    {[PoolFor(jobs) EXCEPT !.interval = BaseInterval, !.ceiling = MaxInterval] :
        jobs \in {js \in [1 .. Cardinality(Jobs) -> {[Job EXCEPT !.code = <<j>>,
                            !.budget = IF j = Ending THEN LastIteration ELSE Unset] : j \in Jobs}] :
                  \A n, k \in DOMAIN js : n < k => js[n].code # js[k].code}}

MCDescriptions ==
    {PoolFor(<<j>>) : j \in Graphs \cup Declared \cup Settings}
        \cup {PoolFor(pair) : pair \in Pairs} \cup {PoolFor(<<>>)} \cup Pools \cup Running
=============================================================================
