----------------------------- MODULE JobCleaner -----------------------------
(***************************************************************************)
(* The deletion of outdated iterations (src/src/execution/job_cleaner.rs)  *)
(* against the workers that open new ones (src/src/execution/worker.rs),   *)
(* for one job.  Every instance is a process with a worker and a cleaner.  *)
(* Its cleaner sweeps the store once at start and, concurrently, deletes   *)
(* the one iteration that every report of its worker pushes out of the     *)
(* retention window.  A report that does not fit into the channel is       *)
(* dropped, calls fail, and processes die and start again.                 *)
(*                                                                         *)
(* What is inside an iteration is JobWorkers' matter: a worker that holds  *)
(* one may find it finished and open the next, or leave it.  A copy may be *)
(* held for any time, be it by a slow worker or by the cache.              *)
(***************************************************************************)
EXTENDS Naturals, Sequences, FiniteSets

CONSTANTS
    Instances,      \* the processes
    LastIteration,  \* max_iterations of the job
    Retention,      \* iteration_retention
    ChannelSize     \* capacity of the channel between worker and cleaner

ASSUME CleanerAssumption ==
    /\ LastIteration \in Nat \ {0} /\ Retention \in Nat \ {0} /\ ChannelSize \in Nat \ {0}

VARIABLES
    stored,     \* the iterations that have an object
    worker,     \* where the worker of each instance is
    copy,       \* the iteration it found or holds
    channel,    \* the iterations it reported, in order
    deleting,   \* the iteration the report in hand is about to delete, 0 if none
    sweep,      \* where reconcile_registry_jobs is
    boundary,   \* its retention boundary
    listed,     \* the outdated iterations it listed
    tail,       \* history: what was outdated when it began, less what was created again since
    lost,       \* history: the iterations whose deletion was lost with a report
    revived     \* history: the iterations created below a newer one

vars == <<stored, worker, copy, channel, deleting, sweep, boundary, listed, tail, lost, revived>>

Iterations == 1 .. LastIteration
IsNewest(n) == n \in stored /\ \A k \in stored : k <= n
IsOutdated(i) == i \in stored /\ \E n \in stored : i + Retention <= n

TypeOK ==
    /\ stored \subseteq Iterations
    /\ worker \in [Instances -> {"Idle", "Read", "Create", "Hold"}]
    /\ copy \in [Instances -> 0 .. LastIteration]
    /\ channel \in [Instances -> Seq(Iterations)]
    /\ deleting \in [Instances -> 0 .. LastIteration]
    /\ sweep \in [Instances -> {"Find", "List", "Delete", "Done", "Failed"}]
    /\ boundary \in [Instances -> 0 .. LastIteration]
    /\ listed \in [Instances -> SUBSET Iterations]
    /\ tail \in [Instances -> SUBSET Iterations]
    /\ lost \in SUBSET Iterations /\ revived \in SUBSET Iterations

Init ==
    /\ stored = {}
    /\ worker = [p \in Instances |-> "Idle"]
    /\ copy = [p \in Instances |-> 0]
    /\ channel = [p \in Instances |-> <<>>]
    /\ deleting = [p \in Instances |-> 0]
    /\ sweep = [p \in Instances |-> "Find"]
    /\ boundary = [p \in Instances |-> 0]
    /\ listed = [p \in Instances |-> {}]
    /\ tail = [p \in Instances |-> {}]
    /\ lost = {}
    /\ revived = {}

-----------------------------------------------------------------------------
(* The retention window *)

\* Fault: the window is one iteration short.
NarrowBoundary(n) == IF n < Retention THEN 0 ELSE n - Retention + 1

\* calculate_retention_boundary: the newest iteration that may go while n is current; 0
\* stands for None.
RetentionBoundary(n) == IF n <= Retention THEN 0 ELSE n - Retention

-----------------------------------------------------------------------------
(* The worker *)

cleaner == <<deleting, sweep, boundary, listed>>

Hold(p, place, n) ==
    /\ worker' = [worker EXCEPT ![p] = place]
    /\ copy' = [copy EXCEPT ![p] = n]

\* get_job finds the newest key, or none.
FindJobMeta(p) ==
    /\ worker[p] = "Idle"
    /\ \/ stored = {} /\ Hold(p, "Create", 0)
       \/ \E n \in stored : IsNewest(n) /\ Hold(p, "Read", n)
    /\ UNCHANGED <<stored, channel, cleaner, tail, lost, revived>>

\* get_job reads the object of that key.  One that is gone reaches the worker as the same
\* NotFound that has it create the job.
ReadJob(p) ==
    /\ worker[p] = "Read"
    /\ IF copy[p] \in stored THEN Hold(p, "Hold", copy[p]) ELSE Hold(p, "Create", 0)
    /\ UNCHANGED <<stored, channel, cleaner, tail, lost, revived>>

\* The start ends without a new iteration, or a call fails.
Rest(p) ==
    /\ worker[p] # "Idle" /\ Hold(p, "Idle", 0)
    /\ UNCHANGED <<stored, channel, cleaner, tail, lost, revived>>

\* A write with CreateOnly is applied.
Create(n) ==
    /\ n \in Iterations \ stored
    /\ stored' = stored \cup {n}
    /\ tail' = [p \in Instances |-> tail[p] \ {n}]
    /\ revived' = IF \E k \in stored : k > n THEN revived \cup {n} ELSE revived

\* create_new_job.  A conflict, which is also what a repeated write meets when the answer to
\* the first was lost, has the job read again.
CreateNewJob(p) ==
    /\ worker[p] = "Create"
    /\ \/ Create(1) /\ (Hold(p, "Hold", 1) \/ Hold(p, "Idle", 0))
       \/ 1 \in stored /\ Hold(p, "Idle", 0) /\ UNCHANGED <<stored, tail, revived>>
    /\ UNCHANGED <<channel, cleaner, lost>>

\* Fault: the iteration that was left is reported, not the one that was started.
ReportedLeft(n) == n - 1

\* report_started_iteration
Reported(n) == n

\* try_send: a report that does not fit is dropped.
Report(p, n) ==
    \/ /\ Len(channel[p]) < ChannelSize
       /\ channel' = [channel EXCEPT ![p] = Append(@, n)]
       /\ UNCHANGED lost
    \/ /\ Len(channel[p]) = ChannelSize
       /\ lost' = lost \cup ({RetentionBoundary(n)} \ {0})
       /\ UNCHANGED channel

\* start_new_job_iteration, acknowledged: only then the start is reported.
StartNewIteration(p) ==
    /\ worker[p] = "Hold"
    /\ Create(copy[p] + 1)
    /\ Hold(p, "Hold", copy[p] + 1)
    /\ Report(p, Reported(copy[p] + 1))
    /\ UNCHANGED cleaner

\* It was started by somebody else, or the answer to the write was lost and the worker takes
\* its own write for somebody else's: the job is read again and nothing is reported.
FindIterationStarted(p) ==
    /\ worker[p] = "Hold"
    /\ \/ copy[p] + 1 \in stored /\ UNCHANGED <<stored, tail, lost, revived>>
       \/ /\ Create(copy[p] + 1)
          /\ lost' = lost \cup ({RetentionBoundary(copy[p] + 1)} \ {0})
    /\ Hold(p, "Idle", 0)
    /\ UNCHANGED <<channel, cleaner>>

-----------------------------------------------------------------------------
(* reconcile_registry_jobs *)

workers == <<worker, copy, channel>>

\* The sweep goes on to place; at its end what it knew is gone.
SweepAt(p, place, b, iterations) ==
    /\ sweep' = [sweep EXCEPT ![p] = place]
    /\ boundary' = [boundary EXCEPT ![p] = b]
    /\ listed' = [listed EXCEPT ![p] = iterations]

EndSweep(p, how) ==
    /\ SweepAt(p, how, 0, {})
    /\ tail' = [tail EXCEPT ![p] = {}]

\* delete_outdated_iterations looks for the current iteration: a job without one, or whose
\* window covers its whole history, has no tail.
SweepFind(p) ==
    /\ sweep[p] = "Find"
    /\ \/ stored = {} /\ EndSweep(p, "Done")
       \/ \E n \in stored :
            /\ IsNewest(n)
            /\ \/ RetentionBoundary(n) = 0 /\ EndSweep(p, "Done")
               \/ /\ RetentionBoundary(n) # 0
                  /\ SweepAt(p, "List", RetentionBoundary(n), {})
                  /\ tail' = [tail EXCEPT ![p] = {i \in stored : IsOutdated(i)}]
    /\ UNCHANGED <<stored, workers, deleting, lost, revived>>

\* Fault: only the first page of the listing is read.
FirstListed(b) == {i \in stored : i <= b /\ \A k \in stored : k <= b => k <= i}

\* list_job_outdated_iterations
OutdatedIterations(b) == {i \in stored : i <= b}

SweepList(p) ==
    /\ sweep[p] = "List"
    /\ LET outdated == OutdatedIterations(boundary[p])
       IN \/ outdated = {} /\ EndSweep(p, "Done")
          \/ outdated # {} /\ SweepAt(p, "Delete", 0, outdated) /\ UNCHANGED tail
    /\ UNCHANGED <<stored, workers, deleting, lost, revived>>

\* delete_job_iterations, once all of it has succeeded, and when a batch of it has failed and
\* the whole is repeated.
SweepDelete(p) ==
    /\ sweep[p] = "Delete"
    /\ \/ stored' = stored \ listed[p] /\ EndSweep(p, "Done")
       \/ /\ \E batch \in SUBSET listed[p] : stored' = stored \ batch
          /\ UNCHANGED <<sweep, boundary, listed, tail>>
    /\ UNCHANGED <<workers, deleting, lost, revived>>

\* The attempts are spent or the error is final; it is logged.
SweepFails(p) ==
    /\ sweep[p] \in {"Find", "List", "Delete"} /\ EndSweep(p, "Failed")
    /\ UNCHANGED <<stored, workers, deleting, lost, revived>>

-----------------------------------------------------------------------------
(* process_iteration_messages *)

\* A report is received when the one before is done with; one that pushes nothing out of the
\* window is done with at once.
ReceiveReport(p) ==
    /\ deleting[p] = 0 /\ channel[p] # <<>>
    /\ deleting' = [deleting EXCEPT ![p] = RetentionBoundary(Head(channel[p]))]
    /\ channel' = [channel EXCEPT ![p] = Tail(@)]
    /\ UNCHANGED <<stored, worker, copy, sweep, boundary, listed, tail, lost, revived>>

\* delete_iteration.  Deleting what is gone already is no failure.
DeleteReported(p) ==
    /\ deleting[p] # 0
    /\ stored' = stored \ {deleting[p]}
    /\ deleting' = [deleting EXCEPT ![p] = 0]
    /\ UNCHANGED <<workers, sweep, boundary, listed, tail, lost, revived>>

DeleteReportedFails(p) ==
    /\ deleting[p] # 0
    /\ lost' = lost \cup {deleting[p]}
    /\ deleting' = [deleting EXCEPT ![p] = 0]
    /\ UNCHANGED <<stored, workers, sweep, boundary, listed, tail, revived>>

-----------------------------------------------------------------------------

\* What the reports of instance p are still to delete.
Pending(p) ==
    ({RetentionBoundary(channel[p][k]) : k \in DOMAIN channel[p]} \cup {deleting[p]}) \ {0}

\* The process dies, or is shut down, and starts again.
Restart(p) ==
    /\ Hold(p, "Idle", 0)
    /\ lost' = lost \cup Pending(p)
    /\ channel' = [channel EXCEPT ![p] = <<>>]
    /\ deleting' = [deleting EXCEPT ![p] = 0]
    /\ EndSweep(p, "Find")
    /\ UNCHANGED <<stored, revived>>

WorkerSteps(p) ==
    \/ FindJobMeta(p) \/ ReadJob(p) \/ Rest(p) \/ CreateNewJob(p)
    \/ StartNewIteration(p) \/ FindIterationStarted(p)

Sweep(p) == SweepFind(p) \/ SweepList(p) \/ SweepDelete(p) \/ SweepFails(p)

Messages(p) == ReceiveReport(p) \/ DeleteReported(p) \/ DeleteReportedFails(p)

Next == \E p \in Instances : WorkerSteps(p) \/ Sweep(p) \/ Messages(p) \/ Restart(p)

Spec == Init /\ [][Next]_vars

-----------------------------------------------------------------------------
(* Properties *)

(***************************************************************************)
(* No interleaving of sweeps, reports, lagging workers and restarts takes  *)
(* one of the last Retention iterations away, the newest least of all:     *)
(* every iteration that no stored one is Retention ahead of is there       *)
(* ("the newest state object is undeletable under any interleaving",       *)
(* src/src/execution/job_cleaner.rs:62).                                   *)
(***************************************************************************)
RecentIterationsAreKept ==
    \A n \in stored : \A i \in 1 .. n :
        (\A k \in stored : k < i + Retention) => i \in stored

(***************************************************************************)
(* When a sweep ends well, everything that was outdated as it began is     *)
(* gone, whatever reports and other instances did meanwhile; only a        *)
(* lagging worker can have put an iteration back                           *)
(* (reconcile_registry_jobs, delete_outdated_iterations).                  *)
(***************************************************************************)
SweptTailIsGone ==
    [][\A p \in Instances :
        sweep[p] # "Done" /\ sweep'[p] = "Done" =>
            IF sweep[p] = "Find" THEN \A i \in stored : ~IsOutdated(i)
                                 ELSE tail[p] \cap stored' = {}]_vars

(***************************************************************************)
(* Without any sweep, every outdated iteration has the report that deletes *)
(* it on the way, unless that report was lost or the iteration was created *)
(* again: the reports, one iteration each, leave no gaps, whoever started  *)
(* the iterations and in whatever order the cleaners of the instances get  *)
(* to them (report_started_iteration, delete_iteration).                   *)
(***************************************************************************)
OutdatedIsPending ==
    \A i \in stored :
        IsOutdated(i) => i \in lost \cup revived \/ \E p \in Instances : i \in Pending(p)

(***************************************************************************)
(* "No worker can recreate it from iter_num = 1"                           *)
(* (src/src/execution/job_cleaner.rs:64): iteration 1 is only created for  *)
(* a job that has none.                                                    *)
(***************************************************************************)
JobIsNotRecreated == [][1 \in stored' \ stored => stored = {}]_vars

=============================================================================
