--------------------------- MODULE CachedStorage ---------------------------
(***************************************************************************)
(* The cache the workers of one pool share in front of the object store    *)
(* (src/src/storage/cached.rs): one entry per job code, read outside its   *)
(* lock on the hot path and held across the requests of a cold read and of *)
(* a save.  The module follows one job code, which is all an entry serves. *)
(*                                                                         *)
(* A job is what the cache tells apart: its iteration, its version and     *)
(* whether the iteration is finished.  Every request to the store is a     *)
(* step of its own, between which other workers of the pool, and the       *)
(* workers and cleaners of other instances (Outsider...), go on.           *)
(***************************************************************************)
EXTENDS Naturals, FiniteSets, FiniteSetsExt

CONSTANTS
    Workers,        \* the workers of the pool
    NoWorker,       \* the entry is not locked
    LastIteration,  \* bound on the iterations of the job
    MaxWrites,      \* bound: no write of the job begins after so many, in all its iterations
    Retention       \* iteration_retention

ASSUME CacheAssumption ==
    /\ NoWorker \notin Workers /\ IsFiniteSet(Workers)
    /\ LastIteration \in Nat \ {0} /\ MaxWrites \in Nat \ {0} /\ Retention \in Nat \ {0}

VARIABLES
    store,      \* the object of every iteration; a deleted one remembers its last version
    cache,      \* CachedJob.job
    lock,       \* who holds the Mutex of the entry
    pc,         \* where each worker is in its call
    known,      \* cached / meta of get_job: what the request in flight is about
    found,      \* what the last request brought, or the job save_job was given
    attempts,   \* spent attempts of the cold read
    hand,       \* the job the worker last got or saved
    floor,      \* history: the newest stored job when its read began, and when it looked again
    revived     \* history: the iterations created again after they were deleted

vars == <<store, cache, lock, pc, known, found, attempts, hand, floor, revived>>

-----------------------------------------------------------------------------
(* Jobs and the store *)

Iterations == 1 .. LastIteration

Job == [iter : 0 .. LastIteration, version : Nat, closed : BOOLEAN]
NoJob == [iter |-> 0, version |-> 0, closed |-> FALSE]

\* StorageError::NotFound: a worker goes on to create iteration 1, as one that holds a
\* finished iteration goes on to create the next.
NotFound == [iter |-> 0, version |-> 0, closed |-> TRUE]

IsStored(i) == i \in Iterations /\ store[i].state # "Absent"
Stored == {i \in Iterations : IsStored(i)}
Read(i) == [iter |-> i, version |-> store[i].version, closed |-> store[i].state = "Closed"]

\* find_job_meta names the newest iteration, since keys carry the inverted number.
Newest == IF Stored = {} THEN NotFound ELSE Read(Max(Stored))

AtLeast(a, b) == a.iter > b.iter \/ (a.iter = b.iter /\ a.version >= b.version)

TypeOK ==
    /\ store \in [Iterations -> [version : Nat, state : {"Absent", "Open", "Closed"}]]
    /\ cache \in Job
    /\ lock \in Workers \cup {NoWorker}
    /\ pc \in [Workers -> {"Idle", "Check", "Refresh", "Find", "Lock", "Fetch", "FindAgain", "Save"}]
    /\ known \in [Workers -> Job] /\ found \in [Workers -> Job]
    /\ attempts \in [Workers -> 0 .. 2]
    /\ hand \in [Workers -> Job] /\ floor \in [Workers -> Job]
    /\ revived \in SUBSET Iterations

Init ==
    /\ store = [i \in Iterations |-> [version |-> 0, state |-> "Absent"]]
    /\ cache = NoJob
    /\ lock = NoWorker
    /\ pc = [w \in Workers |-> "Idle"]
    /\ known = [w \in Workers |-> NoJob]
    /\ found = [w \in Workers |-> NoJob]
    /\ attempts = [w \in Workers |-> 0]
    /\ hand = [w \in Workers |-> NoJob]
    /\ floor = [w \in Workers |-> NoJob]
    /\ revived = {}

-----------------------------------------------------------------------------
(* CachedJob *)

\* Fault: any entry will do.
IsPresent(meta) == cache # NoJob

\* Iteration and version are compared as a pair.
IsUnchangedSince(meta) == cache.iter = meta.iter /\ cache.version = meta.version

\* Fault: the version is not compared.
HoldsIteration(meta) == cache.iter = meta.iter

\* The same question of the cold read, asked of the metadata it found.
Holds(meta) == cache # NoJob /\ cache.iter = meta.iter /\ cache.version = meta.version

-----------------------------------------------------------------------------
(* get_job *)

\* The call ends: the worker holds job, and its guard is dropped.
Return(w, job) ==
    /\ pc' = [pc EXCEPT ![w] = "Idle"]
    /\ hand' = [hand EXCEPT ![w] = job]
    /\ known' = [known EXCEPT ![w] = NoJob]
    /\ found' = [found EXCEPT ![w] = NoJob]
    /\ attempts' = [attempts EXCEPT ![w] = 0]
    /\ lock' = IF lock = w THEN NoWorker ELSE lock

\* Fault: a finished iteration is asked about as well.
AnyCached == cache # NoJob

\* What a conditional read is worth asking about.
UnfinishedCached == cache # NoJob /\ ~cache.closed

\* get_job up to its first request: the snapshot is taken under the lock, which is released
\* at once.  What the worker held before is gone.
GetJob(w) ==
    /\ pc[w] = "Idle" /\ lock = NoWorker
    /\ pc' = [pc EXCEPT ![w] = IF UnfinishedCached THEN "Check" ELSE "Find"]
    /\ known' = [known EXCEPT ![w] = IF UnfinishedCached THEN cache ELSE NoJob]
    /\ hand' = [hand EXCEPT ![w] = NoJob]
    /\ floor' = [floor EXCEPT ![w] = Newest]
    /\ UNCHANGED <<store, cache, lock, found, attempts, revived>>

\* get_changed_job answers: unmoved, changed, or gone from the store.
CheckUnmoved(w) ==
    /\ pc[w] = "Check"
    /\ IsStored(known[w].iter) /\ Read(known[w].iter).version = known[w].version
    /\ Return(w, known[w])
    /\ UNCHANGED <<store, cache, floor, revived>>

CheckChanged(w) ==
    /\ pc[w] = "Check"
    /\ IsStored(known[w].iter) /\ Read(known[w].iter).version # known[w].version
    /\ pc' = [pc EXCEPT ![w] = "Refresh"]
    /\ found' = [found EXCEPT ![w] = Read(known[w].iter)]
    /\ UNCHANGED <<store, cache, lock, known, attempts, hand, floor, revived>>

CheckGone(w) ==
    /\ pc[w] = "Check" /\ ~IsStored(known[w].iter)
    /\ pc' = [pc EXCEPT ![w] = "Find"]
    /\ UNCHANGED <<store, cache, lock, known, found, attempts, hand, floor, revived>>

\* A changed job goes into the entry unless that has moved meanwhile.
Refresh(w) ==
    /\ pc[w] = "Refresh" /\ lock = NoWorker
    /\ cache' = IF IsUnchangedSince(known[w]) THEN found[w] ELSE cache
    /\ Return(w, found[w])
    /\ UNCHANGED <<store, floor, revived>>

\* The cold read looks for the current iteration before it takes the lock.
FindMeta(w) ==
    /\ pc[w] = "Find"
    /\ \/ /\ Stored = {} /\ Return(w, NotFound)
       \/ /\ Stored # {}
          /\ pc' = [pc EXCEPT ![w] = "Lock"]
          /\ known' = [known EXCEPT ![w] = Newest]
          /\ UNCHANGED <<lock, found, attempts, hand>>
    /\ floor' = [floor EXCEPT ![w] = Newest]
    /\ UNCHANGED <<store, cache, revived>>

LockEntry(w) ==
    /\ pc[w] = "Lock" /\ lock = NoWorker
    /\ \/ /\ Holds(known[w]) /\ Return(w, cache)
       \/ /\ ~Holds(known[w])
          /\ lock' = w
          /\ pc' = [pc EXCEPT ![w] = "Fetch"]
          /\ UNCHANGED <<known, found, attempts, hand>>
    /\ UNCHANGED <<store, cache, floor, revived>>

\* get_job_by_meta: the object of the version that was found.
Fetch(w) ==
    /\ pc[w] = "Fetch"
    /\ IsStored(known[w].iter) /\ Read(known[w].iter).version = known[w].version
    /\ cache' = Read(known[w].iter)
    /\ Return(w, Read(known[w].iter))
    /\ UNCHANGED <<store, floor, revived>>

\* The object is gone since its key was found; the error reaches the caller as it is.
FetchGone(w) ==
    /\ pc[w] = "Fetch" /\ ~IsStored(known[w].iter)
    /\ Return(w, NotFound)
    /\ UNCHANGED <<store, cache, floor, revived>>

FetchConflict(w) ==
    /\ pc[w] = "Fetch"
    /\ IsStored(known[w].iter) /\ Read(known[w].iter).version # known[w].version
    /\ pc' = [pc EXCEPT ![w] = "FindAgain"]
    /\ attempts' = [attempts EXCEPT ![w] = @ + 1]
    /\ UNCHANGED <<store, cache, lock, known, found, hand, floor, revived>>

\* Fault: the cold read is repeated for as long as it is refused.
EndlessAttemptsLeft(spent) == TRUE

AttemptsLeft(spent) == spent < 2

\* The metadata is found again after each conflict, the last one's to no purpose.
FindMetaAgain(w) ==
    /\ pc[w] = "FindAgain"
    /\ \/ /\ AttemptsLeft(attempts[w])
          /\ pc' = [pc EXCEPT ![w] = "Fetch"]
          /\ known' = [known EXCEPT ![w] = Newest]
          /\ UNCHANGED <<lock, found, attempts, hand>>
       \/ ~AttemptsLeft(attempts[w]) /\ Return(w, NoJob)
    /\ floor' = [floor EXCEPT ![w] = Newest]
    /\ UNCHANGED <<store, cache, revived>>

\* Any request of a read fails, or is cancelled.
ReadFails(w) ==
    /\ pc[w] \in {"Check", "Find", "Fetch", "FindAgain"}
    /\ Return(w, NoJob)
    /\ UNCHANGED <<store, cache, floor, revived>>

-----------------------------------------------------------------------------
(* save_job *)

WritesLeft == MapThenSumSet(LAMBDA i : store[i].version, Iterations) < MaxWrites

\* The versions of an iteration differ from write to write, also after it was deleted.
Written(i, closed) ==
    [store EXCEPT ![i] = [version |-> @.version + 1, state |-> IF closed THEN "Closed" ELSE "Open"]]

RevivedBy(i) == IF ~IsStored(i) /\ store[i].version > 0 THEN revived \cup {i} ELSE revived

\* A worker writes the unfinished iteration it holds, or opens the one after a finished one
\* (version 0 is the empty version of a job that was never stored).
SaveJob(w) ==
    /\ pc[w] = "Idle" /\ hand[w] # NoJob /\ lock = NoWorker
    /\ \E closed \in BOOLEAN :
        LET job == IF hand[w].closed
                   THEN [iter |-> hand[w].iter + 1, version |-> 0, closed |-> closed]
                   ELSE [hand[w] EXCEPT !.closed = closed]
        IN /\ job.iter \in Iterations /\ WritesLeft
           /\ found' = [found EXCEPT ![w] = job]
    /\ lock' = w
    /\ pc' = [pc EXCEPT ![w] = "Save"]
    /\ UNCHANGED <<store, cache, known, attempts, hand, floor, revived>>

\* CreateOnly for a job without a version, MatchVersion for any other.
IsSaveAllowed(job) ==
    IF job.version = 0 THEN ~IsStored(job.iter)
    ELSE IsStored(job.iter) /\ store[job.iter].version = job.version

\* The conditional write is applied.
Put(job) ==
    /\ IsSaveAllowed(job)
    /\ store' = Written(job.iter, job.closed)
    /\ revived' = RevivedBy(job.iter)

SaveAcknowledged(w) ==
    /\ pc[w] = "Save"
    /\ Put(found[w])
    /\ LET job == [found[w] EXCEPT !.version = store'[found[w].iter].version]
       IN /\ cache' = job
          /\ Return(w, job)
          /\ floor' = [floor EXCEPT ![w] = job]

\* A conflict empties the entry.  It is also what the worker is told when its write was
\* applied, the answer was lost and the write was repeated.
SaveRefused(w) ==
    /\ pc[w] = "Save"
    /\ \/ ~IsSaveAllowed(found[w]) /\ UNCHANGED <<store, revived>>
       \/ Put(found[w])
    /\ cache' = NoJob
    /\ Return(w, NoJob)
    /\ UNCHANGED floor

\* Any other failure leaves the entry alone, whether or not the write was applied.
SaveFails(w) ==
    /\ pc[w] = "Save"
    /\ UNCHANGED <<store, revived>> \/ Put(found[w])
    /\ Return(w, NoJob)
    /\ UNCHANGED <<cache, floor>>

-----------------------------------------------------------------------------
(* Other instances *)

\* They write the newest iteration while it is open, and open the one after it.
OutsiderSaves ==
    /\ WritesLeft
    /\ \E i \in Iterations, closed \in BOOLEAN :
        /\ IF Newest.closed THEN i = Newest.iter + 1 ELSE i = Newest.iter
        /\ store' = Written(i, closed) /\ revived' = RevivedBy(i)
    /\ UNCHANGED <<cache, lock, pc, known, found, attempts, hand, floor>>

\* A cleaner, of this instance or another, deletes an outdated iteration.  The cache passes
\* the call on and keeps what it holds.
DeleteOutdated ==
    /\ \E i \in Stored :
        /\ i + Retention <= Newest.iter
        /\ store' = [store EXCEPT ![i].state = "Absent"]
    /\ UNCHANGED <<cache, lock, pc, known, found, attempts, hand, floor, revived>>

-----------------------------------------------------------------------------

\* The steps of a call that the store answers and the lock admits.
Proceed(w) ==
    \/ CheckUnmoved(w) \/ CheckChanged(w) \/ CheckGone(w) \/ Refresh(w) \/ FindMeta(w)
    \/ LockEntry(w) \/ Fetch(w) \/ FetchGone(w) \/ FetchConflict(w) \/ FindMetaAgain(w)

Next ==
    \/ \E w \in Workers : \/ GetJob(w) \/ Proceed(w) \/ ReadFails(w)
                          \/ SaveJob(w) \/ SaveAcknowledged(w) \/ SaveRefused(w) \/ SaveFails(w)
    \/ OutsiderSaves \/ DeleteOutdated

Spec == Init /\ [][Next]_vars

(***************************************************************************)
(* A worker polls again and again and waits for every answer.  The         *)
(* fairness is strong because another worker may hold the lock any finite  *)
(* number of times: the tokio Mutex serves its waiters in turn.            *)
(***************************************************************************)
Fairness ==
    \A w \in Workers :
        SF_vars(\/ GetJob(w) \/ Proceed(w)
                \/ SaveAcknowledged(w) \/ SaveRefused(w) \/ SaveFails(w))

FairSpec == Spec /\ Fairness

-----------------------------------------------------------------------------
(* Properties *)

(***************************************************************************)
(* Whatever path get_job took, an unfinished job it answers with is no     *)
(* older than the newest job that was stored when the call began, and when *)
(* it last looked for metadata: nothing that happened to the entry before  *)
(* or during the call makes it serve an outdated state (CachedStorage::new *)
(* promises that a stale entry never serves "a job the backend has since   *)
(* moved on from").  The exception is an iteration that a lagging worker   *)
(* created again after its deletion.  This is what JobWorkers assumes of a *)
(* read.                                                                   *)
(***************************************************************************)
AnswerIsCurrent ==
    \A w \in Workers :
        hand[w] # NoJob /\ ~hand[w].closed =>
            AtLeast(hand[w], floor[w]) \/ hand[w].iter \in revived

(***************************************************************************)
(* A read that lost the race to a save never puts its older state over     *)
(* the saved one (get_job, is_unchanged_since).  Only a cold read that     *)
(* waited for the lock may put a finished iteration over the one after it, *)
(* and that is never served without asking the store again.                *)
(***************************************************************************)
EntryMovesForward ==
    [][cache # NoJob /\ cache' # NoJob =>
        AtLeast(cache', cache) \/ cache'.closed \/ cache'.iter \in revived']_vars

(***************************************************************************)
(* Once the store answers its reads, a worker that keeps polling holds the *)
(* newest job again and again, so that it has it for good when nobody      *)
(* writes any more: no entry, finished iteration, lost race or conflict    *)
(* keeps it at an outdated job for ever (get_job, the filter on            *)
(* is_processed and the cold read).                                        *)
(***************************************************************************)
EventuallyCurrent ==
    <>[][\A w \in Workers : ~ReadFails(w)]_vars =>
        \A w \in Workers :
            []<>(hand[w] = Newest \/ (hand[w].iter \in revived /\ ~hand[w].closed))

=============================================================================
