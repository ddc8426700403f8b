------------------------ MODULE JobsManager_proofs -------------------------
(***************************************************************************)
(* What the owner of a pool may rely on, for every set of jobs, workers    *)
(* and callers, every description and every interleaving with other        *)
(* processes: a wait is answered for an iteration that is over, a job      *)
(* nobody polls any more has its last iteration recorded, and what build   *)
(* lets through is what was described and can run.                         *)
(*                                                                         *)
(* The argument: a stored job only moves forward (Passed is stable), and   *)
(* what a worker holds, records or reports was over when it said so.  That *)
(* the iterations ended travels from the worker that recorded the last one *)
(* through its report and an overwritten poll to the slot of the job.      *)
(*                                                                         *)
(* Of build: the stack of the search holds a path along the dependencies,  *)
(* and a position that is done leads only to positions that are.  So an    *)
(* edge back to the stack closes a cycle, and a search that ends without   *)
(* one has shown that there is none.                                       *)
(***************************************************************************)
EXTENDS JobsManager, Extrema, SequenceTheorems, FiniteSetTheorems, TLAPS

-----------------------------------------------------------------------------
(* The inductive invariant *)

Stored == [number : Nat, isOpen : BOOLEAN]
Slots == [kind : {"Queued", "Claimed", "Exhausted"}, due : Nat \cup {Pool!Never, Pool!NoDue}]
Polls == [interval : Nat, slot : Slots]
Kinds == {"IterationsEnded", "NextIterationDueAt", "TaskPickable", "RetryDueAt", "NothingPickable",
          "Stalled"}
Reports == [kind : Kinds \cup {"None"}, at : Nat]
Turns == {"Unread", "Unrecorded", "Due", "Behind", "Open", "Settled", "Closed"}

\* The places where a report waits to be joined, and where a worker holds an iteration.
Reported == {"Started", "NotStarted", "Executed"}
Holding == {"Starting", "Started", "ToExecute", "Executing"}

PoolTyped ==
    /\ polls \in [Jobs -> Polls] /\ queue \in Seq(Jobs)
    /\ place \in [Workers -> Pool!PlaceOf] /\ job \in [Workers -> Jobs \cup {NoJob}]
    /\ report \in [Workers -> Reports]

WorkTyped ==
    /\ budget \in [Jobs -> (Nat \ {0}) \cup {Unset}]
    /\ stored \in [Jobs -> Stored] /\ held \in [Workers -> Stored] /\ turn \in [Workers -> Turns]
    /\ finished \in [Jobs -> Nat]
    /\ waits \in [Waiters -> [state : WaitStates, job : Jobs \cup {NoJob}, goal : Nat, read : Nat]]

\* What build has let through so far: nothing but its settings matters here.
BuildSound ==
    /\ building \in Nat \ {0}
    /\ phase \in {"Jobs", "Searching", "Refused", "Built", "Started"}
    /\ phase # "Started" =>
        /\ description \in Descriptions
        /\ \A n \in DOMAIN description.jobs :
                n < building => Builder!SettingsFlaw(description.jobs[n]) = "None"
    /\ phase = "Built" => building \notin DOMAIN description.jobs

\* Nothing runs before start.
NotStartedYet ==
    phase # "Started" => /\ handle = "None" /\ \A j \in Jobs : polls[j].slot = Pool!Queued(0)
                         /\ \A w \in Workers : place[w] = "Idle"

\* Iteration number of job j is over in the store.
Passed(j, number) ==
    stored[j].number > number \/ (stored[j].number = number /\ ~stored[j].isOpen)

\* The last iteration of job j is recorded.
Spent(j) == budget[j] \in Nat /\ finished[j] >= budget[j]

\* The slot, or what an execution asked for while it was claimed, says never.
SaysNever(slot) == slot.kind = "Exhausted" \/ slot.due = Pool!Never

WorkerSound(w) ==
    /\ place[w] # "Idle" => job[w] \in Jobs
    /\ place[w] \notin Holding => turn[w] = "Unread"
    /\ place[w] \in Reported => /\ report[w].kind # "None"
                                /\ report[w].kind = "IterationsEnded" => Spent(job[w])
    /\ turn[w] \notin {"Unread", "Open"} => Passed(job[w], held[w].number)
    /\ turn[w] \in {"Due", "Closed"} => finished[job[w]] >= held[w].number

JobSound(j) ==
    /\ finished[j] > 0 => Passed(j, finished[j])
    /\ SaysNever(polls[j].slot) => Spent(j)

WaitSound(x) ==
    /\ IsWaiting(x) \/ waits[x].state = "Answered" => waits[x].job \in Jobs /\ waits[x].goal > 0
    /\ waits[x].state = "Answered" => waits[x].read >= waits[x].goal /\ Passed(waits[x].job, waits[x].read)

Inv ==
    /\ PoolTyped /\ WorkTyped /\ BuildSound /\ NotStartedYet
    /\ \A w \in Workers : WorkerSound(w)
    /\ \A j \in Jobs : JobSound(j)
    /\ \A x \in Waiters : WaitSound(x)

-----------------------------------------------------------------------------
(* What the schedule makes of a report *)

\* Only a report that the iterations ended asks for no poll at all (calculate_poll).
LEMMA RequestedDueType ==
    ASSUME NEW progress \in Reports, progress.kind # "None", NEW interval \in Nat, NEW jitter \in Jitters
    PROVE  /\ Pool!RequestedDue(progress, interval, jitter) \in Nat \cup {Pool!Never}
           /\ Pool!RequestedDue(progress, interval, jitter) = Pool!Never => progress.kind = "IterationsEnded"
           /\ Pool!RequestedInterval(progress, interval) \in Nat
BY ManagerAssumption
   DEF Pool!RequestedDue, Pool!RequestedInterval, Pool!Never, Pool!PollAt, Pool!BackedOff, Pool!Earlier,
       Reports, Kinds

\* Never is asked for by one of the two that are merged (PollDue::merge).
LEMMA MergeType ==
    ASSUME NEW first \in Nat \cup {Pool!Never, Pool!NoDue}, NEW second \in Nat \cup {Pool!Never, Pool!NoDue}
    PROVE  /\ Pool!Merge(first, second) \in Nat \cup {Pool!Never, Pool!NoDue}
           /\ Pool!Merge(first, second) = Pool!Never => Pool!Never \in {first, second}
BY DEF Pool!Merge, Pool!Earlier, Pool!Never, Pool!NoDue

\* A slot says never only if the poll it is made for does.
LEMMA ScheduledPollType ==
    ASSUME NEW due \in Nat \cup {Pool!Never, Pool!NoDue}
    PROVE  /\ Pool!ScheduledPoll(due) \in Slots
           /\ SaysNever(Pool!ScheduledPoll(due)) => due = Pool!Never
BY DEF Pool!ScheduledPoll, Pool!Exhausted, Pool!Queued, Pool!Never, Pool!NoDue, Slots, SaysNever

\* A claim that goes back says never only if it said so or the report does (JobPoll::release).
LEMMA ReleasedType ==
    ASSUME NEW poll \in Polls, NEW progress \in Reports, progress.kind # "None", NEW jitter \in Jitters
    PROVE  /\ Pool!Released(poll, progress, jitter) \in Polls
           /\ SaysNever(Pool!Released(poll, progress, jitter).slot) =>
                SaysNever(poll.slot) \/ progress.kind = "IterationsEnded"
<1> DEFINE due == Pool!RequestedDue(progress, poll.interval, jitter)
           step == Pool!RequestedInterval(progress, poll.interval)
<1>1. poll.interval \in Nat /\ poll.slot \in Slots /\ poll.slot.due \in Nat \cup {Pool!Never, Pool!NoDue}
  BY DEF Polls, Slots
<1>2. due \in Nat \cup {Pool!Never} /\ (due = Pool!Never => progress.kind = "IterationsEnded") /\ step \in Nat
  BY <1>1, RequestedDueType
<1> HIDE DEF due, step
<1>3. CASE poll.slot.due = Pool!NoDue
  <2>1. Pool!Released(poll, progress, jitter) = [interval |-> step, slot |-> Pool!ScheduledPoll(due)]
    BY <1>3 DEF Pool!Released, due, step
  <2> QED BY <1>2, <2>1, ScheduledPollType DEF Polls
<1>4. CASE poll.slot.due # Pool!NoDue
  <2>1. Pool!Released(poll, progress, jitter)
            = [interval |-> BaseInterval, slot |-> Pool!ScheduledPoll(Pool!Merge(due, poll.slot.due))]
    BY <1>4 DEF Pool!Released, due
  <2>2. /\ Pool!Merge(due, poll.slot.due) \in Nat \cup {Pool!Never, Pool!NoDue}
        /\ Pool!Merge(due, poll.slot.due) = Pool!Never => Pool!Never \in {due, poll.slot.due}
    BY <1>1, <1>2, MergeType
  <2> DEFINE merged == Pool!Merge(due, poll.slot.due)
  <2>3. Pool!ScheduledPoll(merged) \in Slots /\ (SaysNever(Pool!ScheduledPoll(merged)) => merged = Pool!Never)
    <3> HIDE DEF merged
    <3> QED BY ONLY <2>2, ScheduledPollType DEF merged
  <2>4. BaseInterval \in Nat
    BY ManagerAssumption
  <2>5. merged = Pool!Never => SaysNever(poll.slot) \/ progress.kind = "IterationsEnded"
    BY <1>2, <2>2 DEF SaysNever
  <2> HIDE DEF merged
  <2>6. /\ Pool!Released(poll, progress, jitter) = [interval |-> BaseInterval, slot |-> Pool!ScheduledPoll(merged)]
    BY <2>1 DEF merged
  <2>7. Pool!Released(poll, progress, jitter).slot = Pool!ScheduledPoll(merged)
    BY <2>6
  <2>8. Pool!Released(poll, progress, jitter) \in Polls
    BY <2>3, <2>4, <2>6 DEF Polls
  <2> QED BY <2>3, <2>5, <2>7, <2>8
<1> QED BY <1>3, <1>4

\* So does a job whose execution ended, claimed or not (JobPoll::reschedule).
LEMMA RescheduledType ==
    ASSUME NEW poll \in Polls, NEW progress \in Reports, progress.kind # "None", NEW jitter \in Jitters
    PROVE  /\ Pool!Rescheduled(poll, progress, jitter) \in Polls
           /\ SaysNever(Pool!Rescheduled(poll, progress, jitter).slot) =>
                SaysNever(poll.slot) \/ progress.kind = "IterationsEnded"
<1> DEFINE due == Pool!RequestedDue(progress, poll.interval, jitter)
           asked == poll.slot.due
           closed == progress.kind \in {"IterationsEnded", "NextIterationDueAt"}
           claimed == IF asked = Pool!NoDue THEN due ELSE Pool!Merge(asked, due)
           queued == IF closed THEN due ELSE Pool!Merge(asked, due)
<1>1. /\ poll.interval \in Nat /\ poll.slot \in Slots /\ asked \in Nat \cup {Pool!Never, Pool!NoDue}
      /\ poll.slot.kind \in {"Queued", "Claimed", "Exhausted"}
  BY DEF Polls, Slots
<1>2. due \in Nat \cup {Pool!Never} /\ (due = Pool!Never => progress.kind = "IterationsEnded")
  BY <1>1, RequestedDueType
<1>3. /\ claimed \in Nat \cup {Pool!Never, Pool!NoDue} /\ queued \in Nat \cup {Pool!Never, Pool!NoDue}
      /\ claimed = Pool!Never \/ queued = Pool!Never => Pool!Never \in {due, asked}
  <2> HIDE DEF due, asked
  <2> QED BY <1>1, <1>2, MergeType
<1>4. CASE poll.slot.kind = "Exhausted"
  BY <1>4 DEF Pool!Rescheduled
<1>5. CASE poll.slot.kind = "Claimed"
  <2>1. Pool!Rescheduled(poll, progress, jitter) = [poll EXCEPT !.slot = Pool!Claimed(claimed)]
    BY <1>5 DEF Pool!Rescheduled
  <2> HIDE DEF claimed, queued, due
  <2> QED BY <1>2, <1>3, <2>1 DEF Polls, Slots, SaysNever, Pool!Claimed
<1>6. CASE poll.slot.kind = "Queued"
  <2>1. Pool!Rescheduled(poll, progress, jitter)
            = [interval |-> BaseInterval, slot |-> Pool!ScheduledPoll(queued)]
    BY <1>6 DEF Pool!Rescheduled
  <2> HIDE DEF claimed, queued, due
  <2> QED BY <1>2, <1>3, <2>1, ScheduledPollType, ManagerAssumption DEF Polls, SaysNever
<1> QED BY <1>1, <1>4, <1>5, <1>6

\* The queue stays a queue of jobs.
LEMMA RequeuedType ==
    ASSUME NEW q \in Seq(Jobs), NEW before, NEW after, NEW j \in Jobs,
           NEW next \in Pool!Requeued(q, before, after, j)
    PROVE  next \in Seq(Jobs)
<1> DEFINE others == Pool!Without(q, j)
<1>1. others \in Seq(Jobs)
  <2>1. CASE \A n \in DOMAIN q : q[n] # j
    BY <2>1 DEF Pool!Without
  <2>2. CASE \E n \in DOMAIN q : q[n] = j
    <3> DEFINE n == CHOOSE n \in DOMAIN q : q[n] = j
    <3>1. n \in 1 .. Len(q) /\ others = Pool!RemovedAt(q, n)
      BY <2>2 DEF Pool!Without
    <3> HIDE DEF n
    <3>2. SubSeq(q, 1, n - 1) \in Seq(Jobs) /\ SubSeq(q, n + 1, Len(q)) \in Seq(Jobs)
      BY <3>1, SubSeqProperties
    <3> QED BY <3>1, <3>2, ConcatProperties DEF Pool!RemovedAt
  <2> QED BY <2>1, <2>2
<1> HIDE DEF others
<1>2. ASSUME NEW n \in 0 .. Len(others)
      PROVE  Pool!InsertAt(others, n, j) \in Seq(Jobs)
  <2>1. SubSeq(others, 1, n) \in Seq(Jobs) /\ SubSeq(others, n + 1, Len(others)) \in Seq(Jobs)
    BY <1>1, <1>2, SubSeqProperties
  <2>2. <<j>> \in Seq(Jobs)
    OBVIOUS
  <2>3. SubSeq(others, 1, n) \o <<j>> \in Seq(Jobs)
    BY <2>1, <2>2, ConcatProperties
  <2> QED BY <2>1, <2>3, ConcatProperties DEF Pool!InsertAt
<1>3. Pool!Places(others, after, j) \subseteq 0 .. Len(others)
  BY DEF Pool!Places, Pool!PlacesAnywhere
<1> QED BY <1>1, <1>2, <1>3 DEF Pool!Requeued, others

-----------------------------------------------------------------------------
(* What moves forward *)

\* The store and the record of finished iterations only move forward, and no budget changes.
Advances ==
    /\ budget' = budget
    /\ \A j \in Jobs :
        /\ finished'[j] >= finished[j]
        /\ \/ stored'[j].number > stored[j].number
           \/ stored'[j].number = stored[j].number /\ (~stored[j].isOpen => ~stored'[j].isOpen)

\* What is over stays over, and a budget that is spent stays spent.
LEMMA OverStaysOver ==
    ASSUME WorkTyped, WorkTyped', Advances, NEW j \in Jobs
    PROVE  /\ \A number \in Nat : Passed(j, number) => Passed(j, number)'
           /\ Spent(j) => Spent(j)'
<1>1. /\ stored[j].number \in Nat /\ stored'[j].number \in Nat
      /\ stored[j].isOpen \in BOOLEAN /\ stored'[j].isOpen \in BOOLEAN
      /\ finished[j] \in Nat /\ finished'[j] \in Nat
  BY DEF WorkTyped, Stored
<1>2. /\ budget' = budget /\ finished'[j] >= finished[j]
      /\ \/ stored'[j].number > stored[j].number
         \/ stored'[j].number = stored[j].number /\ (~stored[j].isOpen => ~stored'[j].isOpen)
  BY DEF Advances
<1>3. ASSUME NEW number \in Nat, Passed(j, number)
      PROVE  Passed(j, number)'
  BY <1>1, <1>2, <1>3 DEF Passed
<1>4. Spent(j) => Spent(j)'
  BY <1>1, <1>2 DEF Spent
<1> QED BY <1>3, <1>4

\* A worker that does nothing stays sound while others advance.
LEMMA WorkerStays ==
    ASSUME WorkTyped, WorkTyped', Advances, NEW w \in Workers, WorkerSound(w),
           place'[w] = place[w], job'[w] = job[w], turn'[w] = turn[w], held'[w] = held[w],
           report'[w].kind = report[w].kind
    PROVE  WorkerSound(w)'
<1>1. CASE place[w] = "Idle"
  BY <1>1 DEF WorkerSound, Reported, Holding
<1>2. CASE place[w] # "Idle"
  <2>1. job[w] \in Jobs /\ held[w].number \in Nat
    BY <1>2 DEF WorkerSound, WorkTyped, Stored
  <2>2. /\ Passed(job[w], held[w].number) => Passed(job[w], held[w].number)'
        /\ Spent(job[w]) => Spent(job[w])'
        /\ finished'[job[w]] >= finished[job[w]]
        /\ finished'[job[w]] \in Nat /\ finished[job[w]] \in Nat
    <3> DEFINE j == job[w]
               number == held[w].number
    <3>1. j \in Jobs /\ number \in Nat
      BY <2>1
    <3>2. (Passed(j, number) => Passed(j, number)') /\ (Spent(j) => Spent(j)')
      <4> SUFFICES ASSUME NEW i \in Jobs, NEW n \in Nat
                   PROVE  /\ Passed(i, n) => Passed(i, n)'
                          /\ Spent(i) => Spent(i)'
        BY <3>1 DEF Passed, Spent
      <4> QED BY OverStaysOver
    <3> QED BY <2>1, <3>2 DEF Advances, WorkTyped, Passed, Spent
  <2> QED BY <1>2, <2>1, <2>2 DEF WorkerSound, Passed, Spent
<1> QED BY <1>1, <1>2

\* So does a job whose slot is not told never meanwhile.
LEMMA JobStays ==
    ASSUME WorkTyped, WorkTyped', Advances, NEW j \in Jobs, JobSound(j), finished'[j] = finished[j],
           SaysNever(polls'[j].slot) => SaysNever(polls[j].slot) \/ Spent(j)
    PROVE  JobSound(j)'
<1>1. finished[j] \in Nat
  BY DEF WorkTyped
<1>2. /\ Passed(j, finished[j]) => stored'[j].number > finished[j]
                                    \/ (stored'[j].number = finished[j] /\ ~stored'[j].isOpen)
      /\ Spent(j) => Spent(j)'
  <2>1. ASSUME NEW n \in Nat, Passed(j, n)
        PROVE  stored'[j].number > n \/ (stored'[j].number = n /\ ~stored'[j].isOpen)
    BY <2>1, OverStaysOver DEF Passed
  <2> QED BY <1>1, <2>1, OverStaysOver
<1> QED BY <1>2 DEF JobSound, Passed, SaysNever

\* And a wait nobody touches.
LEMMA WaitStays ==
    ASSUME WorkTyped, WorkTyped', Advances, NEW x \in Waiters, WaitSound(x), waits'[x] = waits[x]
    PROVE  WaitSound(x)'
<1>1. CASE waits[x].state # "Answered"
  BY <1>1 DEF WaitSound, IsWaiting
<1>2. CASE waits[x].state = "Answered"
  <2>1. waits[x].job \in Jobs /\ waits[x].read \in Nat /\ Passed(waits[x].job, waits[x].read)
    BY <1>2 DEF WaitSound, WorkTyped
  <2>2. ASSUME NEW j \in Jobs, NEW n \in Nat, Passed(j, n)
        PROVE  stored'[j].number > n \/ (stored'[j].number = n /\ ~stored'[j].isOpen)
    BY <2>2, OverStaysOver DEF Passed
  <2>3. \/ stored'[waits[x].job].number > waits[x].read
        \/ stored'[waits[x].job].number = waits[x].read /\ ~stored'[waits[x].job].isOpen
    BY <2>1, <2>2
  <2> QED BY <2>1, <2>3 DEF WaitSound, Passed, IsWaiting
<1> QED BY <1>1, <1>2

\* A step that leaves the work alone advances it.
LEMMA StandingStill ==
    ASSUME WorkTyped, stored' = stored, finished' = finished, budget' = budget
    PROVE  Advances
<1>1. \A j \in Jobs : finished[j] \in Nat /\ stored[j].number \in Nat
  BY DEF WorkTyped, Stored
<1> QED BY <1>1 DEF Advances

-----------------------------------------------------------------------------
(* Building and starting *)

\* A definition is built only with settings that have no flaw (build_definition).
LEMMA BuildsKeepSound ==
    ASSUME BuildSound, Builder!Next
    PROVE  BuildSound' /\ phase # "Started"
<1>1. phase \in {"Jobs", "Searching"} /\ description \in Descriptions /\ building \in Nat \ {0}
  BY DEF BuildSound, Builder!Next, Builder!BuildDefinition, Builder!SearchFrom, Builder!SearchEdge,
         Builder!EndDefinition, Builder!Build
<1>2. CASE description' = description /\ building' = building /\ phase' \in {"Jobs", "Searching", "Refused"}
  BY <1>1, <1>2 DEF BuildSound
<1>3. CASE Builder!BuildDefinition
  BY <1>1, <1>2, <1>3 DEF Builder!BuildDefinition, Builder!Refuse
<1>4. CASE Builder!SearchFrom
  BY <1>1, <1>2, <1>4 DEF Builder!SearchFrom
<1>5. CASE Builder!SearchEdge
  <2>1. \/ UNCHANGED <<description, phase, building>>
        \/ phase' = "Refused" /\ UNCHANGED <<description, building>>
    BY <1>5 DEF Builder!SearchEdge, Builder!Refuse
  <2> QED BY <1>1, <1>2, <2>1
<1>6. CASE Builder!EndDefinition
  <2>1. CASE Builder!SettingsFlaw(Builder!Described) # "None"
    BY <1>1, <1>2, <1>6, <2>1 DEF Builder!EndDefinition, Builder!Refuse
  <2>2. CASE Builder!SettingsFlaw(Builder!Described) = "None"
    <3>1. phase' = "Jobs" /\ building' = building + 1 /\ description' = description
      BY <1>6, <2>2 DEF Builder!EndDefinition
    <3>2. Builder!SettingsFlaw(description.jobs[building]) = "None"
      BY <2>2 DEF Builder!Described
    <3>3. \A n \in DOMAIN description.jobs : n \in Nat
      <4>1. description.jobs \in Seq(Builder!Range(description.jobs))
        BY <1>1, ManagerAssumption DEF Builder!IsDescription, Builder!IsVec
      <4> QED BY <4>1
    <3>4. \A n \in DOMAIN description.jobs :
                n < building + 1 => Builder!SettingsFlaw(description.jobs[n]) = "None"
      BY <1>1, <3>2, <3>3 DEF BuildSound
    <3> QED BY <1>1, <3>1, <3>4 DEF BuildSound
  <2> QED BY <2>1, <2>2
<1>7. CASE Builder!Build
  <2>1. \/ phase' = "Refused" /\ UNCHANGED <<description, building>>
        \/ phase' = "Built" /\ UNCHANGED <<description, building>>
    BY <1>7 DEF Builder!Build, Builder!Refuse
  <2>2. building \notin DOMAIN description.jobs
    BY <1>7 DEF Builder!Build
  <2> QED BY <1>1, <2>1, <2>2 DEF BuildSound
<1> QED BY <1>1, <1>3, <1>4, <1>5, <1>6, <1>7 DEF Builder!Next

LEMMA BuildsKeep ==
    ASSUME Inv, Builds
    PROVE  Inv'
<1> USE DEF Inv
<1>1. /\ UNCHANGED <<polls, queue, place, job, report, stored, held, turn, budget, finished, handle, waits>>
      /\ Builder!Next
  BY DEF Builds, poolVars, workVars
<1>2. BuildSound' /\ phase # "Started"
  BY <1>1, BuildsKeepSound
<1>3. PoolTyped' /\ WorkTyped'
  BY <1>1 DEF PoolTyped, WorkTyped
<1>4. NotStartedYet'
  BY <1>1, <1>2 DEF NotStartedYet
<1>5. \A w \in Workers : WorkerSound(w)'
  BY <1>1 DEF WorkerSound, Passed, Spent
<1>6. \A j \in Jobs : JobSound(j)'
  BY <1>1 DEF JobSound, Passed, Spent
<1>7. \A x \in Waiters : WaitSound(x)'
  BY <1>1 DEF WaitSound, Passed, IsWaiting
<1> QED BY <1>2, <1>3, <1>4, <1>5, <1>6, <1>7

\* A definition that was built has a budget somebody can spend, or none (with_max_iterations).
LEMMA BuiltBudget ==
    ASSUME BuildSound, phase = "Built", NEW n \in DOMAIN description.jobs
    PROVE  description.jobs[n].budget \in (Nat \ {0}) \cup {Unset}
<1>1. description \in Descriptions /\ building \in Nat \ {0} /\ building \notin DOMAIN description.jobs
  BY DEF BuildSound
<1>2. Builder!IsDescription(description)
  BY <1>1, ManagerAssumption
<1>3. description.jobs \in Seq(Builder!Range(description.jobs))
  BY <1>2 DEF Builder!IsDescription, Builder!IsVec
<1>4. DOMAIN description.jobs = 1 .. Len(description.jobs) /\ Len(description.jobs) \in Nat
  BY <1>3
<1>5. n < building
  BY <1>1, <1>4
<1>6. Builder!SettingsFlaw(description.jobs[n]) = "None"
  BY <1>5 DEF BuildSound
<1>7. description.jobs[n].budget \in Nat \cup {Unset}
  BY <1>2 DEF Builder!IsDescription, Builder!IsJobBuilder
<1>8. ~(description.jobs[n].budget # Unset /\ description.jobs[n].budget = 0)
  BY <1>6 DEF Builder!SettingsFlaw
<1> QED BY <1>7, <1>8

\* start hands over the budgets; nobody has worked or been given up yet.
LEMMA StartKeeps ==
    ASSUME Inv, Start
    PROVE  Inv'
<1> USE DEF Inv
<1>1. /\ UNCHANGED <<polls, queue, place, job, report, stored, held, turn, finished, waits>>
      /\ phase = "Built" /\ phase' = "Started" /\ building' = 1
      /\ budget' = [j \in Jobs |-> DefinitionOf(j).budget]
  BY DEF Start, poolVars, workVars
<1>2. ASSUME NEW j \in Jobs
      PROVE  DefinitionOf(j).budget \in (Nat \ {0}) \cup {Unset}
  <2> DEFINE n == CHOOSE n \in DOMAIN description.jobs : description.jobs[n].code = <<j>>
  <2>1. <<j>> \in {description.jobs[i].code : i \in DOMAIN description.jobs}
    BY DEF Start
  <2>2. \E i \in DOMAIN description.jobs : description.jobs[i].code = <<j>>
    BY <2>1
  <2>3. n \in DOMAIN description.jobs
    BY <2>2
  <2>4. DefinitionOf(j) = description.jobs[n]
    BY DEF DefinitionOf
  <2> HIDE DEF n
  <2> QED BY <1>1, <2>3, <2>4, BuiltBudget
<1>3. PoolTyped' /\ WorkTyped'
  <2>1. PoolTyped'
    BY <1>1 DEF PoolTyped
  <2>2. budget' \in [Jobs -> (Nat \ {0}) \cup {Unset}]
    BY <1>1, <1>2
  <2> QED BY <1>1, <2>1, <2>2 DEF WorkTyped
<1>4. BuildSound' /\ NotStartedYet'
  BY <1>1 DEF BuildSound, NotStartedYet
<1>5. (\A w \in Workers : place[w] = "Idle") /\ (\A j \in Jobs : ~SaysNever(polls[j].slot))
  BY <1>1 DEF NotStartedYet, SaysNever, Pool!Queued, Pool!Never
<1>6. \A w \in Workers : WorkerSound(w)'
  BY <1>1, <1>5 DEF WorkerSound, Reported, Holding
<1>7. \A j \in Jobs : JobSound(j)'
  BY <1>1, <1>5 DEF JobSound, Passed, SaysNever
<1>8. \A x \in Waiters : WaitSound(x)'
  BY <1>1 DEF WaitSound, Passed, IsWaiting
<1> QED BY <1>3, <1>4, <1>6, <1>7, <1>8

-----------------------------------------------------------------------------
(* The workers *)

\* The iterations a worker reads and writes are iterations.
LEMMA IterationType ==
    ASSUME NEW number \in Nat, NEW isOpen \in BOOLEAN
    PROVE  /\ Iteration(number, isOpen) \in Stored
           /\ Iteration(number, isOpen).number = number /\ Iteration(number, isOpen).isOpen = isOpen
BY DEF Iteration, Stored

\* Work runs only after start.
LEMMA WorkersRun ==
    ASSUME Inv, NEW w \in Workers, place[w] # "Idle"
    PROVE  phase = "Started" /\ job[w] \in Jobs
BY DEF Inv, NotStartedYet, WorkerSound

\* Passed(j, number) in the next state, of a job and a number of this one.
PassedNext(j, number) ==
    stored'[j].number > number \/ (stored'[j].number = number /\ ~stored'[j].isOpen)

\* A worker holds another iteration, and what its turn says of it is true.
LEMMA HoldsKeeps ==
    ASSUME Inv, NEW w \in Workers, NEW iteration \in Stored, NEW next \in Turns,
           Holds(w, iteration, next), place[w] \in {"Starting", "Executing"},
           stored' \in [Jobs -> Stored], finished' \in [Jobs -> Nat], Advances,
           next \notin {"Unread", "Open"} => PassedNext(job[w], iteration.number),
           next \in {"Due", "Closed"} => finished'[job[w]] >= iteration.number,
           \A j \in Jobs : finished'[j] # finished[j] => PassedNext(j, finished'[j])
    PROVE  Inv'
<1>1. /\ PoolTyped /\ WorkTyped /\ BuildSound /\ NotStartedYet
      /\ WorkerSound(w) /\ \A v \in Workers : WorkerSound(v)
      /\ \A j \in Jobs : JobSound(j)
      /\ \A x \in Waiters : WaitSound(x)
  BY DEF Inv
<1>2. /\ held' = [held EXCEPT ![w] = iteration] /\ turn' = [turn EXCEPT ![w] = next]
      /\ UNCHANGED <<polls, queue, place, job, report, description, phase, building, budget, handle, waits>>
  BY DEF Holds, poolVars, buildVars
<1>3. PoolTyped' /\ BuildSound' /\ NotStartedYet'
  BY <1>1, <1>2 DEF PoolTyped, BuildSound, NotStartedYet
<1>4. WorkTyped'
  BY <1>1, <1>2 DEF WorkTyped
<1>5. ASSUME NEW v \in Workers
      PROVE  WorkerSound(v)'
  <2>1. CASE v # w
    <3>1. place'[v] = place[v] /\ job'[v] = job[v] /\ turn'[v] = turn[v] /\ held'[v] = held[v]
          /\ report'[v].kind = report[v].kind
      BY <1>1, <1>2, <2>1 DEF WorkTyped
    <3> QED BY <1>1, <1>4, <3>1, WorkerStays
  <2>2. CASE v = w
    <3>1. turn'[w] = next /\ held'[w] = iteration /\ job[w] \in Jobs
      BY <1>1, <1>2 DEF WorkTyped, WorkerSound
    <3> QED BY <1>2, <2>2, <3>1 DEF WorkerSound, Passed, PassedNext, Reported, Holding
  <2> QED BY <2>1, <2>2
<1>6. ASSUME NEW j \in Jobs
      PROVE  JobSound(j)'
  <2>1. CASE finished'[j] = finished[j]
    BY <1>1, <1>2, <1>4, <2>1, JobStays
  <2>2. CASE finished'[j] # finished[j]
    <3>1. Passed(j, finished[j])'
      BY <2>2 DEF Passed, PassedNext
    <3>2. SaysNever(polls[j].slot) => Spent(j)'
      BY <1>1, <1>4, OverStaysOver DEF JobSound
    <3> QED BY <1>2, <3>1, <3>2 DEF JobSound
  <2> QED BY <2>1, <2>2
<1>7. ASSUME NEW x \in Waiters
      PROVE  WaitSound(x)'
  BY <1>1, <1>2, <1>4, WaitStays
<1> QED BY <1>3, <1>4, <1>5, <1>6, <1>7 DEF Inv

\* What a worker may take for granted before it reads or writes.
LEMMA AtWork ==
    ASSUME Inv, NEW w \in Workers, place[w] # "Idle"
    PROVE  /\ job[w] \in Jobs /\ stored \in [Jobs -> Stored] /\ finished \in [Jobs -> Nat]
           /\ stored[job[w]] \in Stored /\ stored[job[w]].number \in Nat /\ stored[job[w]].isOpen \in BOOLEAN
           /\ held[w] \in Stored /\ held[w].number \in Nat /\ held[w].isOpen \in BOOLEAN
           /\ turn[w] \in Turns
<1>1. job[w] \in Jobs /\ WorkTyped
  BY DEF Inv, WorkerSound
<1> QED BY <1>1 DEF WorkTyped, Stored

\* A step that moves one stored job forward.
LEMMA OneMovesForward ==
    ASSUME WorkTyped, NEW j \in Jobs, NEW iteration \in Stored,
           stored' = [stored EXCEPT ![j] = iteration], finished' = finished, budget' = budget,
           \/ iteration.number > stored[j].number
           \/ iteration.number = stored[j].number /\ (~stored[j].isOpen => ~iteration.isOpen)
    PROVE  stored' \in [Jobs -> Stored] /\ Advances
<1>1. \A i \in Jobs : finished[i] \in Nat /\ stored[i].number \in Nat
  BY DEF WorkTyped, Stored
<1>2. stored' \in [Jobs -> Stored] /\ stored'[j] = iteration /\ \A i \in Jobs : i # j => stored'[i] = stored[i]
  BY DEF WorkTyped
<1>3. ASSUME NEW i \in Jobs
      PROVE  \/ stored'[i].number > stored[i].number
             \/ stored'[i].number = stored[i].number /\ (~stored[i].isOpen => ~stored'[i].isOpen)
  BY <1>2
<1>4. \A i \in Jobs : finished'[i] >= finished[i]
  BY <1>1
<1> QED BY <1>2, <1>3, <1>4 DEF Advances

LEMMA ReadJobKeeps ==
    ASSUME Inv, NEW w \in Workers, ReadJob(w)
    PROVE  Inv'
<1> DEFINE found == stored[job[w]]
           read == IF found = NoIteration THEN Iteration(1, TRUE) ELSE found
           next == IF IsProcessed(read) THEN "Unrecorded" ELSE "Open"
<1>1. place[w] = "Starting" /\ UNCHANGED finished /\ stored' = [stored EXCEPT ![job[w]] = read]
  BY DEF ReadJob
<1>2. /\ job[w] \in Jobs /\ stored \in [Jobs -> Stored] /\ finished \in [Jobs -> Nat]
      /\ found \in Stored /\ found.number \in Nat /\ found.isOpen \in BOOLEAN
  BY <1>1, AtWork
<1>3. read \in Stored /\ (read = found \/ (found.number = 0 /\ read.number = 1))
  BY <1>2, IterationType DEF NoIteration
<1>4. stored'[job[w]] = read
  BY <1>1, <1>2
<1>5. Holds(w, read, next)
  BY <1>4 DEF ReadJob
<1>6. budget' = budget
  BY <1>5 DEF Holds
<1>7. WorkTyped
  BY DEF Inv
<1> HIDE DEF read, found
<1>8. stored' \in [Jobs -> Stored] /\ Advances
  <2>1. \/ read.number > stored[job[w]].number
        \/ read.number = stored[job[w]].number /\ (~stored[job[w]].isOpen => ~read.isOpen)
    BY <1>2, <1>3 DEF found
  <2> QED BY <1>1, <1>2, <1>3, <1>6, <1>7, <2>1, OneMovesForward
<1>9. next \notin {"Unread", "Open"} => PassedNext(job[w], read.number)
  BY <1>4 DEF PassedNext, IsProcessed
<1>10. next \in Turns /\ next \notin {"Due", "Closed"}
  BY DEF Turns
<1> HIDE DEF next
<1> QED BY <1>1, <1>2, <1>3, <1>5, <1>8, <1>9, <1>10, HoldsKeeps

\* record_finished_iteration: the iteration that is recorded is over.
LEMMA RecordKeeps ==
    ASSUME Inv, NEW w \in Workers, RecordFinishedIteration(w)
    PROVE  Inv'
<1> DEFINE next == IF turn[w] = "Unrecorded" THEN "Due" ELSE "Closed"
<1>1. /\ place[w] \in {"Starting", "Executing"} /\ turn[w] \in {"Unrecorded", "Settled"}
      /\ UNCHANGED stored /\ Holds(w, held[w], next) /\ finished' = Recorded(job[w], held[w].number)
  BY DEF RecordFinishedIteration
<1>2. /\ job[w] \in Jobs /\ stored \in [Jobs -> Stored] /\ finished \in [Jobs -> Nat]
      /\ held[w] \in Stored /\ held[w].number \in Nat
  BY <1>1, AtWork
<1>3. PassedNext(job[w], held[w].number)
  BY <1>1 DEF Inv, WorkerSound, Passed, PassedNext
<1>4. /\ finished' \in [Jobs -> Nat] /\ finished'[job[w]] >= held[w].number
      /\ \A j \in Jobs : finished'[j] = finished[j] \/ (j = job[w] /\ finished'[j] = held[w].number)
      /\ \A j \in Jobs : finished'[j] >= finished[j]
  BY <1>1, <1>2 DEF Recorded
<1>5. budget' = budget
  BY <1>1 DEF Holds
<1>6. Advances
  <2>1. \A j \in Jobs : stored[j].number \in Nat
    BY <1>2 DEF Stored
  <2> QED BY <1>1, <1>4, <1>5, <2>1 DEF Advances
<1>7. \A j \in Jobs : finished'[j] # finished[j] => PassedNext(j, finished'[j])
  BY <1>3, <1>4 DEF PassedNext
<1>8. next \in Turns
  BY DEF Turns
<1> HIDE DEF next
<1> QED BY <1>1, <1>2, <1>3, <1>4, <1>6, <1>7, <1>8, HoldsKeeps

LEMMA StartNewKeeps ==
    ASSUME Inv, NEW w \in Workers, StartNewJobIteration(w)
    PROVE  Inv'
<1> DEFINE next == Iteration(held[w].number + 1, TRUE)
           found == stored[job[w]]
<1>1. place[w] = "Starting" /\ turn[w] = "Due" /\ UNCHANGED finished
  BY DEF StartNewJobIteration
<1>2. /\ job[w] \in Jobs /\ stored \in [Jobs -> Stored] /\ finished \in [Jobs -> Nat]
      /\ found \in Stored /\ found.isOpen \in BOOLEAN
      /\ held[w] \in Stored /\ held[w].number \in Nat
  BY <1>1, AtWork
<1>3. WorkTyped
  BY DEF Inv
<1>4. \A j \in Jobs : ~(finished'[j] # finished[j])
  BY <1>1
<1>5. CASE found = held[w]
  <2>1. stored' = [stored EXCEPT ![job[w]] = next] /\ Holds(w, next, "Open")
    BY <1>5 DEF StartNewJobIteration
  <2>2. next \in Stored /\ next.number > stored[job[w]].number
    <3>1. held[w].number + 1 \in Nat /\ held[w].number + 1 > held[w].number
      BY <1>2
    <3> QED BY <1>5, <3>1 DEF Iteration, Stored
  <2>3. budget' = budget
    BY <2>1 DEF Holds
  <2> HIDE DEF next, found
  <2>4. stored' \in [Jobs -> Stored] /\ Advances
    BY <1>1, <1>2, <1>3, <2>1, <2>2, <2>3, OneMovesForward
  <2>5. "Open" \in Turns
    BY DEF Turns
  <2> QED BY <1>1, <1>2, <1>4, <2>1, <2>2, <2>4, <2>5, HoldsKeeps
<1>6. CASE found # held[w]
  <2> DEFINE then == IF IsProcessed(found) THEN "Behind" ELSE "Open"
  <2>1. UNCHANGED stored /\ Holds(w, found, then)
    BY <1>6 DEF StartNewJobIteration
  <2>2. budget' = budget
    BY <2>1 DEF Holds
  <2>3. Advances
    BY <1>1, <1>3, <2>1, <2>2, StandingStill
  <2>4. then \notin {"Unread", "Open"} => PassedNext(job[w], found.number)
    BY <2>1 DEF PassedNext, IsProcessed
  <2>5. then \in Turns /\ then \notin {"Due", "Closed"}
    BY DEF Turns
  <2> HIDE DEF found, then
  <2> QED BY <1>1, <1>2, <1>4, <2>1, <2>3, <2>4, <2>5, HoldsKeeps
<1> QED BY <1>5, <1>6

LEMMA CloseKeeps ==
    ASSUME Inv, NEW w \in Workers, CloseIteration(w)
    PROVE  Inv'
<1> DEFINE closed == [stored[job[w]] EXCEPT !.isOpen = FALSE]
<1>1. place[w] \in {"Starting", "Executing"} /\ UNCHANGED finished
  BY DEF CloseIteration
<1>2. /\ job[w] \in Jobs /\ stored \in [Jobs -> Stored] /\ finished \in [Jobs -> Nat]
      /\ stored[job[w]] \in Stored /\ stored[job[w]].number \in Nat
  BY <1>1, AtWork
<1>3. stored' = [stored EXCEPT ![job[w]] = closed]
  BY DEF CloseIteration
<1>4. closed \in Stored /\ closed.number = stored[job[w]].number /\ ~closed.isOpen
  BY <1>2 DEF Stored
<1>5. stored'[job[w]] = closed
  BY <1>2, <1>3
<1>6. Holds(w, closed, "Settled")
  BY <1>5 DEF CloseIteration
<1>7. budget' = budget
  BY <1>6 DEF Holds
<1> HIDE DEF closed
<1>8. stored' \in [Jobs -> Stored] /\ Advances
  BY <1>1, <1>2, <1>3, <1>4, <1>7, OneMovesForward DEF Inv
<1>9. PassedNext(job[w], closed.number) /\ "Settled" \in Turns
  BY <1>4, <1>5 DEF PassedNext, Turns
<1>10. \A j \in Jobs : ~(finished'[j] # finished[j])
  BY <1>1
<1> QED BY <1>1, <1>2, <1>4, <1>6, <1>8, <1>9, <1>10, HoldsKeeps

\* The iterations ended only where the budget is spent and its last iteration recorded
\* (advance_job_iteration, job_iteration_settled).
LEMMA EndedIsSpent ==
    ASSUME Inv, NEW w \in Workers, place[w] \in Holding,
           NEW progress \in NotStartedProgress(w) \cup ExecutedProgress(w)
    PROVE  /\ progress \in Reports /\ progress.kind # "None"
           /\ progress.kind = "IterationsEnded" => Spent(job[w])
<1>1. /\ job[w] \in Jobs /\ finished[job[w]] \in Nat /\ held[w].number \in Nat
      /\ budget[job[w]] \in (Nat \ {0}) \cup {Unset} /\ WorkerSound(w)
  BY AtWork DEF Inv, WorkTyped, Holding
<1>2. turn[w] \in {"Due", "Closed"} /\ IsBudgetSpent(job[w], held[w]) => Spent(job[w])
  BY <1>1 DEF WorkerSound, IsBudgetSpent, Spent
<1>3. DueMoments \subseteq Nat
  BY ManagerAssumption
<1>4. ASSUME NEW kind \in Kinds
      PROVE  /\ Pool!Progress(kind) \in Reports /\ Pool!Progress(kind).kind = kind
             /\ \A p \in Pool!ProgressAt(kind) : p \in Reports /\ p.kind = kind
  BY <1>3 DEF Pool!Progress, Pool!ProgressAt, Reports
<1>5. ClosedProgress(w) = IF IsBudgetSpent(job[w], held[w]) THEN {Pool!Progress("IterationsEnded")}
                          ELSE Pool!ProgressAt("NextIterationDueAt") \cup {Pool!Progress("Stalled")}
  BY DEF ClosedProgress
<1>6. CASE progress \in NotStartedProgress(w)
  BY <1>2, <1>4, <1>5, <1>6 DEF NotStartedProgress, Kinds
<1>7. CASE progress \in ExecutedProgress(w)
  BY <1>2, <1>4, <1>7 DEF ExecutedProgress, Kinds
<1> QED BY <1>6, <1>7

-----------------------------------------------------------------------------
(* The pool *)

\* Nothing about worker w changes but when the moment it reported comes.
Untouched(w) ==
    /\ place'[w] = place[w] /\ job'[w] = job[w] /\ turn'[w] = turn[w] /\ held'[w] = held[w]
    /\ report'[w].kind = report[w].kind

\* A step that leaves the store, the record and the waits alone.
LEMMA PoolStepKeeps ==
    ASSUME Inv, phase = "Started",
           UNCHANGED <<description, phase, building, budget, stored, finished, waits>>,
           PoolTyped', held' \in [Workers -> Stored], turn' \in [Workers -> Turns],
           \A w \in Workers : Untouched(w) \/ WorkerSound(w)',
           \A j \in Jobs : SaysNever(polls'[j].slot) => SaysNever(polls[j].slot) \/ Spent(j)
    PROVE  Inv'
<1>1. /\ WorkTyped /\ BuildSound /\ \A w \in Workers : WorkerSound(w)
      /\ \A j \in Jobs : JobSound(j)
      /\ \A x \in Waiters : WaitSound(x)
  BY DEF Inv
<1>2. WorkTyped' /\ BuildSound' /\ NotStartedYet'
  BY <1>1 DEF WorkTyped, BuildSound, NotStartedYet
<1>3. Advances
  BY <1>1, StandingStill
<1>4. ASSUME NEW w \in Workers
      PROVE  WorkerSound(w)'
  <2>1. CASE Untouched(w)
    BY <1>1, <1>2, <1>3, <2>1, WorkerStays DEF Untouched
  <2> QED BY <2>1
<1>5. ASSUME NEW j \in Jobs
      PROVE  JobSound(j)'
  <2>1. SaysNever(polls'[j].slot) => SaysNever(polls[j].slot) \/ Spent(j)
    OBVIOUS
  <2> QED BY <1>1, <1>2, <1>3, <2>1, JobStays
<1>6. ASSUME NEW x \in Waiters
      PROVE  WaitSound(x)'
  BY <1>1, <1>2, <1>3, WaitStays
<1> QED BY <1>2, <1>4, <1>5, <1>6 DEF Inv

\* A worker comes back with a report that is true.
LEMMA EndsKeeps ==
    ASSUME Inv, NEW w \in Workers, NEW from \in Holding, NEW to \in Reported, NEW progress \in Reports,
           Pool!Ends(w, from, to, progress), progress.kind # "None",
           progress.kind = "IterationsEnded" => Spent(job[w]),
           UNCHANGED <<description, phase, building, budget, stored, finished, waits>>,
           \/ to = "Started" /\ UNCHANGED <<held, turn>>
           \/ LetsGo(w)
    PROVE  Inv'
<1>1. PoolTyped /\ WorkTyped /\ WorkerSound(w)
  BY DEF Inv
<1>2. /\ place[w] = from /\ place' = [place EXCEPT ![w] = to] /\ report' = [report EXCEPT ![w] = progress]
      /\ UNCHANGED <<polls, queue, job>>
  BY DEF Pool!Ends
<1>3. phase = "Started" /\ job[w] \in Jobs
  BY <1>2, WorkersRun DEF Holding
<1>4. PoolTyped'
  <2>1. to \in Pool!PlaceOf
    BY DEF Reported, Pool!PlaceOf
  <2> QED BY <1>1, <1>2, <2>1 DEF PoolTyped
<1>5. /\ held' \in [Workers -> Stored] /\ turn' \in [Workers -> Turns]
      /\ \A v \in Workers : v # w => held'[v] = held[v] /\ turn'[v] = turn[v]
      /\ to # "Started" => turn'[w] = "Unread"
      /\ turn'[w] = "Unread" \/ (turn'[w] = turn[w] /\ held'[w] = held[w])
  <2>1. NoIteration \in Stored /\ "Unread" \in Turns
    BY DEF NoIteration, Iteration, Stored, Turns
  <2> QED BY <1>1, <2>1 DEF WorkTyped, LetsGo
<1>6. ASSUME NEW v \in Workers
      PROVE  Untouched(v) \/ WorkerSound(v)'
  <2>1. CASE v # w
    BY <1>1, <1>2, <1>5, <2>1 DEF Untouched, PoolTyped
  <2>2. CASE v = w
    <3>1. place'[w] = to /\ report'[w] = progress /\ job'[w] = job[w]
      BY <1>1, <1>2 DEF PoolTyped
    <3>2. to \notin Holding => turn'[w] = "Unread"
      BY <1>5 DEF Reported, Holding
    <3>3. /\ turn'[w] \notin {"Unread", "Open"} => Passed(job[w], held[w].number)'
          /\ turn'[w] \in {"Due", "Closed"} => finished'[job'[w]] >= held'[w].number
      BY <1>1, <1>5, <3>1 DEF WorkerSound, Passed
    <3>4. progress.kind = "IterationsEnded" => Spent(job[w])'
      BY <3>1 DEF Spent
    <3> QED BY <1>3, <2>2, <3>1, <3>2, <3>3, <3>4 DEF WorkerSound
  <2> QED BY <2>1, <2>2
<1>7. \A j \in Jobs : SaysNever(polls'[j].slot) => SaysNever(polls[j].slot) \/ Spent(j)
  BY <1>2
<1> QED BY <1>3, <1>4, <1>5, <1>6, <1>7, PoolStepKeeps

\* The steps of a worker at work.
LEMMA WorksKeeps ==
    ASSUME Inv, NEW w \in Workers, Works(w)
    PROVE  Inv'
<1>1. CASE StartsTask(w)
  <2>1. /\ UNCHANGED <<description, phase, building, budget, stored, finished, waits, held, turn>>
        /\ \E progress \in Pool!StartedProgress : Pool!Ends(w, "Starting", "Started", progress)
    BY <1>1 DEF StartsTask, outside, buildVars, workVars
  <2>2. PICK progress \in Pool!StartedProgress : Pool!Ends(w, "Starting", "Started", progress)
    BY <2>1
  <2>3. progress \in Reports /\ progress.kind \notin {"None", "IterationsEnded"}
    BY DEF Pool!StartedProgress, Pool!Progress, Reports, Kinds
  <2>4. "Starting" \in Holding /\ "Started" \in Reported
    BY DEF Holding, Reported
  <2> QED BY <2>1, <2>2, <2>3, <2>4, EndsKeeps
<1>2. ASSUME StartsNoTask(w) \/ EndsExecution(w)
      PROVE  Inv'
  <2>1. /\ UNCHANGED <<description, phase, building, budget, stored, finished, waits>> /\ LetsGo(w)
        /\ \E progress \in NotStartedProgress(w) \cup ExecutedProgress(w) :
                \/ Pool!Ends(w, "Starting", "NotStarted", progress)
                \/ Pool!Ends(w, "Executing", "Executed", progress)
    BY <1>2 DEF StartsNoTask, EndsExecution, buildVars
  <2>2. PICK progress \in NotStartedProgress(w) \cup ExecutedProgress(w) :
                \/ Pool!Ends(w, "Starting", "NotStarted", progress)
                \/ Pool!Ends(w, "Executing", "Executed", progress)
    BY <2>1
  <2>3. place[w] \in Holding
    BY <2>2 DEF Pool!Ends, Holding
  <2>4. /\ progress \in Reports /\ progress.kind # "None"
        /\ progress.kind = "IterationsEnded" => Spent(job[w])
    BY <2>3, EndedIsSpent
  <2>5. {"Starting", "Executing"} \subseteq Holding /\ {"NotStarted", "Executed"} \subseteq Reported
    BY DEF Holding, Reported
  <2> QED BY <2>1, <2>2, <2>4, <2>5, EndsKeeps
<1> QED BY <1>1, <1>2, ReadJobKeeps, RecordKeeps, StartNewKeeps, CloseKeeps DEF Works

\* A step that touches no worker and no schedule: a sleep, a wake-up, a cancellation, the end.
LEMMA QuietStepKeeps ==
    ASSUME Inv, phase = "Started",
           UNCHANGED <<polls, queue, place, job, report, description, phase, building, budget, stored, held,
                       turn, finished, waits>>
    PROVE  Inv'
<1>1. PoolTyped' /\ held' \in [Workers -> Stored] /\ turn' \in [Workers -> Turns]
  BY DEF Inv, PoolTyped, WorkTyped
<1>2. \A w \in Workers : Untouched(w)
  BY DEF Untouched
<1> QED BY <1>1, <1>2, PoolStepKeeps

\* What LoopTurns and AbortPool leave alone.
LEMMA OutsideStays ==
    ASSUME UNCHANGED outside
    PROVE  UNCHANGED <<description, phase, building, budget, stored, held, turn, finished, waits>>
BY DEF outside, buildVars, workVars

LEMMA LoopKeeps ==
    ASSUME Inv, phase = "Started", Pool!Loop, UNCHANGED outside
    PROVE  Inv'
<1>1. UNCHANGED <<description, phase, building, budget, stored, held, turn, finished, waits>>
  BY OutsideStays
<1>2. PoolTyped /\ WorkTyped /\ \A w \in Workers : WorkerSound(w)
  BY DEF Inv
<1>3. held' \in [Workers -> Stored] /\ turn' \in [Workers -> Turns]
  BY <1>1, <1>2 DEF WorkTyped
<1>4. CASE Pool!StartExecutions
  <2>1. CASE UNCHANGED place
    BY <1>1, <1>4, <2>1, QuietStepKeeps DEF Pool!StartExecutions
  <2>2. CASE place' = [w \in Workers |-> IF place[w] = "ToExecute" THEN "Executing" ELSE place[w]]
    <3>1. UNCHANGED <<polls, queue, job, report>>
      BY <1>4 DEF Pool!StartExecutions
    <3>2. PoolTyped'
      BY <1>2, <2>2, <3>1 DEF PoolTyped, Pool!PlaceOf
    <3>3. ASSUME NEW w \in Workers
          PROVE  Untouched(w) \/ WorkerSound(w)'
      <4>1. CASE place[w] # "ToExecute"
        BY <1>1, <2>2, <3>1, <4>1 DEF Untouched
      <4>2. CASE place[w] = "ToExecute"
        <5>1. place'[w] = "Executing"
          BY <2>2, <4>2
        <5> QED BY <1>1, <1>2, <3>1, <4>2, <5>1 DEF WorkerSound, Passed, Reported, Holding
      <4> QED BY <4>1, <4>2
    <3> QED BY <1>1, <1>3, <3>1, <3>2, <3>3, PoolStepKeeps
  <2> QED BY <1>4, <2>1, <2>2 DEF Pool!StartExecutions
<1>5. CASE Pool!ClaimDueJob
  <2> DEFINE j == Head(queue)
  <2>1. PICK w \in Workers : /\ place[w] = "Idle" /\ place' = [place EXCEPT ![w] = "Starting"]
                             /\ job' = [job EXCEPT ![w] = j]
    BY <1>5 DEF Pool!ClaimDueJob, Pool!IdleWorkers
  <2>2. /\ polls' = [polls EXCEPT ![j].slot = Pool!Claimed(Pool!NoDue)] /\ queue' = Tail(queue)
        /\ UNCHANGED report /\ queue # <<>>
    BY <1>5 DEF Pool!ClaimDueJob, Pool!IsJobDue
  <2>3. j \in Jobs /\ queue' \in Seq(Jobs)
    BY <1>2, <2>2 DEF PoolTyped
  <2>4. polls' \in [Jobs -> Polls] /\ \A i \in Jobs : i # j => polls'[i] = polls[i]
    <3>1. [polls[j] EXCEPT !.slot = Pool!Claimed(Pool!NoDue)] \in Polls
      BY <1>2, <2>3 DEF PoolTyped, Polls, Slots, Pool!Claimed
    <3>2. polls' = [polls EXCEPT ![j] = [polls[j] EXCEPT !.slot = Pool!Claimed(Pool!NoDue)]]
      BY <2>2
    <3> QED BY <1>2, <2>3, <3>1, <3>2 DEF PoolTyped
  <2>5. ~SaysNever(polls'[j].slot)
    <3>1. polls'[j].slot = Pool!Claimed(Pool!NoDue)
      BY <1>2, <2>2, <2>3 DEF PoolTyped, Polls
    <3> QED BY <3>1 DEF SaysNever, Pool!Claimed, Pool!NoDue, Pool!Never
  <2> HIDE DEF j
  <2>6. PoolTyped'
    BY <1>2, <2>1, <2>2, <2>3, <2>4 DEF PoolTyped, Pool!PlaceOf
  <2>7. ASSUME NEW v \in Workers
        PROVE  Untouched(v) \/ WorkerSound(v)'
    <3>1. CASE v # w
      BY <1>1, <1>2, <2>1, <2>2, <3>1 DEF Untouched, PoolTyped
    <3>2. CASE v = w
      <4>1. place'[w] = "Starting" /\ job'[w] = j /\ turn[w] = "Unread"
        BY <1>2, <2>1 DEF PoolTyped, WorkerSound, Holding
      <4> QED BY <1>1, <2>3, <3>2, <4>1 DEF WorkerSound, Reported
    <3> QED BY <3>1, <3>2
  <2>8. \A i \in Jobs : SaysNever(polls'[i].slot) => SaysNever(polls[i].slot) \/ Spent(i)
    BY <2>4, <2>5
  <2> QED BY <1>1, <1>3, <2>6, <2>7, <2>8, PoolStepKeeps
<1>6. CASE Pool!Sleep
  BY <1>1, <1>6, QuietStepKeeps DEF Pool!Sleep
<1>7. CASE Pool!WakeUp
  BY <1>1, <1>7, QuietStepKeeps DEF Pool!WakeUp
<1>8. CASE Pool!Stop
  BY <1>1, <1>8, QuietStepKeeps DEF Pool!Stop
<1> QED BY <1>4, <1>5, <1>6, <1>7, <1>8 DEF Pool!Loop

\* Time that passes turns no moment into never.
LEMMA TickKeeps ==
    ASSUME Inv, phase = "Started", Pool!Tick, UNCHANGED outside
    PROVE  Inv'
<1>1. UNCHANGED <<description, phase, building, budget, stored, held, turn, finished, waits>>
  BY OutsideStays
<1>2. PoolTyped /\ WorkTyped
  BY DEF Inv
<1>3. /\ polls' = [j \in Jobs |-> Pool!ElapsedPoll(polls[j])]
      /\ report' = [w \in Workers |-> [report[w] EXCEPT !.at = Pool!Closer(@)]]
      /\ UNCHANGED <<queue, place, job>>
  BY DEF Pool!Tick
<1>4. ASSUME NEW poll \in Polls
      PROVE  /\ Pool!ElapsedPoll(poll) \in Polls
             /\ SaysNever(Pool!ElapsedPoll(poll).slot) => SaysNever(poll.slot)
  <2> DEFINE due == Pool!Closer(poll.slot.due)
  <2>1. /\ poll.slot.due \in Nat \cup {Pool!Never, Pool!NoDue} /\ poll.slot \in Slots
        /\ DOMAIN poll = {"interval", "slot"} /\ poll.interval \in Nat
    BY DEF Polls, Slots
  <2>2. due \in Nat \cup {Pool!Never, Pool!NoDue} /\ (due = Pool!Never => poll.slot.due = Pool!Never)
    BY <2>1 DEF Pool!Closer, Pool!Never, Pool!NoDue
  <2>3. Pool!ElapsedPoll(poll) = [poll EXCEPT !.slot = [poll.slot EXCEPT !.due = due]]
    BY DEF Pool!ElapsedPoll
  <2> HIDE DEF due
  <2>4. /\ [poll.slot EXCEPT !.due = due] \in Slots
        /\ SaysNever([poll.slot EXCEPT !.due = due]) => SaysNever(poll.slot)
    BY <2>1, <2>2 DEF Slots, SaysNever
  <2> QED BY <2>3, <2>4 DEF Polls
<1>5. ASSUME NEW w \in Workers
      PROVE  report'[w] \in Reports /\ report'[w].kind = report[w].kind
  <2>1. report[w] \in Reports /\ report[w].at \in Nat
    BY <1>2 DEF PoolTyped, Reports
  <2>2. Pool!Closer(report[w].at) \in Nat
    BY <2>1 DEF Pool!Closer
  <2>3. report'[w] = [report[w] EXCEPT !.at = Pool!Closer(report[w].at)]
    BY <1>3
  <2> QED BY <2>1, <2>2, <2>3 DEF Reports
<1>6. PoolTyped'
  <2>1. polls' \in [Jobs -> Polls]
    BY <1>2, <1>3, <1>4 DEF PoolTyped
  <2>2. report' \in [Workers -> Reports]
    BY <1>3, <1>5
  <2> QED BY <1>2, <1>3, <2>1, <2>2 DEF PoolTyped
<1>7. \A w \in Workers : Untouched(w)
  BY <1>1, <1>3, <1>5 DEF Untouched
<1>8. \A j \in Jobs : SaysNever(polls'[j].slot) => SaysNever(polls[j].slot) \/ Spent(j)
  <2>1. \A j \in Jobs : polls[j] \in Polls /\ polls'[j] = Pool!ElapsedPoll(polls[j])
    BY <1>2, <1>3 DEF PoolTyped
  <2> QED BY <1>4, <2>1
<1>9. held' \in [Workers -> Stored] /\ turn' \in [Workers -> Turns]
  BY <1>1, <1>2 DEF WorkTyped
<1> QED BY <1>1, <1>6, <1>7, <1>8, <1>9, PoolStepKeeps

\* A join: what the report says never about has been recorded (release, reschedule).
LEMMA CloseTaskStartKeeps ==
    ASSUME Inv, phase = "Started", NEW w \in Workers, Pool!CloseTaskStart(w), UNCHANGED outside
    PROVE  Inv'
<1> DEFINE j == job[w]
<1>1. UNCHANGED <<description, phase, building, budget, stored, held, turn, finished, waits>>
  BY OutsideStays
<1>2. PoolTyped /\ WorkTyped /\ WorkerSound(w)
  BY DEF Inv
<1>3. PICK jitter \in Jitters : polls' = [polls EXCEPT ![j] = Pool!Released(polls[j], report[w], jitter)]
  BY DEF Pool!CloseTaskStart
<1>4. /\ place[w] \in {"Started", "NotStarted"} /\ queue' \in Pool!Requeued(queue, polls, polls', j)
      /\ place' = [place EXCEPT ![w] = IF place[w] = "Started" THEN "ToExecute" ELSE "Idle"]
      /\ job' = [job EXCEPT ![w] = IF place[w] = "Started" THEN j ELSE NoJob]
      /\ report' = [report EXCEPT ![w] = Pool!NoProgress]
  BY DEF Pool!CloseTaskStart
<1>5. /\ j \in Jobs /\ polls[j] \in Polls /\ report[w] \in Reports /\ report[w].kind # "None"
      /\ report[w].kind = "IterationsEnded" => Spent(j)
  BY <1>2, <1>4 DEF WorkerSound, PoolTyped, Reported
<1>6. /\ Pool!Released(polls[j], report[w], jitter) \in Polls
      /\ SaysNever(Pool!Released(polls[j], report[w], jitter).slot) =>
            SaysNever(polls[j].slot) \/ report[w].kind = "IterationsEnded"
  BY <1>5, ReleasedType
<1>7. /\ polls' \in [Jobs -> Polls] /\ polls'[j] = Pool!Released(polls[j], report[w], jitter)
      /\ \A i \in Jobs : i # j => polls'[i] = polls[i]
  BY <1>2, <1>3, <1>5, <1>6 DEF PoolTyped
<1>8. PoolTyped'
  <2>1. queue' \in Seq(Jobs)
    <3>1. queue \in Seq(Jobs)
      BY <1>2 DEF PoolTyped
    <3> HIDE DEF j
    <3> QED BY <1>4, <1>5, <3>1, RequeuedType
  <2>2. Pool!NoProgress \in Reports
    BY DEF Pool!NoProgress, Pool!Progress, Reports
  <2> QED BY <1>2, <1>4, <1>5, <1>7, <2>1, <2>2 DEF PoolTyped, Pool!PlaceOf
<1>9. ASSUME NEW v \in Workers
      PROVE  Untouched(v) \/ WorkerSound(v)'
  <2>1. CASE v # w
    BY <1>1, <1>2, <1>4, <2>1 DEF Untouched, PoolTyped
  <2>2. CASE v = w
    <3>1. /\ place[w] = "Started" => place'[w] = "ToExecute" /\ job'[w] = job[w]
          /\ place[w] = "NotStarted" => place'[w] = "Idle" /\ turn[w] = "Unread"
      BY <1>2, <1>4 DEF PoolTyped, WorkerSound, Holding
    <3>2. CASE place[w] = "Started"
      BY <1>1, <1>2, <1>5, <2>2, <3>1, <3>2 DEF WorkerSound, Passed, Reported, Holding
    <3>3. CASE place[w] = "NotStarted"
      BY <1>1, <2>2, <3>1, <3>3 DEF WorkerSound, Reported
    <3> QED BY <1>4, <3>2, <3>3
  <2> QED BY <2>1, <2>2
<1>10. \A i \in Jobs : SaysNever(polls'[i].slot) => SaysNever(polls[i].slot) \/ Spent(i)
  BY <1>5, <1>6, <1>7
<1>11. held' \in [Workers -> Stored] /\ turn' \in [Workers -> Turns]
  BY <1>1, <1>2 DEF WorkTyped
<1> HIDE DEF j
<1> QED BY <1>1, <1>8, <1>9, <1>10, <1>11, PoolStepKeeps

LEMMA CloseExecutionKeeps ==
    ASSUME Inv, phase = "Started", NEW w \in Workers, Pool!CloseExecution(w), UNCHANGED outside
    PROVE  Inv'
<1> DEFINE j == job[w]
<1>1. UNCHANGED <<description, phase, building, budget, stored, held, turn, finished, waits>>
  BY OutsideStays
<1>2. PoolTyped /\ WorkTyped /\ WorkerSound(w)
  BY DEF Inv
<1>3. PICK jitter \in Jitters : polls' = [polls EXCEPT ![j] = Pool!Rescheduled(polls[j], report[w], jitter)]
  BY DEF Pool!CloseExecution
<1>4. /\ place[w] = "Executed" /\ queue' \in Pool!Requeued(queue, polls, polls', j)
      /\ place' = [place EXCEPT ![w] = "Idle"] /\ job' = [job EXCEPT ![w] = NoJob]
      /\ report' = [report EXCEPT ![w] = Pool!NoProgress]
  BY DEF Pool!CloseExecution
<1>5. /\ j \in Jobs /\ polls[j] \in Polls /\ report[w] \in Reports /\ report[w].kind # "None"
      /\ report[w].kind = "IterationsEnded" => Spent(j)
  BY <1>2, <1>4 DEF WorkerSound, PoolTyped, Reported
<1>6. /\ Pool!Rescheduled(polls[j], report[w], jitter) \in Polls
      /\ SaysNever(Pool!Rescheduled(polls[j], report[w], jitter).slot) =>
            SaysNever(polls[j].slot) \/ report[w].kind = "IterationsEnded"
  BY <1>5, RescheduledType
<1>7. /\ polls' \in [Jobs -> Polls] /\ polls'[j] = Pool!Rescheduled(polls[j], report[w], jitter)
      /\ \A i \in Jobs : i # j => polls'[i] = polls[i]
  BY <1>2, <1>3, <1>5, <1>6 DEF PoolTyped
<1>8. PoolTyped'
  <2>1. queue' \in Seq(Jobs)
    <3>1. queue \in Seq(Jobs)
      BY <1>2 DEF PoolTyped
    <3> HIDE DEF j
    <3> QED BY <1>4, <1>5, <3>1, RequeuedType
  <2>2. Pool!NoProgress \in Reports
    BY DEF Pool!NoProgress, Pool!Progress, Reports
  <2> QED BY <1>2, <1>4, <1>7, <2>1, <2>2 DEF PoolTyped, Pool!PlaceOf
<1>9. ASSUME NEW v \in Workers
      PROVE  Untouched(v) \/ WorkerSound(v)'
  <2>1. CASE v # w
    BY <1>1, <1>2, <1>4, <2>1 DEF Untouched, PoolTyped
  <2>2. CASE v = w
    <3>1. place'[w] = "Idle" /\ turn[w] = "Unread"
      BY <1>2, <1>4 DEF PoolTyped, WorkerSound, Holding
    <3> QED BY <1>1, <2>2, <3>1 DEF WorkerSound, Reported
  <2> QED BY <2>1, <2>2
<1>10. \A i \in Jobs : SaysNever(polls'[i].slot) => SaysNever(polls[i].slot) \/ Spent(i)
  BY <1>5, <1>6, <1>7
<1>11. held' \in [Workers -> Stored] /\ turn' \in [Workers -> Turns]
  BY <1>1, <1>2 DEF WorkTyped
<1> HIDE DEF j
<1> QED BY <1>1, <1>8, <1>9, <1>10, <1>11, PoolStepKeeps

LEMMA AbortWorkerKeeps ==
    ASSUME Inv, NEW w \in Workers, AbortWorker(w)
    PROVE  Inv'
<1>1. /\ UNCHANGED <<polls, queue, report, description, phase, building, budget, stored, finished, waits>>
      /\ LetsGo(w) /\ place[w] \in {"Starting", "Executing"}
      /\ place' = [place EXCEPT ![w] = "Idle"] /\ job' = [job EXCEPT ![w] = NoJob]
  BY DEF AbortWorker, IsAtWork, buildVars
<1>2. PoolTyped /\ WorkTyped
  BY DEF Inv
<1>3. phase = "Started"
  BY <1>1, WorkersRun
<1>4. PoolTyped'
  BY <1>1, <1>2 DEF PoolTyped, Pool!PlaceOf
<1>5. /\ held' \in [Workers -> Stored] /\ turn' \in [Workers -> Turns] /\ turn'[w] = "Unread"
      /\ \A v \in Workers : v # w => held'[v] = held[v] /\ turn'[v] = turn[v]
  <2>1. NoIteration \in Stored /\ "Unread" \in Turns
    BY DEF NoIteration, Iteration, Stored, Turns
  <2> QED BY <1>1, <1>2, <2>1 DEF WorkTyped, LetsGo
<1>6. ASSUME NEW v \in Workers
      PROVE  Untouched(v) \/ WorkerSound(v)'
  <2>1. CASE v # w
    BY <1>1, <1>2, <1>5, <2>1 DEF Untouched, PoolTyped
  <2>2. CASE v = w
    <3>1. place'[w] = "Idle"
      BY <1>1, <1>2 DEF PoolTyped
    <3> QED BY <1>5, <2>2, <3>1 DEF WorkerSound, Reported
  <2> QED BY <2>1, <2>2
<1>7. \A j \in Jobs : SaysNever(polls'[j].slot) => SaysNever(polls[j].slot) \/ Spent(j)
  BY <1>1
<1> QED BY <1>1, <1>3, <1>4, <1>5, <1>6, <1>7, PoolStepKeeps

\* Shutting down, aborting and dropping the handle, and what the runtime takes down after that.
LEMMA HandleKeeps ==
    ASSUME Inv, Shutdown \/ Abort \/ DropHandle \/ AbortPool
    PROVE  Inv'
<1>1. handle # "None"
  BY DEF Shutdown, Abort, DropHandle, AbortPool, IsAborted
<1>2. phase = "Started"
  BY <1>1 DEF Inv, NotStartedYet
<1>3. UNCHANGED <<polls, queue, place, job, report, description, phase, building, budget, stored, held,
                  turn, finished, waits>>
  BY DEF Shutdown, Abort, DropHandle, AbortPool, TakesHandle, outside, buildVars, workVars
<1> QED BY <1>2, <1>3, QuietStepKeeps

-----------------------------------------------------------------------------
(* Other processes and the callers that wait *)

LEMMA OtherProcessKeeps ==
    ASSUME Inv, NEW j \in Jobs, OtherProcess(j)
    PROVE  Inv'
<1>1. /\ PoolTyped /\ WorkTyped /\ BuildSound /\ NotStartedYet
      /\ \A w \in Workers : WorkerSound(w)
      /\ \A i \in Jobs : JobSound(i)
      /\ \A x \in Waiters : WaitSound(x)
  BY DEF Inv
<1>2. UNCHANGED <<polls, queue, place, job, report, description, phase, building, budget, held, turn,
                  finished, handle, waits>>
  BY DEF OtherProcess, poolVars, buildVars
<1>3. stored[j] \in Stored /\ stored[j].number \in Nat /\ stored[j].isOpen \in BOOLEAN
  BY <1>1 DEF WorkTyped, Stored
<1>4. \E iteration \in Stored :
        /\ stored' = [stored EXCEPT ![j] = iteration]
        /\ \/ iteration.number > stored[j].number
           \/ iteration.number = stored[j].number /\ (~stored[j].isOpen => ~iteration.isOpen)
  <2>1. CASE stored[j] = NoIteration /\ stored' = [stored EXCEPT ![j] = Iteration(1, TRUE)]
    <3>1. Iteration(1, TRUE) \in Stored /\ Iteration(1, TRUE).number > stored[j].number
      BY <2>1 DEF NoIteration, Iteration, Stored
    <3> QED BY <2>1, <3>1
  <2>2. CASE stored' = [stored EXCEPT ![j].isOpen = FALSE]
    <3> DEFINE closed == [stored[j] EXCEPT !.isOpen = FALSE]
    <3>1. closed \in Stored /\ closed.number = stored[j].number /\ ~closed.isOpen
      BY <1>3 DEF Stored
    <3>2. stored' = [stored EXCEPT ![j] = closed]
      BY <2>2
    <3> HIDE DEF closed
    <3> QED BY <3>1, <3>2
  <2>3. CASE stored' = [stored EXCEPT ![j] = Iteration(@.number + 1, TRUE)]
    <3> DEFINE next == Iteration(stored[j].number + 1, TRUE)
    <3>1. next \in Stored /\ next.number > stored[j].number
      BY <1>3 DEF Iteration, Stored
    <3>2. stored' = [stored EXCEPT ![j] = next]
      BY <2>3
    <3> HIDE DEF next
    <3> QED BY <3>1, <3>2
  <2> QED BY <2>1, <2>2, <2>3 DEF OtherProcess
<1>5. stored' \in [Jobs -> Stored] /\ Advances
  BY <1>1, <1>2, <1>4, OneMovesForward
<1>6. PoolTyped' /\ WorkTyped' /\ BuildSound' /\ NotStartedYet'
  BY <1>1, <1>2, <1>5 DEF PoolTyped, WorkTyped, BuildSound, NotStartedYet
<1>7. \A w \in Workers : WorkerSound(w)'
  BY <1>1, <1>2, <1>5, <1>6, WorkerStays
<1>8. \A i \in Jobs : JobSound(i)'
  BY <1>1, <1>2, <1>5, <1>6, JobStays
<1>9. \A x \in Waiters : WaitSound(x)'
  BY <1>1, <1>2, <1>5, <1>6, WaitStays
<1> QED BY <1>6, <1>7, <1>8, <1>9 DEF Inv

\* A call moves on to a state that is true of it.
LEMMA WaitsKeeps ==
    ASSUME Inv, NEW x \in Waiters, NEW wait, Waits(x, wait),
           wait \in [state : WaitStates, job : Jobs \cup {NoJob}, goal : Nat, read : Nat],
           wait.state \in {"Checking", "Parked", "Answered"} => wait.job \in Jobs /\ wait.goal > 0,
           wait.state = "Answered" => wait.read >= wait.goal /\ Passed(wait.job, wait.read)
    PROVE  Inv'
<1>1. /\ PoolTyped /\ WorkTyped /\ BuildSound /\ NotStartedYet
      /\ \A w \in Workers : WorkerSound(w)
      /\ \A j \in Jobs : JobSound(j)
      /\ \A y \in Waiters : WaitSound(y)
  BY DEF Inv
<1>2. /\ UNCHANGED <<polls, queue, place, job, report, description, phase, building, budget, stored, held,
                     turn, finished, handle>>
      /\ waits' = [waits EXCEPT ![x] = wait]
  BY DEF Waits, poolVars, buildVars, workVars
<1>3. PoolTyped' /\ BuildSound' /\ NotStartedYet'
  BY <1>1, <1>2 DEF PoolTyped, BuildSound, NotStartedYet
<1>4. WorkTyped'
  BY <1>1, <1>2 DEF WorkTyped
<1>5. \A w \in Workers : WorkerSound(w)'
  BY <1>1, <1>2 DEF WorkerSound, Passed, Spent
<1>6. \A j \in Jobs : JobSound(j)'
  BY <1>1, <1>2 DEF JobSound, Passed, Spent
<1>7. ASSUME NEW y \in Waiters
      PROVE  WaitSound(y)'
  <2>1. CASE y # x
    <3>1. waits'[y] = waits[y]
      BY <1>1, <1>2, <2>1 DEF WorkTyped
    <3> QED BY <1>1, <1>2, <3>1 DEF WaitSound, Passed, IsWaiting
  <2>2. CASE y = x
    <3>1. waits'[x] = wait
      BY <1>1, <1>2 DEF WorkTyped
    <3> QED BY <1>2, <2>2, <3>1 DEF WaitSound, Passed, IsWaiting
  <2> QED BY <2>1, <2>2
<1> QED BY <1>3, <1>4, <1>5, <1>6, <1>7 DEF Inv

\* wait_for_matching_iteration: a recorded number is the number of an iteration that is over.
LEMMA WaitingKeeps ==
    ASSUME Inv, NEW x \in Waiters, CallWait(x) \/ CheckFinished(x) \/ Changed(x) \/ DropWait(x)
    PROVE  Inv'
<1> DEFINE Waited == [state : WaitStates, job : Jobs \cup {NoJob}, goal : Nat, read : Nat]
           wait == waits[x]
<1>1. wait \in Waited /\ WorkTyped /\ WaitSound(x)
  BY DEF Inv, WorkTyped
<1>2. NoWait \in Waited /\ NoWait.state = "None"
  BY DEF NoWait, WaitStates
<1>3. CASE CallWait(x)
  <2>1. PICK j \in Jobs :
            \/ Waits(x, [state |-> "Checking", job |-> j, goal |-> 1, read |-> 0])
            \/ /\ budget[j] # Unset
               /\ Waits(x, [state |-> "Checking", job |-> j, goal |-> budget[j], read |-> 0])
            \/ Waits(x, [NoWait EXCEPT !.state = "Refused"])
    BY <1>3 DEF CallWait
  <2>2. ASSUME NEW goal \in Nat \ {0}, Waits(x, [state |-> "Checking", job |-> j, goal |-> goal, read |-> 0])
        PROVE  Inv'
    <3> DEFINE next == [state |-> "Checking", job |-> j, goal |-> goal, read |-> 0]
    <3>1. next \in Waited /\ next.state = "Checking" /\ next.job \in Jobs /\ next.goal > 0
      BY DEF WaitStates
    <3>2. Waits(x, next)
      BY <2>2
    <3> HIDE DEF next
    <3> QED BY <3>1, <3>2, WaitsKeeps
  <2>3. budget[j] # Unset => budget[j] \in Nat \ {0}
    BY <1>1 DEF WorkTyped
  <2>4. ASSUME Waits(x, [NoWait EXCEPT !.state = "Refused"])
        PROVE  Inv'
    <3> DEFINE next == [NoWait EXCEPT !.state = "Refused"]
    <3>1. next \in Waited /\ next.state = "Refused"
      BY DEF NoWait, WaitStates
    <3> HIDE DEF next
    <3> QED BY <2>4, <3>1, WaitsKeeps DEF next
  <2> QED BY <2>1, <2>2, <2>3, <2>4
<1>4. CASE CheckFinished(x)
  <2> DEFINE number == finished[wait.job]
             state == IF number >= wait.goal THEN "Answered" ELSE "Parked"
             next == [wait EXCEPT !.read = number, !.state = state]
  <2>1. wait.state = "Checking" /\ Waits(x, next)
    BY <1>4 DEF CheckFinished
  <2>2. wait.job \in Jobs /\ wait.goal \in Nat \ {0}
    BY <1>1, <2>1 DEF WaitSound, IsWaiting
  <2>3. number \in Nat /\ (number > 0 => Passed(wait.job, number))
    BY <1>1, <2>2 DEF Inv, JobSound, WorkTyped
  <2>4. state \in {"Answered", "Parked"} /\ (state = "Answered" => number >= wait.goal /\ number > 0)
    BY <2>2, <2>3
  <2> HIDE DEF number, state
  <2>5. /\ next \in Waited /\ next.state = state /\ next.job = wait.job /\ next.goal = wait.goal
        /\ next.read = number
    BY <1>1, <2>3, <2>4 DEF WaitStates
  <2> HIDE DEF next
  <2>6. next.state = "Answered" => next.read >= next.goal /\ Passed(next.job, next.read)
    BY <2>3, <2>4, <2>5
  <2>7. next.job \in Jobs /\ next.goal > 0
    BY <2>2, <2>5
  <2> QED BY <2>1, <2>5, <2>6, <2>7, WaitsKeeps
<1>5. CASE Changed(x)
  <2> DEFINE state == IF finished[wait.job] # wait.read THEN "Checking" ELSE "Refused"
             next == [wait EXCEPT !.state = state]
  <2>1. wait.state = "Parked" /\ Waits(x, next)
    BY <1>5 DEF Changed
  <2>2. wait.job \in Jobs /\ wait.goal > 0
    BY <1>1, <2>1 DEF WaitSound, IsWaiting
  <2>3. state \in {"Checking", "Refused"}
    OBVIOUS
  <2> HIDE DEF state
  <2>4. next \in Waited /\ next.state = state /\ next.job = wait.job /\ next.goal = wait.goal
    BY <1>1, <2>3 DEF WaitStates
  <2> HIDE DEF next
  <2>5. next.job \in Jobs /\ next.goal > 0 /\ next.state # "Answered"
    BY <2>2, <2>3, <2>4
  <2> QED BY <2>1, <2>4, <2>5, WaitsKeeps
<1>6. CASE DropWait(x)
  BY <1>2, <1>6, WaitsKeeps DEF DropWait
<1> QED BY <1>3, <1>4, <1>5, <1>6

-----------------------------------------------------------------------------
(* The theorems *)

\* A pool that is not built yet is sound.
LEMMA InitSound ==
    Init => Inv
<1> SUFFICES ASSUME Init PROVE Inv
  OBVIOUS
<1>1. PoolTyped
  <2>1. polls \in [Jobs -> Polls]
    BY ManagerAssumption DEF Init, Pool!Init, Pool!Queued, Polls, Slots
  <2>2. queue \in Seq(Jobs)
    <3>1. Cardinality(Jobs) \in Nat
      BY ManagerAssumption, FS_CardinalityType
    <3>2. Pool!Cardinality(Jobs) = Cardinality(Jobs)
      BY Zenon DEF Pool!Cardinality, Cardinality
    <3>3. queue \in [1 .. Cardinality(Jobs) -> Jobs]
      BY <3>2 DEF Init, Pool!Init
    <3> QED BY <3>1, <3>3
  <2>3. report \in [Workers -> Reports]
    BY DEF Init, Pool!Init, Pool!NoProgress, Pool!Progress, Reports
  <2>4. place \in [Workers -> Pool!PlaceOf] /\ job \in [Workers -> Jobs \cup {NoJob}]
    BY DEF Init, Pool!Init, Pool!PlaceOf
  <2> QED BY <2>1, <2>2, <2>3, <2>4 DEF PoolTyped
<1>2. WorkTyped
  <2>1. NoIteration \in Stored /\ "Unread" \in Turns
    BY DEF NoIteration, Iteration, Stored, Turns
  <2>2. NoWait \in [state : WaitStates, job : Jobs \cup {NoJob}, goal : Nat, read : Nat]
    BY DEF NoWait, WaitStates
  <2> QED BY <2>1, <2>2 DEF Init, WorkTyped
<1>3. BuildSound
  <2>1. ASSUME NEW n \in DOMAIN description.jobs
        PROVE  ~(n < 1)
    <3>1. Builder!IsDescription(description)
      BY ManagerAssumption DEF Init, Builder!Init
    <3>2. description.jobs \in Seq(Builder!Range(description.jobs))
      BY <3>1 DEF Builder!IsDescription, Builder!IsVec
    <3>3. n \in Nat \ {0}
      BY <3>2
    <3> QED BY <3>3
  <2> QED BY <2>1 DEF Init, Builder!Init, BuildSound
<1>4. NotStartedYet
  BY DEF Init, Pool!Init, NotStartedYet
<1>5. \A w \in Workers : WorkerSound(w)
  BY DEF Init, Pool!Init, WorkerSound, Reported
<1>6. \A j \in Jobs : JobSound(j)
  BY DEF Init, Pool!Init, Pool!Queued, Pool!Never, JobSound, SaysNever
<1>7. \A x \in Waiters : WaitSound(x)
  BY DEF Init, WaitSound, IsWaiting, NoWait
<1> QED BY <1>1, <1>2, <1>3, <1>4, <1>5, <1>6, <1>7 DEF Inv

\* Inv is inductive: one step per action of the pool, its workers, its owner and its callers.
LEMMA Invariance ==
    Spec => []Inv
<1>1. Inv /\ [Next]_vars => Inv'
  <2> SUFFICES ASSUME Inv, [Next]_vars PROVE Inv'
    OBVIOUS
  <2>1. CASE Builds
    BY <2>1, BuildsKeep
  <2>2. CASE Start
    BY <2>2, StartKeeps
  <2>3. CASE LoopTurns
    <3>1. /\ phase = "Started" /\ UNCHANGED outside
          /\ Pool!Loop \/ Pool!Tick \/ \E w \in Workers : Pool!CloseTaskStart(w) \/ Pool!CloseExecution(w)
      BY <2>3 DEF LoopTurns
    <3>2. CASE Pool!Loop
      BY <3>1, <3>2, LoopKeeps
    <3>3. CASE Pool!Tick
      BY <3>1, <3>3, TickKeeps
    <3>4. CASE \E w \in Workers : Pool!CloseTaskStart(w) \/ Pool!CloseExecution(w)
      BY <3>1, <3>4, CloseTaskStartKeeps, CloseExecutionKeeps
    <3> QED BY <3>1, <3>2, <3>3, <3>4
  <2>4. CASE Shutdown \/ Abort \/ DropHandle \/ AbortPool
    BY <2>4, HandleKeeps
  <2>5. CASE \E w \in Workers : Works(w) \/ AbortWorker(w)
    BY <2>5, WorksKeeps, AbortWorkerKeeps
  <2>6. CASE \E j \in Jobs : OtherProcess(j)
    BY <2>6, OtherProcessKeeps
  <2>7. CASE \E x \in Waiters : CallWait(x) \/ CheckFinished(x) \/ Changed(x) \/ DropWait(x)
    BY <2>7, WaitingKeeps
  <2>8. CASE UNCHANGED vars
    <3>1. UNCHANGED <<polls, queue, place, job, report, description, phase, building, budget, stored, held,
                      turn, finished, handle, waits>>
      BY <2>8 DEF vars, poolVars, buildVars, workVars
    <3>2. PoolTyped' /\ WorkTyped' /\ BuildSound' /\ NotStartedYet'
      BY <3>1 DEF Inv, PoolTyped, WorkTyped, BuildSound, NotStartedYet
    <3>3. /\ \A w \in Workers : WorkerSound(w)'
          /\ \A j \in Jobs : JobSound(j)'
          /\ \A x \in Waiters : WaitSound(x)'
      BY <3>1 DEF Inv, WorkerSound, JobSound, WaitSound, Passed, Spent, IsWaiting
    <3> QED BY <3>2, <3>3 DEF Inv
  <2> QED BY <2>1, <2>2, <2>3, <2>4, <2>5, <2>6, <2>7, <2>8 DEF Next
<1> QED BY <1>1, InitSound, PTL DEF Spec

\* A wait is answered with the number of an iteration that is over in the store, and one for the
\* whole job only when its budget is spent (wait_for_matching_iteration): whatever else runs.
THEOREM AnswersAreFinished ==
    Spec => []AnswerIsFinished
<1>1. Inv => AnswerIsFinished
  <2> SUFFICES ASSUME Inv, NEW x \in Waiters, waits[x].state = "Answered"
               PROVE  LET newest == stored[waits[x].job]
                      IN /\ waits[x].read >= waits[x].goal
                         /\ newest.number > waits[x].read \/ newest = Iteration(waits[x].read, FALSE)
    BY DEF AnswerIsFinished
  <2>1. /\ waits[x].job \in Jobs /\ waits[x].read >= waits[x].goal
        /\ Passed(waits[x].job, waits[x].read)
    BY DEF Inv, WaitSound
  <2>2. stored[waits[x].job] \in Stored
    BY <2>1 DEF Inv, WorkTyped
  <2>3. \A iteration \in Stored : ~iteration.isOpen => iteration = Iteration(iteration.number, FALSE)
    BY DEF Stored, Iteration
  <2> QED BY <2>1, <2>2, <2>3 DEF Passed
<1> QED BY <1>1, Invariance, PTL

\* A job the pool gives up polling has had its last iteration recorded (advance_job_iteration,
\* job_iteration_settled, JobPoll::release and reschedule): no wait for it is left hanging.
THEOREM GivenUpJobsAreRecorded ==
    Spec => []GivenUpIsRecorded
<1>1. Inv => GivenUpIsRecorded
  BY DEF Inv, JobSound, SaysNever, Spent, GivenUpIsRecorded
<1> QED BY <1>1, Invariance, PTL

-----------------------------------------------------------------------------
(* Flattening *)

\* A loop that appends one vector after another comes to an end.
LEMMA FlatteningExists ==
    ASSUME NEW seqs, NEW n \in Nat
    PROVE  \E f : f = [i \in 1 .. n |-> IF i = 1 THEN seqs[i] ELSE f[i - 1] \o seqs[i]]
<1> DEFINE Bad == {m \in Nat : ~\E f : f = [i \in 1 .. m |-> IF i = 1 THEN seqs[i] ELSE f[i - 1] \o seqs[i]]}
<1>1. SUFFICES ASSUME Bad # {} PROVE FALSE
  OBVIOUS
<1>2. PICK m \in Bad : \A j \in Bad : m <= j
  BY <1>1, MinExists
<1>3. m # 0
  <2>1. <<>> = [i \in 1 .. 0 |-> IF i = 1 THEN seqs[i] ELSE <<>>[i - 1] \o seqs[i]]
    OBVIOUS
  <2> QED BY <2>1
<1>4. m - 1 \in Nat /\ m - 1 \notin Bad
  <2> m \in Nat
    BY <1>2
  <2> HIDE DEF Bad
  <2> QED BY <1>2, <1>3
<1>5. PICK g : g = [i \in 1 .. m - 1 |-> IF i = 1 THEN seqs[i] ELSE g[i - 1] \o seqs[i]]
  BY <1>4
<1> DEFINE last == IF m = 1 THEN seqs[m] ELSE g[m - 1] \o seqs[m]
           f == [i \in 1 .. m |-> IF i = m THEN last ELSE g[i]]
<1>6. ASSUME NEW i \in 1 .. m
      PROVE  f[i] = IF i = 1 THEN seqs[i] ELSE f[i - 1] \o seqs[i]
  <2>1. m \in Nat \ {0}
    BY <1>2, <1>3
  <2> HIDE DEF Bad
  <2>2. CASE i = m
    <3>1. i # 1 => f[i - 1] = g[m - 1]
      BY <2>1, <2>2
    <3>2. f[i] = last
      BY <2>2
    <3> QED BY <2>2, <3>1, <3>2
  <2>3. CASE i # m
    <3>1. i \in 1 .. m - 1 /\ f[i] = g[i] /\ (i # 1 => i - 1 \in 1 .. m /\ i - 1 # m)
      BY <2>1, <2>3
    <3>2. g[i] = IF i = 1 THEN seqs[i] ELSE g[i - 1] \o seqs[i]
      BY <1>5, <3>1
    <3>3. i # 1 => f[i - 1] = g[i - 1]
      BY <3>1
    <3> QED BY <3>1, <3>2, <3>3
  <2> QED BY <2>2, <2>3
<1>7. f = [i \in 1 .. m |-> IF i = 1 THEN seqs[i] ELSE f[i - 1] \o seqs[i]]
  BY <1>6
<1> QED BY <1>7

\* FlattenSeq(seqs) is what the loop leaves.
LEMMA FlattenIsLoop ==
    ASSUME NEW seqs, Len(seqs) \in Nat \ {0}
    PROVE  \E f : /\ f = [i \in 1 .. Len(seqs) |-> IF i = 1 THEN seqs[i] ELSE f[i - 1] \o seqs[i]]
                  /\ Builder!FlattenSeq(seqs) = f[Len(seqs)]
<1> DEFINE f == CHOOSE f : f = [i \in 1 .. Len(seqs) |-> IF i = 1 THEN seqs[i] ELSE f[i - 1] \o seqs[i]]
<1>1. f = [i \in 1 .. Len(seqs) |-> IF i = 1 THEN seqs[i] ELSE f[i - 1] \o seqs[i]]
  BY FlatteningExists
<1>2. Builder!FlattenSeq(seqs) = f[Len(seqs)]
  BY DEF Builder!FlattenSeq
<1> HIDE DEF f
<1> QED BY <1>1, <1>2

\* What is in two vectors in a row.
LEMMA ConcatRange ==
    ASSUME NEW T, NEW a \in Seq(T), NEW b \in Seq(T)
    PROVE  /\ a \o b \in Seq(T)
           /\ Builder!Range(a \o b) = Builder!Range(a) \cup Builder!Range(b)
<1>1. /\ a \o b \in Seq(T) /\ Len(a \o b) = Len(a) + Len(b)
      /\ \A i \in 1 .. Len(a) + Len(b) :
            (a \o b)[i] = IF i <= Len(a) THEN a[i] ELSE b[i - Len(a)]
  BY ConcatProperties
<1>2. /\ Len(a) \in Nat /\ Len(b) \in Nat /\ DOMAIN a = 1 .. Len(a) /\ DOMAIN b = 1 .. Len(b)
      /\ DOMAIN (a \o b) = 1 .. Len(a) + Len(b)
  BY <1>1
<1> DEFINE c == a \o b
<1> HIDE DEF c
<1>3. ASSUME NEW i \in DOMAIN c
      PROVE  c[i] \in Builder!Range(a) \cup Builder!Range(b)
  <2>1. CASE i <= Len(a)
    BY <1>1, <1>2, <2>1 DEF c, Builder!Range
  <2>2. CASE i > Len(a)
    <3>1. i - Len(a) \in DOMAIN b /\ c[i] = b[i - Len(a)]
      BY <1>1, <1>2, <2>2 DEF c
    <3> QED BY <3>1 DEF Builder!Range
  <2> QED BY <1>2, <2>1, <2>2 DEF c
<1>4. ASSUME NEW i \in DOMAIN a
      PROVE  a[i] \in Builder!Range(c)
  <2>1. i \in DOMAIN c /\ c[i] = a[i]
    BY <1>1, <1>2 DEF c
  <2> QED BY <2>1 DEF Builder!Range
<1>5. ASSUME NEW i \in DOMAIN b
      PROVE  b[i] \in Builder!Range(c)
  <2>1. i + Len(a) \in DOMAIN c /\ c[i + Len(a)] = b[i]
    BY <1>1, <1>2 DEF c
  <2> QED BY <2>1 DEF Builder!Range
<1>6. Builder!Range(c) = Builder!Range(a) \cup Builder!Range(b)
  BY <1>3, <1>4, <1>5 DEF Builder!Range
<1> QED BY <1>1, <1>6 DEF c

\* Flattening neither invents nor loses an element (Iterator::flatten).
LEMMA Flattened ==
    ASSUME NEW T, NEW seqs \in Seq(Seq(T))
    PROVE  /\ Builder!FlattenSeq(seqs) \in Seq(T)
           /\ Builder!Range(Builder!FlattenSeq(seqs)) = UNION {Builder!Range(seqs[i]) : i \in DOMAIN seqs}
<1> DEFINE N == Len(seqs)
           Parts(i) == UNION {Builder!Range(seqs[k]) : k \in 1 .. i}
<1>1. N \in Nat /\ DOMAIN seqs = 1 .. N /\ \A i \in 1 .. N : seqs[i] \in Seq(T)
  OBVIOUS
<1>2. CASE N = 0
  <2>1. seqs = <<>> /\ Builder!FlattenSeq(seqs) = seqs
    BY <1>2 DEF Builder!FlattenSeq
  <2>2. DOMAIN seqs = {}
    BY <1>1, <1>2
  <2>3. Builder!Range(seqs) = {} /\ UNION {Builder!Range(seqs[i]) : i \in DOMAIN seqs} = {}
    BY <2>2 DEF Builder!Range
  <2>4. seqs \in Seq(T)
    BY <2>1
  <2> QED BY <2>1, <2>3, <2>4
<1>3. CASE N # 0
  <2>1. PICK f : /\ f = [i \in 1 .. N |-> IF i = 1 THEN seqs[i] ELSE f[i - 1] \o seqs[i]]
                 /\ Builder!FlattenSeq(seqs) = f[N]
    BY <1>1, <1>3, FlattenIsLoop
  <2> DEFINE Bad == {i \in 1 .. N : ~(f[i] \in Seq(T) /\ Builder!Range(f[i]) = Parts(i))}
  <2>2. ASSUME Bad # {} PROVE FALSE
    <3>1. Bad \in SUBSET Nat
      BY <1>1
    <3>2. PICK m \in Bad : \A j \in Bad : m <= j
      BY <2>2, <3>1, MinExists
    <3>3. m \in 1 .. N /\ seqs[m] \in Seq(T)
      BY <1>1, <3>2
    <3>4. CASE m = 1
      <4>1. f[m] = seqs[m]
        BY <2>1, <3>3, <3>4
      <4>2. Parts(m) = Builder!Range(seqs[m])
        BY <3>4
      <4> QED BY <3>2, <3>3, <4>1, <4>2
    <3>5. CASE m # 1
      <4>1. m - 1 \in 1 .. N /\ m - 1 < m
        BY <1>1, <3>3, <3>5
      <4>2. m - 1 \notin Bad
        <5> HIDE DEF Bad
        <5> QED BY <3>1, <3>2, <4>1
      <4>3. f[m - 1] \in Seq(T) /\ Builder!Range(f[m - 1]) = Parts(m - 1)
        BY <4>1, <4>2
      <4>4. f[m] = f[m - 1] \o seqs[m]
        BY <2>1, <3>3, <3>5
      <4>5. f[m] \in Seq(T) /\ Builder!Range(f[m]) = Builder!Range(f[m - 1]) \cup Builder!Range(seqs[m])
        BY <3>3, <4>3, <4>4, ConcatRange
      <4>6. Parts(m) = Parts(m - 1) \cup Builder!Range(seqs[m])
        <5>1. 1 .. m = (1 .. m - 1) \cup {m}
          BY <1>1, <3>3
        <5> QED BY <5>1
      <4> QED BY <3>2, <4>3, <4>5, <4>6
    <3> QED BY <3>4, <3>5
  <2>3. N \in 1 .. N
    BY <1>1, <1>3
  <2>4. f[N] \in Seq(T) /\ Builder!Range(f[N]) = Parts(N)
    BY <2>2, <2>3
  <2> QED BY <1>1, <2>1, <2>4
<1> QED BY <1>2, <1>3
-----------------------------------------------------------------------------
(* Dependency graphs *)

\* The references a description may hold.
TaskRefs == {Builder!Foreign, Builder!Created} \cup [kind : {"Initial"}, at : Nat \ {0}]

LEMMA VecDomain ==
    ASSUME NEW s, Builder!IsVec(s)
    PROVE  s \in Seq(Builder!Range(s)) /\ Len(s) \in Nat /\ DOMAIN s = 1 .. Len(s)
BY DEF Builder!IsVec

LEMMA RefsAreRefs ==
    ASSUME NEW refs, Builder!IsRefs(refs)
    PROVE  refs \in Seq(TaskRefs)
<1>1. refs \in Seq(Builder!Range(refs)) /\ DOMAIN refs = 1 .. Len(refs) /\ Len(refs) \in Nat
  BY VecDomain DEF Builder!IsRefs
<1>2. \A n \in 1 .. Len(refs) : refs[n] \in TaskRefs
  BY <1>1 DEF Builder!IsRefs, Builder!IsTaskRef, TaskRefs
<1> QED BY <1>1, <1>2

\* merge_declared_dependencies: a task depends on what was declared in both ways, and on nothing
\* else.
LEMMA DependsOnBoth ==
    ASSUME NEW described, Builder!IsJobBuilder(described), NEW p \in DOMAIN described.tasks
    PROVE  /\ Builder!DependsOn(described, p) \in Seq(TaskRefs)
           /\ \A ref : ref \in Builder!Range(Builder!DependsOn(described, p)) <=>
                \/ ref \in Builder!Range(described.tasks[p].dependencies)
                \/ \E d \in DOMAIN described.declared :
                        /\ described.declared[d].task = Builder!Initial(p)
                        /\ ref \in Builder!Range(described.declared[d].on)
<1> DEFINE own == described.tasks[p].dependencies
           declared == described.declared
           parts == [n \in DOMAIN declared |->
                        IF declared[n].task = Builder!Initial(p) THEN declared[n].on ELSE <<>>]
<1>1. own \in Seq(TaskRefs)
  BY RefsAreRefs DEF Builder!IsJobBuilder, Builder!IsTaskDefinition
<1>2. DOMAIN declared = 1 .. Len(declared) /\ Len(declared) \in Nat
  BY VecDomain DEF Builder!IsJobBuilder
<1>3. \A n \in DOMAIN declared : declared[n].on \in Seq(TaskRefs)
  BY RefsAreRefs DEF Builder!IsJobBuilder
<1>4. parts \in Seq(Seq(TaskRefs)) /\ DOMAIN parts = DOMAIN declared
  <2>1. \A n \in 1 .. Len(declared) : parts[n] \in Seq(TaskRefs)
    BY <1>2, <1>3
  <2>2. parts = [n \in 1 .. Len(declared) |-> parts[n]]
    BY <1>2
  <2> HIDE DEF parts
  <2> QED BY <1>2, <2>1, <2>2
<1>5. /\ Builder!FlattenSeq(parts) \in Seq(TaskRefs)
      /\ Builder!Range(Builder!FlattenSeq(parts)) = UNION {Builder!Range(parts[i]) : i \in DOMAIN parts}
  <2> HIDE DEF parts
  <2> QED BY <1>4, Flattened
<1>6. Builder!DependsOn(described, p) = own \o Builder!FlattenSeq(parts)
  BY DEF Builder!DependsOn, Builder!DeclaredDependencies
<1>7. /\ Builder!DependsOn(described, p) \in Seq(TaskRefs)
      /\ Builder!Range(Builder!DependsOn(described, p))
            = Builder!Range(own) \cup Builder!Range(Builder!FlattenSeq(parts))
  <2> HIDE DEF parts, own
  <2> QED BY <1>1, <1>5, <1>6, ConcatRange
<1>8. ASSUME NEW ref
      PROVE  ref \in Builder!Range(Builder!FlattenSeq(parts)) <=>
                \E d \in DOMAIN declared : declared[d].task = Builder!Initial(p) /\ ref \in Builder!Range(declared[d].on)
  <2>1. \A d \in DOMAIN declared : parts[d] = IF declared[d].task = Builder!Initial(p) THEN declared[d].on ELSE <<>>
    OBVIOUS
  <2>2. Builder!Range(<<>>) = {}
    BY DEF Builder!Range
  <2> HIDE DEF parts, declared
  <2>3. ref \in Builder!Range(Builder!FlattenSeq(parts)) <=> \E d \in DOMAIN declared : ref \in Builder!Range(parts[d])
    BY <1>4, <1>5
  <2>4. \A d \in DOMAIN declared :
            ref \in Builder!Range(parts[d]) <=>
                declared[d].task = Builder!Initial(p) /\ ref \in Builder!Range(declared[d].on)
    BY <2>1, <2>2
  <2> QED BY <2>3, <2>4
<1> HIDE DEF parts
<1> QED BY <1>7, <1>8

\* A definition without a flaw is a graph on the positions of its tasks (resolve_initial_position).
LEMMA EdgesStayInside ==
    ASSUME NEW described, Builder!IsJobBuilder(described), Builder!DefinitionFlaw(described) = "None"
    PROVE  /\ DOMAIN described.tasks = 1 .. Len(described.tasks) /\ Len(described.tasks) \in Nat
           /\ DOMAIN Builder!Edges(described) = DOMAIN described.tasks
           /\ \A p \in DOMAIN described.tasks :
                /\ \E m \in Nat : DOMAIN Builder!Edges(described)[p] = 1 .. m
                /\ \A e \in DOMAIN Builder!Edges(described)[p] :
                        Builder!Edges(described)[p][e] \in DOMAIN described.tasks
<1>1. DOMAIN described.tasks = 1 .. Len(described.tasks) /\ Len(described.tasks) \in Nat
  BY VecDomain DEF Builder!IsJobBuilder
<1>2. DOMAIN Builder!Edges(described) = DOMAIN described.tasks
  BY DEF Builder!Edges
<1>3. ASSUME NEW p \in DOMAIN described.tasks
      PROVE  /\ \E m \in Nat : DOMAIN Builder!Edges(described)[p] = 1 .. m
             /\ \A e \in DOMAIN Builder!Edges(described)[p] :
                    Builder!Edges(described)[p][e] \in DOMAIN described.tasks
  <2> DEFINE refs == Builder!DependsOn(described, p)
  <2>1. refs \in Seq(TaskRefs)
    BY DependsOnBoth
  <2>2. Builder!Edges(described)[p] = [n \in DOMAIN refs |-> refs[n].at]
    BY DEF Builder!Edges
  <2>3. ASSUME NEW ref \in Builder!Range(refs)
        PROVE  Builder!IsResolvable(ref, Len(described.tasks))
    BY DEF Builder!DefinitionFlaw
  <2> HIDE DEF refs
  <2>4. \A n \in DOMAIN refs : refs[n].at \in 1 .. Len(described.tasks)
    BY <2>3 DEF Builder!Range, Builder!IsResolvable
  <2>5. DOMAIN refs = 1 .. Len(refs) /\ Len(refs) \in Nat
    BY <2>1
  <2> QED BY <1>1, <2>2, <2>4, <2>5
<1> QED BY <1>1, <1>2, <1>3

\* A reference that resolves is one to the position it resolves to.
LEMMA ResolvedRef ==
    ASSUME NEW ref \in TaskRefs, NEW count, Builder!IsResolvable(ref, count)
    PROVE  ref = Builder!Initial(ref.at) /\ ref.at \in 1 .. count
BY DEF TaskRefs, Builder!IsResolvable, Builder!Foreign, Builder!Created, Builder!Initial

\* The graph of a definition without a flaw is what was said: every task a declaration is for is one
\* of this job, and so is every task it waits for.
LEMMA SaidIsSearched ==
    ASSUME NEW described, Builder!IsJobBuilder(described), Builder!DefinitionFlaw(described) = "None"
    PROVE  Builder!Said(described) = Builder!EdgePairs(Builder!Edges(described))
<1> DEFINE positions == DOMAIN described.tasks
           Refs(p) == Builder!Range(Builder!DependsOn(described, p))
<1>1. positions = 1 .. Len(described.tasks) /\ DOMAIN Builder!Edges(described) = positions
  BY EdgesStayInside
<1>2. ASSUME NEW p \in positions
      PROVE  {Builder!Initial(q) : q \in Builder!Range(Builder!Edges(described)[p])} = Refs(p)
  <2> DEFINE refs == Builder!DependsOn(described, p)
  <2>1. refs \in Seq(TaskRefs)
    BY DependsOnBoth
  <2>2. Builder!Edges(described)[p] = [n \in DOMAIN refs |-> refs[n].at]
    BY DEF Builder!Edges
  <2>3. \A ref \in Builder!Range(refs) : Builder!IsResolvable(ref, Len(described.tasks))
    BY DEF Builder!DefinitionFlaw
  <2> HIDE DEF refs
  <2>4. \A n \in DOMAIN refs : refs[n] = Builder!Initial(refs[n].at)
    <3>1. \A n \in DOMAIN refs : refs[n] \in TaskRefs /\ Builder!IsResolvable(refs[n], Len(described.tasks))
      BY <2>1, <2>3 DEF Builder!Range
    <3> QED BY <3>1, ResolvedRef
  <2>5. {Builder!Initial(q) : q \in Builder!Range(Builder!Edges(described)[p])} = Builder!Range(refs)
    BY <2>2, <2>4 DEF Builder!Range
  <2> QED BY <2>5 DEF refs
<1>3. ASSUME NEW d \in DOMAIN described.declared
      PROVE  \E p \in positions : described.declared[d].task = Builder!Initial(p)
  <2>1. described.declared[d].task \in TaskRefs
    BY DEF Builder!IsJobBuilder, Builder!IsTaskRef, TaskRefs
  <2>2. Builder!IsResolvable(described.declared[d].task, Len(described.tasks))
    BY DEF Builder!DefinitionFlaw, Builder!DeclarationsHaveTasks
  <2> QED BY <1>1, <2>1, <2>2, ResolvedRef
<1>4. ASSUME NEW p \in positions, NEW ref
      PROVE  ref \in Refs(p) <=> \/ ref \in Builder!Range(described.tasks[p].dependencies)
                                 \/ \E d \in DOMAIN described.declared :
                                        /\ described.declared[d].task = Builder!Initial(p)
                                        /\ ref \in Builder!Range(described.declared[d].on)
  BY DependsOnBoth
<1>5. Builder!EdgePairs(Builder!Edges(described)) = UNION {{<<Builder!Initial(p), ref>> : ref \in Refs(p)} : p \in positions}
  <2>1. ASSUME NEW p \in positions
        PROVE  {<<Builder!Initial(p), Builder!Initial(q)>> : q \in Builder!Range(Builder!Edges(described)[p])}
                    = {<<Builder!Initial(p), ref>> : ref \in Refs(p)}
    <3> HIDE DEF Refs
    <3> QED BY <1>2
  <2> HIDE DEF Refs
  <2> QED BY <1>1, <2>1 DEF Builder!EdgePairs
<1> HIDE DEF Refs
<1>6. ASSUME NEW pair
      PROVE  pair \in Builder!Said(described) <=>
                \/ \E p \in positions : \E ref \in Builder!Range(described.tasks[p].dependencies) :
                        pair = <<Builder!Initial(p), ref>>
                \/ \E d \in DOMAIN described.declared : \E ref \in Builder!Range(described.declared[d].on) :
                        pair = <<described.declared[d].task, ref>>
  BY DEF Builder!Said
<1>7. ASSUME NEW pair
      PROVE  pair \in Builder!EdgePairs(Builder!Edges(described)) <=>
                \E p \in positions : \E ref \in Refs(p) : pair = <<Builder!Initial(p), ref>>
  BY <1>5
<1>8. ASSUME NEW p \in positions, NEW ref \in Refs(p)
      PROVE  <<Builder!Initial(p), ref>> \in Builder!Said(described)
  <2>1. CASE ref \in Builder!Range(described.tasks[p].dependencies)
    BY <1>6, <2>1, Zenon
  <2>2. CASE \E d \in DOMAIN described.declared : /\ described.declared[d].task = Builder!Initial(p)
                                                  /\ ref \in Builder!Range(described.declared[d].on)
    BY <1>6, <2>2, Zenon
  <2> QED BY <1>4, <2>1, <2>2
<1>9. ASSUME NEW pair \in Builder!Said(described)
      PROVE  \E p \in positions : \E ref \in Refs(p) : pair = <<Builder!Initial(p), ref>>
  <2>1. CASE \E p \in positions : \E ref \in Builder!Range(described.tasks[p].dependencies) :
                pair = <<Builder!Initial(p), ref>>
    BY <1>4, <2>1
  <2>2. CASE \E d \in DOMAIN described.declared : \E ref \in Builder!Range(described.declared[d].on) :
                pair = <<described.declared[d].task, ref>>
    BY <1>3, <1>4, <2>2
  <2> QED BY <1>6, <2>1, <2>2
<1>10. ASSUME NEW pair
       PROVE  pair \in Builder!Said(described) <=> pair \in Builder!EdgePairs(Builder!Edges(described))
  <2>1. CASE pair \in Builder!Said(described)
    BY <1>7, <1>9, <2>1
  <2>2. CASE pair \in Builder!EdgePairs(Builder!Edges(described))
    <3>1. PICK p \in positions : \E ref \in Refs(p) : pair = <<Builder!Initial(p), ref>>
      BY <1>7, <2>2
    <3>2. PICK ref \in Refs(p) : pair = <<Builder!Initial(p), ref>>
      BY <3>1
    <3> QED BY <1>8, <2>2, <3>2
  <2> QED BY <2>1, <2>2
<1>11. \A S, T : (\A pair : pair \in S <=> pair \in T) => S = T
  OBVIOUS
<1> QED BY <1>10, <1>11, Zenon

-----------------------------------------------------------------------------
(* The search for cycles *)

\* A dependency graph: every edge leads to a position.
IsGraph(edges) ==
    \A p \in DOMAIN edges : /\ \E m \in Nat : DOMAIN edges[p] = 1 .. m
                            /\ \A e \in DOMAIN edges[p] : edges[p][e] \in DOMAIN edges

\* A walk may go one edge, or one edge further.
LEMMA ReachesNext ==
    ASSUME NEW edges, IsGraph(edges), NEW p \in DOMAIN edges, NEW e \in DOMAIN edges[p]
    PROVE  edges[p][e] \in Builder!ReachableFrom(edges, p)
BY DEF IsGraph, Builder!ReachableFrom, Builder!Range

LEMMA ReachesFurther ==
    ASSUME NEW edges, IsGraph(edges), NEW p \in DOMAIN edges, NEW q \in DOMAIN edges, NEW e \in DOMAIN edges[q],
           q \in Builder!ReachableFrom(edges, p)
    PROVE  edges[q][e] \in Builder!ReachableFrom(edges, p)
<1>1. edges[q][e] \in DOMAIN edges /\ edges[q][e] \in Builder!Range(edges[q])
  BY DEF IsGraph, Builder!Range
<1>2. ASSUME NEW S \in SUBSET DOMAIN edges, Builder!Range(edges[p]) \subseteq S,
             \A r \in S : Builder!Range(edges[r]) \subseteq S
      PROVE  edges[q][e] \in S
  <2>1. q \in S
    BY <1>2 DEF Builder!ReachableFrom
  <2> QED BY <1>1, <1>2, <2>1
<1> QED BY <1>1, <1>2 DEF Builder!ReachableFrom

\* A position is on no cycle if its edges lead into a set that nothing leads out of and that it is
\* not in.
LEMMA NoWayBack ==
    ASSUME NEW edges, NEW p \in DOMAIN edges, NEW S \in SUBSET DOMAIN edges, p \notin S,
           \A e \in DOMAIN edges[p] : edges[p][e] \in S,
           \A q \in S : \A e \in DOMAIN edges[q] : edges[q][e] \in S
    PROVE  ~Builder!IsOnCycle(edges, p)
<1>1. Builder!Range(edges[p]) \subseteq S /\ \A q \in S : Builder!Range(edges[q]) \subseteq S
  BY DEF Builder!Range
<1> QED BY <1>1 DEF Builder!IsOnCycle, Builder!ReachableFrom

SearchTyped(edges) ==
    /\ visits \in [DOMAIN edges -> {"Unseen", "OnStack", "Done"}] /\ start \in Nat \ {0}
    /\ stack \in Seq((DOMAIN edges) \X (Nat \ {0}))

\* The stack holds the positions on it once each, every one reachable from those below; the edges
\* of an entry that were taken lead to positions that are done, or to the entry above.
StackSound(edges) ==
    /\ \A p \in DOMAIN edges : visits[p] = "OnStack" <=> \E k \in 1 .. Len(stack) : stack[k][1] = p
    /\ \A k, l \in 1 .. Len(stack) :
            k < l => /\ stack[k][1] # stack[l][1]
                     /\ stack[l][1] \in Builder!ReachableFrom(edges, stack[k][1])
    /\ \A k \in 1 .. Len(stack) : \A e \in DOMAIN edges[stack[k][1]] :
            e < stack[k][2] => \/ visits[edges[stack[k][1]][e]] = "Done"
                               \/ k < Len(stack) /\ edges[stack[k][1]][e] = stack[k + 1][1]

\* A position that is done is on no cycle, and its edges lead to positions that are done.
SeenSound(edges) ==
    /\ \A p \in DOMAIN edges : p < start => visits[p] # "Unseen"
    /\ \A p \in DOMAIN edges :
            visits[p] = "Done" => /\ ~Builder!IsOnCycle(edges, p)
                                  /\ \A e \in DOMAIN edges[p] : visits[edges[p][e]] = "Done"

SearchSound(edges) == SearchTyped(edges) /\ StackSound(edges) /\ SeenSound(edges)

LEMMA SearchFromKeeps ==
    ASSUME NEW edges, IsGraph(edges), DOMAIN edges \in SUBSET Nat, SearchSound(edges), Builder!SearchFrom
    PROVE  SearchSound(edges)'
<1>1. /\ SearchTyped(edges) /\ StackSound(edges) /\ SeenSound(edges)
      /\ stack = <<>> /\ start' = start + 1 /\ start \in DOMAIN edges
  BY DEF SearchSound, SearchTyped, Builder!SearchFrom
<1>2. CASE visits[start] = "Unseen"
  <2>1. stack' = << <<start, 1>> >> /\ visits' = [visits EXCEPT ![start] = "OnStack"]
    BY <1>2 DEF Builder!SearchFrom
  <2>2. SearchTyped(edges)'
    BY <1>1, <2>1 DEF SearchTyped
  <2>3. Len(stack') = 1 /\ stack'[1] = <<start, 1>> /\ stack'[1][1] = start /\ stack'[1][2] = 1
    BY <2>1
  <2>4. /\ visits'[start] = "OnStack"
        /\ \A p \in DOMAIN edges : p # start => visits'[p] = visits[p] /\ visits[p] # "OnStack"
    BY <1>1, <2>1 DEF SearchTyped, StackSound
  <2>5. StackSound(edges)'
    <3>1. \A p \in DOMAIN edges : visits'[p] = "OnStack" <=> \E k \in 1 .. Len(stack') : stack'[k][1] = p
      BY <2>3, <2>4
    <3>2. \A k \in 1 .. Len(stack') : k = 1
      BY <2>3
    <3>3. \A e \in DOMAIN edges[start] : ~(e < 1)
      BY <1>1 DEF IsGraph
    <3> QED BY <2>3, <3>1, <3>2, <3>3 DEF StackSound
  <2>6. SeenSound(edges)'
    <3>1. \A p \in DOMAIN edges : p < start + 1 => p < start \/ p = start
      BY <1>1 DEF SearchTyped
    <3>2. \A p \in DOMAIN edges : visits[p] = "Done" => visits'[p] = "Done"
      BY <1>2, <2>4
    <3>3. \A p \in DOMAIN edges : visits'[p] = "Done" => visits[p] = "Done"
      BY <2>4
    <3>4. \A p \in DOMAIN edges : \A e \in DOMAIN edges[p] : edges[p][e] \in DOMAIN edges
      BY DEF IsGraph
    <3> QED BY <1>1, <2>4, <3>1, <3>2, <3>3, <3>4 DEF SeenSound
  <2> QED BY <2>2, <2>5, <2>6 DEF SearchSound
<1>3. CASE visits[start] # "Unseen"
  <2>1. UNCHANGED <<stack, visits>>
    BY <1>3 DEF Builder!SearchFrom
  <2>2. SearchTyped(edges)' /\ StackSound(edges)'
    BY <1>1, <2>1 DEF SearchTyped, StackSound
  <2>3. SeenSound(edges)'
    <3>1. \A p \in DOMAIN edges : p < start + 1 => p < start \/ p = start
      BY <1>1 DEF SearchTyped
    <3> QED BY <1>1, <1>3, <2>1, <3>1 DEF SeenSound
  <2> QED BY <2>2, <2>3 DEF SearchSound
<1> QED BY <1>2, <1>3

\* What a sequence is with its last element changed.
LEMMA ReplacedLast ==
    ASSUME NEW T, NEW s \in Seq(T), s # <<>>, NEW x \in T
    PROVE  /\ Append(Builder!Front(s), x) \in Seq(T)
           /\ Len(Append(Builder!Front(s), x)) = Len(s)
           /\ \A k \in 1 .. Len(s) : Append(Builder!Front(s), x)[k] = IF k = Len(s) THEN x ELSE s[k]
           /\ Builder!Front(s) \in Seq(T) /\ Len(Builder!Front(s)) = Len(s) - 1
           /\ \A k \in 1 .. Len(s) - 1 : Builder!Front(s)[k] = s[k]
<1>1. Len(s) \in Nat \ {0}
  OBVIOUS
<1>2. /\ Builder!Front(s) \in Seq(T) /\ Len(Builder!Front(s)) = Len(s) - 1
      /\ \A k \in 1 .. Len(s) - 1 : Builder!Front(s)[k] = s[k]
  <2>1. \A i \in 1 .. Len(s) - 1 : s[i] \in T
    BY <1>1
  <2>2. /\ SubSeq(s, 1, Len(s) - 1) \in Seq(T)
        /\ Len(SubSeq(s, 1, Len(s) - 1)) = IF 1 <= Len(s) - 1 THEN Len(s) - 1 - 1 + 1 ELSE 0
        /\ \A i \in 1 .. Len(s) - 1 - 1 + 1 : SubSeq(s, 1, Len(s) - 1)[i] = s[1 + i - 1]
    BY <1>1, <2>1, SubSeqProperties
  <2>3. Len(s) - 1 - 1 + 1 = Len(s) - 1 /\ (~(1 <= Len(s) - 1) => Len(s) - 1 = 0)
    <3>1. \A n \in Nat \ {0} : n - 1 - 1 + 1 = n - 1 /\ (~(1 <= n - 1) => n - 1 = 0)
      OBVIOUS
    <3> QED BY ONLY <1>1, <3>1
  <2>4. Len(SubSeq(s, 1, Len(s) - 1)) = Len(s) - 1
    BY <2>2, <2>3
  <2>5. ASSUME NEW i \in 1 .. Len(s) - 1
        PROVE  SubSeq(s, 1, Len(s) - 1)[i] = s[i]
    <3>1. 1 + i - 1 = i
      BY <1>1
    <3> QED BY <2>2, <2>3, <3>1
  <2> QED BY <2>2, <2>4, <2>5 DEF Builder!Front
<1> DEFINE f == Builder!Front(s)
<1> HIDE DEF f
<1>3. /\ Append(f, x) \in Seq(T) /\ Len(Append(f, x)) = Len(f) + 1
      /\ \A k \in 1 .. Len(f) : Append(f, x)[k] = f[k]
      /\ Append(f, x)[Len(f) + 1] = x
  <2>1. f \in Seq(T)
    BY <1>2 DEF f
  <2> QED BY ONLY <2>1, x \in T, AppendProperties
<1> QED BY <1>1, <1>2, <1>3 DEF f

\* The position on top and its next edge.
Top == stack[Len(stack)][1]
TopEdge == stack[Len(stack)][2]

\* What is known wherever an edge is looked at.
LEMMA TopSound ==
    ASSUME NEW edges, IsGraph(edges), SearchSound(edges), stack # <<>>
    PROVE  /\ Len(stack) \in Nat \ {0} /\ Top \in DOMAIN edges /\ TopEdge \in Nat \ {0} /\ visits[Top] = "OnStack"
           /\ \A k \in 1 .. Len(stack) : stack[k][1] \in DOMAIN edges /\ stack[k][2] \in Nat \ {0}
           /\ \A p \in DOMAIN edges : \A e \in DOMAIN edges[p] : edges[p][e] \in DOMAIN edges
           /\ \A e \in DOMAIN edges[Top] : e < TopEdge => visits[edges[Top][e]] = "Done"
<1>1. stack \in Seq((DOMAIN edges) \X (Nat \ {0})) /\ Len(stack) \in Nat \ {0} /\ StackSound(edges)
  BY DEF SearchSound, SearchTyped
<1>2. \A k \in 1 .. Len(stack) : stack[k] \in (DOMAIN edges) \X (Nat \ {0})
  BY <1>1
<1>3. \A k \in 1 .. Len(stack) : stack[k][1] \in DOMAIN edges /\ stack[k][2] \in Nat \ {0}
  BY <1>2
<1>4. Len(stack) \in 1 .. Len(stack) /\ ~(Len(stack) < Len(stack))
  BY <1>1
<1>5. visits[Top] = "OnStack"
  BY <1>1, <1>3, <1>4 DEF StackSound, Top
<1>6. \A e \in DOMAIN edges[Top] : e < TopEdge => visits[edges[Top][e]] = "Done"
  BY <1>1, <1>4 DEF StackSound, Top, TopEdge
<1> QED BY <1>1, <1>3, <1>4, <1>5, <1>6 DEF IsGraph, Top, TopEdge

\* An edge back to the stack closes a cycle.
LEMMA CycleIsCycle ==
    ASSUME NEW edges, IsGraph(edges), SearchSound(edges), stack # <<>>,
           TopEdge \in DOMAIN edges[Top], visits[edges[Top][TopEdge]] = "OnStack"
    PROVE  Builder!IsOnCycle(edges, edges[Top][TopEdge])
<1> DEFINE dependency == edges[Top][TopEdge]
<1>1. /\ Len(stack) \in Nat \ {0} /\ Top \in DOMAIN edges /\ dependency \in DOMAIN edges
  BY TopSound
<1>2. PICK k \in 1 .. Len(stack) : stack[k][1] = dependency
  BY <1>1 DEF SearchSound, StackSound
<1>3. CASE k = Len(stack)
  BY <1>1, <1>2, <1>3, ReachesNext DEF Top, Builder!IsOnCycle
<1>4. CASE k # Len(stack)
  <2>1. Top \in Builder!ReachableFrom(edges, dependency)
    BY <1>1, <1>2, <1>4 DEF SearchSound, StackSound, Top
  <2> QED BY <1>1, <2>1, ReachesFurther DEF Builder!IsOnCycle
<1> QED BY <1>3, <1>4

\* A position whose edges have all been taken is done: they lead to positions that are.
LEMMA PositionDone ==
    ASSUME NEW edges, IsGraph(edges), SearchSound(edges), stack # <<>>, TopEdge \notin DOMAIN edges[Top],
           visits' = [visits EXCEPT ![Top] = "Done"], stack' = Builder!Front(stack), start' = start
    PROVE  SearchSound(edges)'
<1>1. /\ Len(stack) \in Nat \ {0} /\ Top \in DOMAIN edges /\ TopEdge \in Nat \ {0} /\ visits[Top] = "OnStack"
      /\ \A k \in 1 .. Len(stack) : stack[k][1] \in DOMAIN edges /\ stack[k][2] \in Nat \ {0}
      /\ \A p \in DOMAIN edges : \A e \in DOMAIN edges[p] : edges[p][e] \in DOMAIN edges
      /\ \A e \in DOMAIN edges[Top] : e < TopEdge => visits[edges[Top][e]] = "Done"
  BY TopSound
<1>2. SearchTyped(edges) /\ StackSound(edges) /\ SeenSound(edges)
  BY DEF SearchSound
<1>3. /\ stack' \in Seq((DOMAIN edges) \X (Nat \ {0})) /\ Len(stack') = Len(stack) - 1
      /\ \A k \in 1 .. Len(stack) - 1 : stack'[k] = stack[k]
  <2>1. stack[Len(stack)] \in (DOMAIN edges) \X (Nat \ {0}) /\ stack \in Seq((DOMAIN edges) \X (Nat \ {0}))
    BY <1>1, <1>2 DEF SearchTyped
  <2> QED BY <2>1, ReplacedLast
<1>4. /\ visits' \in [DOMAIN edges -> {"Unseen", "OnStack", "Done"}] /\ visits'[Top] = "Done"
      /\ \A p \in DOMAIN edges : p # Top => visits'[p] = visits[p]
  BY <1>1, <1>2 DEF SearchTyped
<1>5. SearchTyped(edges)'
  BY <1>2, <1>3, <1>4 DEF SearchTyped
<1>6. \A e \in DOMAIN edges[Top] : visits[edges[Top][e]] = "Done"
  <2>1. PICK m \in Nat : DOMAIN edges[Top] = 1 .. m
    BY <1>1 DEF IsGraph
  <2>2. \A e \in 1 .. m : e < TopEdge
    BY <1>1, <2>1
  <2> QED BY <1>1, <2>1, <2>2
<1>7. \A k \in 1 .. Len(stack) - 1 : stack[k][1] # Top
  BY <1>1, <1>2 DEF StackSound, Top
<1>8. StackSound(edges)'
  <2>1. ASSUME NEW p \in DOMAIN edges
        PROVE  visits'[p] = "OnStack" <=> \E k \in 1 .. Len(stack') : stack'[k][1] = p
    <3>1. CASE p = Top
      BY <1>1, <1>3, <1>4, <1>7, <3>1
    <3>2. CASE p # Top
      <4>1. \A k \in 1 .. Len(stack) : stack[k][1] = p => k \in 1 .. Len(stack) - 1
        BY <1>1, <3>2 DEF Top
      <4>2. visits[p] = "OnStack" <=> \E k \in 1 .. Len(stack) : stack[k][1] = p
        BY <1>2 DEF StackSound
      <4>3. \A k \in 1 .. Len(stack) - 1 : k \in 1 .. Len(stack)
        BY <1>1
      <4> QED BY <1>3, <1>4, <3>2, <4>1, <4>2, <4>3
    <3> QED BY <3>1, <3>2
  <2>2. ASSUME NEW k \in 1 .. Len(stack'), NEW l \in 1 .. Len(stack'), k < l
        PROVE  /\ stack'[k][1] # stack'[l][1]
               /\ stack'[l][1] \in Builder!ReachableFrom(edges, stack'[k][1])
    <3>1. k \in 1 .. Len(stack) /\ l \in 1 .. Len(stack) /\ stack'[k] = stack[k] /\ stack'[l] = stack[l]
      BY <1>1, <1>3
    <3> QED BY <1>2, <2>2, <3>1 DEF StackSound
  <2>3. ASSUME NEW k \in 1 .. Len(stack'), NEW e \in DOMAIN edges[stack'[k][1]], e < stack'[k][2]
        PROVE  \/ visits'[edges[stack'[k][1]][e]] = "Done"
               \/ k < Len(stack') /\ edges[stack'[k][1]][e] = stack'[k + 1][1]
    <3>1. k \in 1 .. Len(stack) /\ stack'[k] = stack[k] /\ stack[k][1] \in DOMAIN edges
      BY <1>1, <1>3
    <3>2. \/ visits[edges[stack[k][1]][e]] = "Done"
          \/ k < Len(stack) /\ edges[stack[k][1]][e] = stack[k + 1][1]
      BY <1>2, <2>3, <3>1 DEF StackSound
    <3>3. CASE visits[edges[stack[k][1]][e]] = "Done"
      BY <1>1, <1>4, <2>3, <3>1, <3>3
    <3>4. CASE k < Len(stack) - 1 /\ edges[stack[k][1]][e] = stack[k + 1][1]
      <4>1. k + 1 \in 1 .. Len(stack) - 1 /\ k < Len(stack')
        BY <1>1, <1>3, <3>1, <3>4
      <4> QED BY <1>3, <3>1, <3>4, <4>1
    <3>5. CASE k = Len(stack) - 1 /\ edges[stack[k][1]][e] = stack[k + 1][1]
      <4>1. edges[stack[k][1]][e] = Top
        BY <1>1, <3>5 DEF Top
      <4> QED BY <1>4, <3>1, <4>1
    <3>6. k < Len(stack) => k < Len(stack) - 1 \/ k = Len(stack) - 1
      BY <1>1, <3>1
    <3> QED BY <3>2, <3>3, <3>4, <3>5, <3>6
  <2> QED BY <2>1, <2>2, <2>3 DEF StackSound
<1>9. SeenSound(edges)'
  <2> DEFINE S == {p \in DOMAIN edges : visits[p] = "Done"}
  <2>1. /\ S \in SUBSET DOMAIN edges /\ Top \notin S
        /\ \A e \in DOMAIN edges[Top] : edges[Top][e] \in S
        /\ \A q \in S : \A e \in DOMAIN edges[q] : edges[q][e] \in S
    BY <1>1, <1>2, <1>6 DEF SeenSound
  <2>2. ~Builder!IsOnCycle(edges, Top)
    <3> HIDE DEF S
    <3> QED BY <1>1, <2>1, NoWayBack
  <2>3. \A p \in DOMAIN edges : visits[p] = "Done" => visits'[p] = "Done"
    BY <1>4
  <2>4. \A p \in DOMAIN edges : p < start => visits'[p] # "Unseen"
    BY <1>2, <1>4 DEF SeenSound
  <2>5. ASSUME NEW p \in DOMAIN edges, visits'[p] = "Done"
        PROVE  /\ ~Builder!IsOnCycle(edges, p)
               /\ \A e \in DOMAIN edges[p] : visits'[edges[p][e]] = "Done"
    <3>1. CASE p = Top
      BY <1>1, <1>6, <2>2, <2>3, <3>1
    <3>2. CASE p # Top
      BY <1>1, <1>2, <1>4, <2>3, <2>5, <3>2 DEF SeenSound
    <3> QED BY <3>1, <3>2
  <2> QED BY <2>4, <2>5 DEF SeenSound
<1> QED BY <1>5, <1>8, <1>9 DEF SearchSound

\* An edge to a position that is done leads nowhere new.
LEMMA EdgeTaken ==
    ASSUME NEW edges, IsGraph(edges), SearchSound(edges), stack # <<>>, TopEdge \in DOMAIN edges[Top],
           visits[edges[Top][TopEdge]] = "Done", visits' = visits,
           stack' = Append(Builder!Front(stack), <<Top, TopEdge + 1>>), start' = start
    PROVE  SearchSound(edges)'
<1>1. /\ Len(stack) \in Nat \ {0} /\ Top \in DOMAIN edges /\ TopEdge \in Nat \ {0}
      /\ \A k \in 1 .. Len(stack) : stack[k][1] \in DOMAIN edges /\ stack[k][2] \in Nat \ {0}
      /\ \A e \in DOMAIN edges[Top] : e < TopEdge => visits[edges[Top][e]] = "Done"
  BY TopSound
<1>2. SearchTyped(edges) /\ StackSound(edges) /\ SeenSound(edges)
  BY DEF SearchSound
<1>3. /\ stack' \in Seq((DOMAIN edges) \X (Nat \ {0})) /\ Len(stack') = Len(stack)
      /\ \A k \in 1 .. Len(stack) : stack'[k] = IF k = Len(stack) THEN <<Top, TopEdge + 1>> ELSE stack[k]
  <2> DEFINE T == (DOMAIN edges) \X (Nat \ {0})
             x == <<Top, TopEdge + 1>>
  <2>1. x \in T /\ stack \in Seq(T)
    BY <1>1, <1>2 DEF SearchTyped
  <2> HIDE DEF T, x
  <2>2. /\ Append(Builder!Front(stack), x) \in Seq(T) /\ Len(Append(Builder!Front(stack), x)) = Len(stack)
        /\ \A k \in 1 .. Len(stack) :
                Append(Builder!Front(stack), x)[k] = IF k = Len(stack) THEN x ELSE stack[k]
    BY <2>1, ReplacedLast
  <2> QED BY <2>2 DEF T, x
<1>4. \A k \in 1 .. Len(stack) : stack'[k][1] = stack[k][1]
  BY <1>3 DEF Top
<1>5. SearchTyped(edges)' /\ SeenSound(edges)'
  BY <1>2, <1>3 DEF SearchTyped, SeenSound
<1>6. ASSUME NEW k \in 1 .. Len(stack'), NEW e \in DOMAIN edges[stack'[k][1]], e < stack'[k][2]
      PROVE  \/ visits'[edges[stack'[k][1]][e]] = "Done"
             \/ k < Len(stack') /\ edges[stack'[k][1]][e] = stack'[k + 1][1]
  <2>1. k \in 1 .. Len(stack) /\ stack'[k][1] = stack[k][1]
    BY <1>3, <1>4
  <2>2. CASE k = Len(stack)
    <3>1. stack'[k][2] = TopEdge + 1 /\ stack[k][1] = Top
      BY <1>3, <2>1, <2>2 DEF Top
    <3>2. PICK m \in Nat : DOMAIN edges[Top] = 1 .. m
      BY <1>1 DEF IsGraph
    <3>3. e < TopEdge \/ e = TopEdge
      BY <1>1, <1>6, <2>1, <3>1, <3>2
    <3> QED BY <1>1, <2>1, <3>1, <3>3
  <2>3. CASE k # Len(stack)
    <3>1. stack'[k] = stack[k]
      BY <1>3, <2>1, <2>3
    <3>2. k + 1 \in 1 .. Len(stack)
      BY <1>1, <2>1, <2>3
    <3>3. \/ visits[edges[stack[k][1]][e]] = "Done"
          \/ k < Len(stack) /\ edges[stack[k][1]][e] = stack[k + 1][1]
      BY <1>2, <1>6, <2>1, <3>1 DEF StackSound
    <3> QED BY <1>3, <1>4, <3>1, <3>2, <3>3
  <2> QED BY <2>2, <2>3
<1>7. ASSUME NEW k \in 1 .. Len(stack'), NEW l \in 1 .. Len(stack'), k < l
      PROVE  /\ stack'[k][1] # stack'[l][1]
             /\ stack'[l][1] \in Builder!ReachableFrom(edges, stack'[k][1])
  BY <1>2, <1>3, <1>4, <1>7 DEF StackSound
<1>8. ASSUME NEW p \in DOMAIN edges
      PROVE  visits'[p] = "OnStack" <=> \E k \in 1 .. Len(stack') : stack'[k][1] = p
  <2>1. visits[p] = "OnStack" <=> \E k \in 1 .. Len(stack) : stack[k][1] = p
    BY <1>2 DEF StackSound
  <2>2. Len(stack') = Len(stack) /\ visits'[p] = visits[p]
    BY <1>3
  <2> QED BY ONLY <1>4, <2>1, <2>2
<1>9. StackSound(edges)'
  BY <1>6, <1>7, <1>8 DEF StackSound
<1> QED BY <1>5, <1>9 DEF SearchSound

\* An edge to a position not seen yet puts it on the stack, above all it is reachable from.
LEMMA EdgeFollowed ==
    ASSUME NEW edges, IsGraph(edges), SearchSound(edges), stack # <<>>, TopEdge \in DOMAIN edges[Top],
           NEW next, next = edges[Top][TopEdge], visits[next] = "Unseen",
           visits' = [visits EXCEPT ![next] = "OnStack"],
           stack' = Append(Append(Builder!Front(stack), <<Top, TopEdge + 1>>), <<next, 1>>), start' = start
    PROVE  SearchSound(edges)'
<1> DEFINE L == Len(stack)
           rest == Append(Builder!Front(stack), <<Top, TopEdge + 1>>)
<1>1. /\ L \in Nat \ {0} /\ Top \in DOMAIN edges /\ TopEdge \in Nat \ {0}
      /\ \A k \in 1 .. L : stack[k][1] \in DOMAIN edges /\ stack[k][2] \in Nat \ {0}
      /\ \A p \in DOMAIN edges : \A e \in DOMAIN edges[p] : edges[p][e] \in DOMAIN edges
      /\ \A e \in DOMAIN edges[Top] : e < TopEdge => visits[edges[Top][e]] = "Done"
  BY TopSound
<1>2. SearchTyped(edges) /\ StackSound(edges) /\ SeenSound(edges) /\ next \in DOMAIN edges
  BY <1>1 DEF SearchSound
<1>3. /\ rest \in Seq((DOMAIN edges) \X (Nat \ {0})) /\ Len(rest) = L
      /\ \A k \in 1 .. L : rest[k] = IF k = L THEN <<Top, TopEdge + 1>> ELSE stack[k]
  <2> DEFINE T == (DOMAIN edges) \X (Nat \ {0})
             x == <<Top, TopEdge + 1>>
  <2>1. x \in T /\ stack \in Seq(T)
    BY <1>1, <1>2 DEF SearchTyped
  <2> HIDE DEF T, x
  <2>2. /\ Append(Builder!Front(stack), x) \in Seq(T) /\ Len(Append(Builder!Front(stack), x)) = Len(stack)
        /\ \A k \in 1 .. Len(stack) :
                Append(Builder!Front(stack), x)[k] = IF k = Len(stack) THEN x ELSE stack[k]
    BY <2>1, ReplacedLast
  <2> QED BY <2>2 DEF T, x
<1>4. /\ stack' \in Seq((DOMAIN edges) \X (Nat \ {0})) /\ Len(stack') = L + 1
      /\ \A k \in 1 .. L : stack'[k] = rest[k]
      /\ stack'[L + 1] = <<next, 1>>
  <2> DEFINE T == (DOMAIN edges) \X (Nat \ {0})
             x == <<next, 1>>
  <2>1. x \in T /\ stack' = Append(rest, x) /\ rest \in Seq(T)
    BY <1>2, <1>3
  <2> HIDE DEF rest, T, x
  <2>2. /\ stack' \in Seq(T) /\ Len(stack') = Len(rest) + 1
        /\ \A k \in 1 .. Len(rest) : stack'[k] = rest[k]
        /\ stack'[Len(rest) + 1] = x
    BY ONLY <2>1, AppendProperties
  <2> QED BY <1>3, <2>2 DEF T, x
<1>5. /\ \A k \in 1 .. L : stack'[k][1] = stack[k][1] /\ (k # L => stack'[k] = stack[k])
      /\ stack'[L][1] = Top /\ stack'[L][2] = TopEdge + 1 /\ stack'[L + 1][1] = next /\ stack'[L + 1][2] = 1
  <2>1. L \in 1 .. L
    BY <1>1
  <2> HIDE DEF rest
  <2>2. stack'[L] = <<Top, TopEdge + 1>>
    BY <1>3, <1>4, <2>1
  <2> QED BY <1>3, <1>4, <2>1, <2>2 DEF Top
<1> HIDE DEF rest
<1>6. \A k \in 1 .. Len(stack') : k \in 1 .. L \/ k = L + 1
  BY <1>1, <1>4
<1>7. /\ visits' \in [DOMAIN edges -> {"Unseen", "OnStack", "Done"}] /\ visits'[next] = "OnStack"
      /\ \A p \in DOMAIN edges : p # next => visits'[p] = visits[p]
  BY <1>2 DEF SearchTyped
<1>8. SearchTyped(edges)'
  BY <1>2, <1>4, <1>7 DEF SearchTyped
<1>9. \A p \in DOMAIN edges : (visits[p] = "Done" <=> visits'[p] = "Done") /\ (visits'[p] = "Unseen" => visits[p] = "Unseen")
  BY <1>7
<1>10. SeenSound(edges)'
  BY <1>1, <1>2, <1>9 DEF SeenSound
<1>11. \A k \in 1 .. L : stack[k][1] # next
  BY <1>1, <1>2 DEF StackSound
<1>12. ASSUME NEW p \in DOMAIN edges
       PROVE  visits'[p] = "OnStack" <=> \E k \in 1 .. Len(stack') : stack'[k][1] = p
  <2>1. CASE p = next
    <3>1. L + 1 \in 1 .. Len(stack')
      BY <1>1, <1>4
    <3> QED BY <1>5, <1>7, <2>1, <3>1
  <2>2. CASE p # next
    <3>1. visits[p] = "OnStack" <=> \E k \in 1 .. L : stack[k][1] = p
      BY <1>2 DEF StackSound
    <3>2. \A k \in 1 .. L : k \in 1 .. Len(stack')
      BY <1>1, <1>4
    <3>3. visits'[p] = visits[p]
      BY <1>7, <2>2
    <3>4. ASSUME NEW k \in 1 .. Len(stack'), stack'[k][1] = p
          PROVE  \E l \in 1 .. L : stack[l][1] = p
      BY <1>5, <1>6, <2>2, <3>4
    <3>5. ASSUME NEW k \in 1 .. L, stack[k][1] = p
          PROVE  \E l \in 1 .. Len(stack') : stack'[l][1] = p
      BY <1>5, <3>2, <3>5
    <3> QED BY <3>1, <3>3, <3>4, <3>5
  <2> QED BY <2>1, <2>2
<1>13. ASSUME NEW k \in 1 .. Len(stack'), NEW l \in 1 .. Len(stack'), k < l
       PROVE  /\ stack'[k][1] # stack'[l][1]
              /\ stack'[l][1] \in Builder!ReachableFrom(edges, stack'[k][1])
  <2>1. k \in 1 .. L
    BY <1>1, <1>4, <1>13
  <2>2. CASE l \in 1 .. L
    BY <1>2, <1>5, <1>13, <2>1, <2>2 DEF StackSound
  <2>3. CASE l = L + 1
    <3>1. CASE k = L
      BY <1>1, <1>5, <1>11, <2>1, <2>3, <3>1, ReachesNext DEF Top
    <3>2. CASE k # L
      <4>1. L \in 1 .. L /\ k < L
        BY <1>1, <2>1, <3>2
      <4>2. Top \in Builder!ReachableFrom(edges, stack[k][1])
        BY <1>2, <2>1, <4>1 DEF StackSound, Top
      <4>3. next \in Builder!ReachableFrom(edges, stack[k][1])
        BY <1>1, <2>1, <4>2, ReachesFurther
      <4> QED BY <1>5, <1>11, <2>1, <2>3, <4>3
    <3> QED BY <3>1, <3>2
  <2> QED BY <1>6, <2>2, <2>3
<1>14. ASSUME NEW k \in 1 .. Len(stack'), NEW e \in DOMAIN edges[stack'[k][1]], e < stack'[k][2]
       PROVE  \/ visits'[edges[stack'[k][1]][e]] = "Done"
              \/ k < Len(stack') /\ edges[stack'[k][1]][e] = stack'[k + 1][1]
  <2>1. CASE k = L + 1
    <3>1. PICK m \in Nat : DOMAIN edges[next] = 1 .. m
      BY <1>2 DEF IsGraph
    <3> QED BY <1>5, <1>14, <2>1, <3>1
  <2>2. CASE k = L
    <3>1. PICK m \in Nat : DOMAIN edges[Top] = 1 .. m
      BY <1>1 DEF IsGraph
    <3>2. e < TopEdge \/ e = TopEdge
      BY <1>1, <1>5, <1>14, <2>2, <3>1
    <3>3. k < Len(stack')
      BY <1>1, <1>4, <2>2
    <3> QED BY <1>1, <1>5, <1>9, <1>14, <2>2, <3>2, <3>3
  <2>3. CASE k \in 1 .. L /\ k # L
    <3>1. stack'[k] = stack[k] /\ k + 1 \in 1 .. L /\ k < Len(stack') /\ stack[k][1] \in DOMAIN edges
      BY <1>1, <1>4, <1>5, <2>3
    <3>2. \/ visits[edges[stack[k][1]][e]] = "Done"
          \/ k < Len(stack) /\ edges[stack[k][1]][e] = stack[k + 1][1]
      BY <1>2, <1>14, <2>3, <3>1 DEF StackSound
    <3> QED BY <1>1, <1>5, <1>9, <1>14, <3>1, <3>2
  <2> QED BY <1>6, <2>1, <2>2, <2>3
<1>15. StackSound(edges)'
  BY <1>12, <1>13, <1>14 DEF StackSound
<1> QED BY <1>8, <1>10, <1>15 DEF SearchSound

-----------------------------------------------------------------------------
(* The steps of build *)

NoCycle(described) ==
    \A p \in DOMAIN Builder!Edges(described) : ~Builder!IsOnCycle(Builder!Edges(described), p)

\* The search is sound while it runs, what it has passed has no cycle, and what it refused has one.
SearchInv ==
    /\ phase = "Searching" =>
            /\ building \in DOMAIN description.jobs
            /\ Builder!DefinitionFlaw(Builder!Described) = "None"
            /\ \E edges : edges = Builder!Edges(Builder!Described) /\ SearchSound(edges)
    /\ phase # "Started" =>
            /\ \A n \in DOMAIN description.jobs :
                    n < building => /\ Builder!DefinitionFlaw(description.jobs[n]) = "None"
                                    /\ NoCycle(description.jobs[n])
            /\ cause.kind = "Cycle" =>
                    phase = "Refused" /\ Builder!IsOnCycle(Builder!Edges(Builder!Described), cause.at)

\* What JobRegistry::new and the settings of the pool let through.
BuiltInv ==
    phase = "Built" => /\ description.jobs # <<>> /\ Builder!RegistryFlaw(description.jobs) = "None"
                       /\ Builder!PoolFlaw(description) = "None"
                       /\ registry = Builder!ExecutorsByKey(description.jobs)

BuildInv == BuildSound /\ SearchInv /\ BuiltInv

\* The jobs of a description are what JobBuilder collects.
LEMMA DescribedJobs ==
    ASSUME BuildSound, phase # "Started"
    PROVE  /\ DOMAIN description.jobs = 1 .. Len(description.jobs) /\ Len(description.jobs) \in Nat
           /\ \A n \in DOMAIN description.jobs : Builder!IsJobBuilder(description.jobs[n])
<1>1. Builder!IsDescription(description)
  BY ManagerAssumption DEF BuildSound
<1>2. DOMAIN description.jobs = 1 .. Len(description.jobs) /\ Len(description.jobs) \in Nat
  BY <1>1, VecDomain DEF Builder!IsDescription
<1> QED BY <1>1, <1>2 DEF Builder!IsDescription

\* The search looks at a graph.
LEMMA DescribedGraph ==
    ASSUME NEW described, Builder!IsJobBuilder(described), Builder!DefinitionFlaw(described) = "None"
    PROVE  /\ IsGraph(Builder!Edges(described)) /\ DOMAIN Builder!Edges(described) = DOMAIN described.tasks
           /\ DOMAIN described.tasks = 1 .. Len(described.tasks) /\ Len(described.tasks) \in Nat
BY EdgesStayInside DEF IsGraph

\* A definition without a flaw before the search is not refused for a cycle.
LEMMA FlawsAreNoCycles ==
    ASSUME NEW described
    PROVE  /\ Builder!DefinitionFlaw(described) # "Cycle" /\ Builder!SettingsFlaw(described) # "Cycle"
           /\ Builder!RegistryFlaw(described.jobs) # "Cycle" /\ Builder!PoolFlaw(described) # "Cycle"
BY DEF Builder!DefinitionFlaw, Builder!SettingsFlaw, Builder!RegistryFlaw, Builder!PoolFlaw

\* A step that refuses for another reason, or goes on searching the same job.
LEMMA RefusedElsewhere ==
    ASSUME BuildInv, phase \in {"Jobs", "Searching"}, NEW flaw, flaw # "Cycle", NEW at, Builder!Refuse(flaw, at)
    PROVE  SearchInv' /\ BuiltInv'
<1>1. phase' = "Refused" /\ cause'.kind # "Cycle" /\ description' = description /\ building' = building
  BY DEF Builder!Refuse
<1> QED BY <1>1 DEF BuildInv, SearchInv, BuiltInv, NoCycle

LEMMA SearchGoesOn ==
    ASSUME BuildInv, phase = "Searching", UNCHANGED <<description, phase, building, cause, registry>>,
           NEW edges, edges = Builder!Edges(Builder!Described), SearchSound(edges)'
    PROVE  SearchInv' /\ BuiltInv'
<1>1. Builder!Described' = Builder!Described
  BY DEF Builder!Described
<1> QED BY <1>1 DEF BuildInv, SearchInv, BuiltInv, NoCycle

\* JobDefinition::new up to the search: nothing is seen yet.
LEMMA BuildDefinitionKeeps ==
    ASSUME BuildInv, Builder!BuildDefinition
    PROVE  SearchInv' /\ BuiltInv'
<1>1. phase = "Jobs" /\ building \in DOMAIN description.jobs /\ BuildSound /\ SearchInv
  BY DEF Builder!BuildDefinition, BuildInv
<1>2. CASE Builder!DefinitionFlaw(Builder!Described) # "None"
  <2>1. Builder!Refuse(Builder!DefinitionFlaw(Builder!Described), 0)
    BY <1>2 DEF Builder!BuildDefinition
  <2> QED BY <1>1, <2>1, FlawsAreNoCycles, RefusedElsewhere
<1>3. CASE Builder!DefinitionFlaw(Builder!Described) = "None"
  <2>0. PICK edges : edges = Builder!Edges(Builder!Described)
    OBVIOUS
  <2>1. /\ phase' = "Searching" /\ visits' = [p \in DOMAIN Builder!Described.tasks |-> "Unseen"]
        /\ stack' = <<>> /\ start' = 1 /\ UNCHANGED <<description, building, cause, registry>>
    BY <1>3 DEF Builder!BuildDefinition
  <2>2. Builder!Described' = Builder!Described
    BY <2>1 DEF Builder!Described
  <2>3. Builder!IsJobBuilder(Builder!Described)
    BY <1>1, DescribedJobs DEF Builder!Described
  <2>4. /\ IsGraph(edges) /\ DOMAIN edges = DOMAIN Builder!Described.tasks
        /\ DOMAIN Builder!Described.tasks = 1 .. Len(Builder!Described.tasks) /\ Len(Builder!Described.tasks) \in Nat
    BY <1>3, <2>0, <2>3, DescribedGraph
  <2>5. SearchSound(edges)'
    <3>1. visits' \in [DOMAIN edges -> {"Unseen", "OnStack", "Done"}] /\ \A p \in DOMAIN edges : visits'[p] = "Unseen"
      BY <2>1, <2>4
    <3>2. Len(stack') = 0 /\ stack' \in Seq((DOMAIN edges) \X (Nat \ {0}))
      BY <2>1
    <3>3. \A p \in DOMAIN edges : ~(p < 1)
      BY <2>4
    <3>4. SearchTyped(edges)'
      BY <2>1, <3>1, <3>2 DEF SearchTyped
    <3>5. StackSound(edges)'
      <4>1. \A k \in 1 .. Len(stack') : FALSE
        BY <3>2
      <4> QED BY <3>1, <4>1 DEF StackSound
    <3>6. SeenSound(edges)'
      BY <2>1, <3>1, <3>3 DEF SeenSound
    <3> QED BY <3>4, <3>5, <3>6 DEF SearchSound
  <2>6. edges = Builder!Edges(Builder!Described)'
    BY <2>0, <2>2
  <2>7. \A n \in DOMAIN description.jobs :
            n < building => Builder!DefinitionFlaw(description.jobs[n]) = "None" /\ NoCycle(description.jobs[n])
    BY <1>1 DEF SearchInv
  <2>8. cause.kind # "Cycle"
    BY <1>1 DEF SearchInv
  <2> QED BY <1>1, <1>3, <2>1, <2>2, <2>5, <2>6, <2>7, <2>8 DEF SearchInv, BuiltInv, NoCycle
<1> QED BY <1>2, <1>3

\* What is known wherever the search takes a turn.
LEMMA SearchIsOn ==
    ASSUME BuildInv, phase = "Searching"
    PROVE  \E edges : /\ edges = Builder!Edges(Builder!Described) /\ SearchSound(edges) /\ IsGraph(edges)
                      /\ \E count \in Nat : DOMAIN edges = 1 .. count
<1>1. PICK edges : edges = Builder!Edges(Builder!Described) /\ SearchSound(edges)
  BY DEF BuildInv, SearchInv
<1>2. Builder!IsJobBuilder(Builder!Described) /\ Builder!DefinitionFlaw(Builder!Described) = "None"
  BY DescribedJobs DEF BuildInv, SearchInv, Builder!Described
<1>3. /\ IsGraph(edges) /\ DOMAIN edges = 1 .. Len(Builder!Described.tasks)
      /\ Len(Builder!Described.tasks) \in Nat
  BY <1>1, <1>2, DescribedGraph
<1> QED BY <1>1, <1>3

LEMMA SearchFromStep ==
    ASSUME BuildInv, Builder!SearchFrom
    PROVE  SearchInv' /\ BuiltInv'
<1>1. phase = "Searching" /\ UNCHANGED <<description, phase, building, cause, registry>>
  BY DEF Builder!SearchFrom
<1>2. PICK edges : /\ edges = Builder!Edges(Builder!Described) /\ SearchSound(edges) /\ IsGraph(edges)
                   /\ \E count \in Nat : DOMAIN edges = 1 .. count
  BY <1>1, SearchIsOn
<1>3. DOMAIN edges \in SUBSET Nat
  BY <1>2
<1>4. SearchSound(edges)'
  BY <1>2, <1>3, SearchFromKeeps
<1> QED BY <1>1, <1>2, <1>4, SearchGoesOn

\* One turn of find_dependency_cycle: a position is done, an edge closes a cycle, or it is taken.
LEMMA SearchEdgeStep ==
    ASSUME BuildInv, Builder!SearchEdge
    PROVE  SearchInv' /\ BuiltInv'
<1>1. phase = "Searching" /\ stack # <<>>
  BY DEF Builder!SearchEdge
<1>2. PICK edges : /\ edges = Builder!Edges(Builder!Described) /\ SearchSound(edges) /\ IsGraph(edges)
                   /\ \E count \in Nat : DOMAIN edges = 1 .. count
  BY <1>1, SearchIsOn
<1> DEFINE next == edges[Top][TopEdge]
<1>3. Builder!Last(stack)[1] = Top /\ Builder!Last(stack)[2] = TopEdge
  BY DEF Builder!Last, Top, TopEdge
<1>4. CASE TopEdge \notin DOMAIN edges[Top]
  <2>1. /\ visits' = [visits EXCEPT ![Top] = "Done"] /\ stack' = Builder!Front(stack)
        /\ UNCHANGED <<description, phase, building, start, cause, registry>>
    BY <1>2, <1>3, <1>4 DEF Builder!SearchEdge
  <2>2. SearchSound(edges)'
    BY <1>1, <1>2, <1>4, <2>1, PositionDone
  <2> QED BY <1>1, <1>2, <2>1, <2>2, SearchGoesOn
<1>5. CASE TopEdge \in DOMAIN edges[Top] /\ visits[next] = "OnStack"
  <2>1. Builder!Refuse("Cycle", next)
    BY <1>2, <1>3, <1>5 DEF Builder!SearchEdge, Builder!ClosesCycle
  <2>2. /\ phase' = "Refused" /\ cause'.at = next
        /\ UNCHANGED <<description, building, visits, stack, start, registry>>
    BY <2>1 DEF Builder!Refuse
  <2>3. Builder!IsOnCycle(edges, next)
    BY <1>1, <1>2, <1>5, CycleIsCycle
  <2>4. Builder!Described' = Builder!Described
    BY <2>2 DEF Builder!Described
  <2>5. Builder!IsOnCycle(Builder!Edges(Builder!Described), cause.at)'
    BY <1>2, <2>2, <2>3, <2>4
  <2> QED BY <1>1, <2>2, <2>5 DEF BuildInv, SearchInv, BuiltInv, NoCycle
<1>6. CASE TopEdge \in DOMAIN edges[Top] /\ visits[next] \notin {"OnStack", "Unseen"}
  <2>1. /\ visits' = visits /\ stack' = Append(Builder!Front(stack), <<Top, TopEdge + 1>>)
        /\ UNCHANGED <<description, phase, building, start, cause, registry>>
    BY <1>2, <1>3, <1>6 DEF Builder!SearchEdge, Builder!ClosesCycle
  <2>2. visits[next] = "Done"
    <3>1. next \in DOMAIN edges
      BY <1>1, <1>2, <1>6, TopSound
    <3> QED BY <1>2, <1>6, <3>1 DEF SearchSound, SearchTyped
  <2>3. SearchSound(edges)'
    BY <1>1, <1>2, <1>6, <2>1, <2>2, EdgeTaken
  <2> QED BY <1>1, <1>2, <2>1, <2>3, SearchGoesOn
<1>7. CASE TopEdge \in DOMAIN edges[Top] /\ visits[next] = "Unseen"
  <2>0. PICK dependency : dependency = next
    OBVIOUS
  <2>1. /\ visits' = [visits EXCEPT ![dependency] = "OnStack"]
        /\ stack' = Append(Append(Builder!Front(stack), <<Top, TopEdge + 1>>), <<dependency, 1>>)
        /\ UNCHANGED <<description, phase, building, start, cause, registry>>
    BY <1>2, <1>3, <1>7, <2>0 DEF Builder!SearchEdge, Builder!ClosesCycle
  <2>2. SearchSound(edges)'
    BY <1>1, <1>2, <1>7, <2>0, <2>1, EdgeFollowed
  <2> QED BY <1>1, <1>2, <2>1, <2>2, SearchGoesOn
<1> QED BY <1>4, <1>5, <1>6, <1>7

\* The search ended: every position is done.
LEMMA EndDefinitionStep ==
    ASSUME BuildInv, Builder!EndDefinition
    PROVE  SearchInv' /\ BuiltInv'
<1>1. phase = "Searching" /\ stack = <<>> /\ start \notin DOMAIN visits
  BY DEF Builder!EndDefinition
<1>2. PICK edges : /\ edges = Builder!Edges(Builder!Described) /\ SearchSound(edges) /\ IsGraph(edges)
                   /\ \E count \in Nat : DOMAIN edges = 1 .. count
  BY <1>1, SearchIsOn
<1>3. CASE Builder!SettingsFlaw(Builder!Described) # "None"
  <2>1. Builder!Refuse(Builder!SettingsFlaw(Builder!Described), 0)
    BY <1>3 DEF Builder!EndDefinition
  <2> QED BY <1>1, <2>1, FlawsAreNoCycles, RefusedElsewhere
<1>4. CASE Builder!SettingsFlaw(Builder!Described) = "None"
  <2>1. phase' = "Jobs" /\ building' = building + 1 /\ UNCHANGED <<description, stack, cause, registry>>
    BY <1>4 DEF Builder!EndDefinition
  <2>2. ASSUME NEW p \in DOMAIN edges
        PROVE  ~Builder!IsOnCycle(edges, p)
    <3>1. PICK count \in Nat : DOMAIN edges = 1 .. count
      BY <1>2
    <3>2. start \in Nat \ {0} /\ visits \in [DOMAIN edges -> {"Unseen", "OnStack", "Done"}]
      BY <1>2 DEF SearchSound, SearchTyped
    <3>3. p < start
      BY <1>1, <3>1, <3>2
    <3>4. visits[p] # "OnStack"
      <4>1. \A k \in 1 .. Len(stack) : FALSE
        BY <1>1
      <4> QED BY <1>2, <4>1 DEF SearchSound, StackSound
    <3>5. visits[p] = "Done"
      BY <1>2, <3>2, <3>3, <3>4 DEF SearchSound, SeenSound
    <3> QED BY <1>2, <3>5 DEF SearchSound, SeenSound
  <2>3. NoCycle(description.jobs[building]) /\ Builder!DefinitionFlaw(description.jobs[building]) = "None"
    BY <1>1, <1>2, <2>2 DEF NoCycle, Builder!Described, BuildInv, SearchInv
  <2>4. \A n \in DOMAIN description.jobs : n < building + 1 => n < building \/ n = building
    BY <1>1, DescribedJobs DEF BuildInv, BuildSound
  <2>5. \A n \in DOMAIN description.jobs :
            n < building + 1 => Builder!DefinitionFlaw(description.jobs[n]) = "None" /\ NoCycle(description.jobs[n])
    BY <1>1, <2>3, <2>4 DEF BuildInv, SearchInv
  <2>6. cause.kind # "Cycle"
    BY <1>1 DEF BuildInv, SearchInv
  <2> QED BY <2>1, <2>5, <2>6 DEF SearchInv, BuiltInv, NoCycle
<1> QED BY <1>3, <1>4

\* JobRegistry::new and what build checks after it.
LEMMA BuildStep ==
    ASSUME BuildInv, Builder!Build
    PROVE  SearchInv' /\ BuiltInv'
<1> DEFINE flaw == CASE description.jobs = <<>> -> "NoJobs"
                     [] Builder!RegistryFlaw(description.jobs) # "None" -> Builder!RegistryFlaw(description.jobs)
                     [] OTHER -> Builder!PoolFlaw(description)
<1>1. phase = "Jobs" /\ building \notin DOMAIN description.jobs
  BY DEF Builder!Build
<1>2. CASE flaw # "None"
  <2>1. Builder!Refuse(flaw, 0)
    BY <1>2 DEF Builder!Build
  <2>2. flaw # "Cycle"
    BY FlawsAreNoCycles
  <2> HIDE DEF flaw
  <2> QED BY <1>1, <2>1, <2>2, RefusedElsewhere
<1>3. CASE flaw = "None"
  <2>1. /\ phase' = "Built" /\ registry' = Builder!ExecutorsByKey(description.jobs)
        /\ UNCHANGED <<description, building, visits, stack, start, cause>>
    BY <1>3 DEF Builder!Build
  <2>2. /\ description.jobs # <<>> /\ Builder!RegistryFlaw(description.jobs) = "None"
        /\ Builder!PoolFlaw(description) = "None"
    BY <1>3
  <2>3. cause.kind # "Cycle"
    BY <1>1 DEF BuildInv, SearchInv
  <2> QED BY <1>1, <2>1, <2>2, <2>3 DEF BuildInv, SearchInv, BuiltInv, NoCycle
<1> QED BY <1>2, <1>3

-----------------------------------------------------------------------------
(* The registry *)

\* Two keys are the same string only for the same task code, or where one job code begins with the
\* other.
LEMMA KeysDiffer ==
    ASSUME NEW a, NEW b, NEW c, NEW d, Builder!IsVec(a), Builder!IsVec(b), Builder!IsVec(c), Builder!IsVec(d),
           Builder!TaskExecutorKey(a, b) = Builder!TaskExecutorKey(c, d)
    PROVE  /\ Builder!IsPrefix(a, c) \/ Builder!IsPrefix(c, a)
           /\ a = c => b = d
<1> DEFINE T == Builder!Range(a) \cup Builder!Range(b) \cup Builder!Range(c) \cup Builder!Range(d)
<1>1. ASSUME NEW s, s \in Seq(Builder!Range(s)), Builder!Range(s) \subseteq T
      PROVE  s \in Seq(T)
  <2> HIDE DEF T
  <2>1. \A i \in 1 .. Len(s) : s[i] \in T
    BY <1>1
  <2> QED BY <1>1, <2>1
<1>2. a \in Seq(T) /\ b \in Seq(T) /\ c \in Seq(T) /\ d \in Seq(T)
  <2>1. /\ Builder!Range(a) \subseteq T /\ Builder!Range(b) \subseteq T
        /\ Builder!Range(c) \subseteq T /\ Builder!Range(d) \subseteq T
    OBVIOUS
  <2> HIDE DEF T
  <2> QED BY <1>1, <2>1 DEF Builder!IsVec
<1> HIDE DEF T
<1>3. a \o b = c \o d
  BY DEF Builder!TaskExecutorKey
<1>4. ASSUME NEW u \in Seq(T), NEW v \in Seq(T)
      PROVE  /\ Len(u \o v) = Len(u) + Len(v) /\ Len(u) \in Nat /\ Len(v) \in Nat
             /\ \A i \in 1 .. Len(u) : (u \o v)[i] = u[i]
             /\ \A i \in 1 .. Len(v) : (u \o v)[Len(u) + i] = v[i]
  <2>1. /\ Len(u \o v) = Len(u) + Len(v) /\ Len(u) \in Nat /\ Len(v) \in Nat
        /\ \A i \in 1 .. Len(u) + Len(v) : (u \o v)[i] = IF i <= Len(u) THEN u[i] ELSE v[i - Len(u)]
    BY ConcatProperties
  <2>2. ASSUME NEW i \in 1 .. Len(u)
        PROVE  (u \o v)[i] = u[i]
    <3>1. i \in 1 .. Len(u) + Len(v) /\ i <= Len(u)
      BY <2>1
    <3> QED BY ONLY <2>1, <3>1
  <2>3. ASSUME NEW i \in 1 .. Len(v)
        PROVE  (u \o v)[Len(u) + i] = v[i]
    <3>1. Len(u) + i \in 1 .. Len(u) + Len(v) /\ ~(Len(u) + i <= Len(u)) /\ Len(u) + i - Len(u) = i
      BY <2>1
    <3> QED BY ONLY <2>1, <3>1
  <2> QED BY <2>1, <2>2, <2>3
<1>5. ASSUME NEW u \in Seq(T), NEW v \in Seq(T), NEW x \in Seq(T), NEW y \in Seq(T), u \o v = x \o y, Len(u) <= Len(x)
      PROVE  Builder!IsPrefix(u, x)
  <2>1. Len(u) \in Nat /\ Len(x) \in Nat /\ \A i \in 1 .. Len(u) : u[i] = x[i]
    <3>1. ASSUME NEW i \in 1 .. Len(u)
          PROVE  u[i] = x[i]
      <4>1. i \in 1 .. Len(x)
        BY <1>4, <1>5
      <4> QED BY <1>4, <1>5, <4>1
    <3> QED BY <1>4, <3>1
  <2>2. SubSeq(u, 1, Len(u)) = [i \in 1 .. Len(u) |-> u[i]] /\ SubSeq(x, 1, Len(u)) = [i \in 1 .. Len(u) |-> x[i]]
    BY <1>5, <2>1
  <2> QED BY <1>5, <2>1, <2>2 DEF Builder!IsPrefix
<1>6. Builder!IsPrefix(a, c) \/ Builder!IsPrefix(c, a)
  <2>1. Len(a) \in Nat /\ Len(c) \in Nat
    BY <1>2
  <2>2. CASE Len(a) <= Len(c)
    BY <1>2, <1>3, <1>5, <2>2
  <2>3. CASE Len(c) <= Len(a)
    BY <1>2, <1>3, <1>5, <2>3
  <2> QED BY <2>1, <2>2, <2>3
<1>7. ASSUME a = c
      PROVE  b = d
  <2>1. /\ Len(a \o b) = Len(a) + Len(b) /\ Len(a) \in Nat /\ Len(b) \in Nat
        /\ \A i \in 1 .. Len(b) : (a \o b)[Len(a) + i] = b[i]
        /\ Len(a \o d) = Len(a) + Len(d) /\ Len(d) \in Nat
        /\ \A i \in 1 .. Len(d) : (a \o d)[Len(a) + i] = d[i]
    BY <1>2, <1>4
  <2>2. a \o b = a \o d
    BY <1>3, <1>7
  <2>3. Len(b) = Len(d) /\ \A i \in 1 .. Len(b) : b[i] = d[i]
    BY <2>1, <2>2
  <2> QED BY <1>2, <2>3
<1> QED BY <1>6, <1>7

\* What a job registers is a vector of codes and executors, every one under the key of its code.
LEMMA RegistrationsAreKeyed ==
    ASSUME NEW described, Builder!IsJobBuilder(described)
    PROVE  /\ \E count \in Nat : DOMAIN Builder!Registrations(described) = 1 .. count
           /\ \A k \in DOMAIN Builder!Registrations(described) :
                    Builder!IsVec(Builder!Registrations(described)[k][1])
<1> DEFINE tasks == [n \in DOMAIN described.tasks |-> <<described.tasks[n].code, described.tasks[n].executor>>]
           runtime == described.runtime
           T == Builder!Range(tasks) \cup Builder!Range(runtime)
<1>1. /\ DOMAIN described.tasks = 1 .. Len(described.tasks) /\ Len(described.tasks) \in Nat
      /\ runtime \in Seq(Builder!Range(runtime)) /\ DOMAIN runtime = 1 .. Len(runtime) /\ Len(runtime) \in Nat
  BY VecDomain DEF Builder!IsJobBuilder
<1>2. tasks \in Seq(T)
  <2>1. \A i \in 1 .. Len(described.tasks) : tasks[i] \in T
    BY <1>1 DEF Builder!Range
  <2>2. tasks = [i \in 1 .. Len(described.tasks) |-> tasks[i]]
    BY <1>1
  <2> HIDE DEF tasks, T
  <2> QED BY <1>1, <2>1, <2>2
<1>3. runtime \in Seq(T)
  <2>1. \A i \in 1 .. Len(runtime) : runtime[i] \in T
    BY <1>1 DEF Builder!Range
  <2> HIDE DEF T, runtime
  <2> QED BY <1>1, <2>1
<1>4. \A i \in DOMAIN tasks : Builder!IsVec(tasks[i][1])
  BY DEF Builder!IsJobBuilder, Builder!IsTaskDefinition
<1>5. \A i \in DOMAIN runtime : Builder!IsVec(runtime[i][1])
  BY DEF Builder!IsJobBuilder
<1>6. Builder!Registrations(described) = tasks \o runtime
  BY DEF Builder!Registrations
<1> HIDE DEF tasks, runtime, T
<1>7. tasks \o runtime \in Seq(T) /\ Builder!Range(tasks \o runtime) = Builder!Range(tasks) \cup Builder!Range(runtime)
  BY <1>2, <1>3, ConcatRange
<1>8. \A x \in Builder!Range(tasks) \cup Builder!Range(runtime) : Builder!IsVec(x[1])
  BY <1>4, <1>5 DEF Builder!Range
<1>9. \A k \in DOMAIN (tasks \o runtime) : (tasks \o runtime)[k] \in Builder!Range(tasks \o runtime)
  BY DEF Builder!Range
<1>10. DOMAIN (tasks \o runtime) = 1 .. Len(tasks \o runtime) /\ Len(tasks \o runtime) \in Nat
  BY <1>7
<1> QED BY <1>6, <1>7, <1>8, <1>9, <1>10

\* The table holds what the last insertion under a key put there.
LEMMA LastInsertionHolds ==
    ASSUME NEW jobs, Builder!IsVec(jobs), \A n \in DOMAIN jobs : Builder!IsJobBuilder(jobs[n]),
           NEW n \in DOMAIN jobs, NEW k \in DOMAIN Builder!Registrations(jobs[n]),
           NEW key, key = Builder!TaskExecutorKey(jobs[n].code, Builder!Registrations(jobs[n])[k][1])
    PROVE  \E m \in DOMAIN jobs : \E i \in DOMAIN Builder!Registrations(jobs[m]) :
                /\ Builder!TaskExecutorKey(jobs[m].code, Builder!Registrations(jobs[m])[i][1]) = key
                /\ Builder!ExecutorsByKey(jobs)[key] = Builder!Registrations(jobs[m])[i][2]
<1> DEFINE T == UNION {Builder!Range(Builder!Keyed(jobs[m])) : m \in DOMAIN jobs}
           parts == [m \in DOMAIN jobs |-> Builder!Keyed(jobs[m])]
           inserted == Builder!FlattenSeq(parts)
           At == {i \in DOMAIN inserted : inserted[i][1] = key}
<1>1. DOMAIN jobs = 1 .. Len(jobs) /\ Len(jobs) \in Nat
  BY VecDomain
<1>2. ASSUME NEW m \in DOMAIN jobs
      PROVE  Builder!Keyed(jobs[m]) \in Seq(T)
  <2> DEFINE keyed == Builder!Keyed(jobs[m])
  <2>1. PICK count \in Nat : DOMAIN Builder!Registrations(jobs[m]) = 1 .. count
    BY RegistrationsAreKeyed
  <2>2. DOMAIN keyed = 1 .. count /\ keyed = [i \in 1 .. count |-> keyed[i]]
    BY <2>1 DEF Builder!Keyed
  <2>3. \A i \in DOMAIN keyed : keyed[i] \in T
    BY DEF Builder!Range
  <2> HIDE DEF keyed, T
  <2>4. keyed \in Seq(T)
    BY <2>2, <2>3
  <2> QED BY <2>4 DEF keyed
<1>3. parts \in Seq(Seq(T)) /\ DOMAIN parts = DOMAIN jobs
  <2> HIDE DEF T
  <2>1. \A m \in 1 .. Len(jobs) : parts[m] \in Seq(T)
    BY <1>1, <1>2
  <2>2. parts = [m \in 1 .. Len(jobs) |-> parts[m]]
    BY <1>1
  <2> HIDE DEF parts
  <2> QED BY <1>1, <2>1, <2>2
<1>4. /\ inserted \in Seq(T)
      /\ Builder!Range(inserted) = UNION {Builder!Range(parts[m]) : m \in DOMAIN parts}
  <2> HIDE DEF T, parts
  <2> QED BY <1>3, Flattened
<1>5. DOMAIN inserted = 1 .. Len(inserted) /\ Len(inserted) \in Nat
  <2> HIDE DEF T, inserted
  <2> QED BY <1>4
<1>6. At # {}
  <2>1. /\ k \in DOMAIN Builder!Keyed(jobs[n])
        /\ Builder!Keyed(jobs[n])[k][1] = key
    BY DEF Builder!Keyed
  <2>2. Builder!Keyed(jobs[n])[k] \in Builder!Range(parts[n]) /\ n \in DOMAIN parts
    BY <2>1 DEF Builder!Range
  <2> HIDE DEF parts, inserted
  <2>3. Builder!Keyed(jobs[n])[k] \in Builder!Range(inserted)
    BY <1>4, <2>2
  <2>4. PICK i \in DOMAIN inserted : inserted[i] = Builder!Keyed(jobs[n])[k]
    BY <2>3 DEF Builder!Range
  <2>5. inserted[i][1] = key
    BY <2>1, <2>4
  <2> QED BY <2>5
<1>7. PICK greatest \in At : \A j \in At : j <= greatest
  <2>1. At \in SUBSET (0 .. Len(inserted))
    <3> HIDE DEF inserted
    <3> QED BY <1>5
  <2> HIDE DEF At, inserted
  <2> QED BY <1>5, <1>6, <2>1, MaxExists
<1> DEFINE Latest(x) == CHOOSE i \in DOMAIN inserted :
                            /\ inserted[i][1] = x
                            /\ \A j \in DOMAIN inserted : inserted[j][1] = x => j <= i
           last == Latest(key)
<1>8. last \in DOMAIN inserted /\ inserted[last][1] = key
  <2> HIDE DEF inserted
  <2> QED BY <1>7
<1>9. Builder!ExecutorsByKey(jobs)[key] = inserted[last][2]
  <2>1. key \in {inserted[i][1] : i \in DOMAIN inserted}
    <3> HIDE DEF inserted, last
    <3> QED BY <1>8
  <2>2. Builder!ExecutorsByKey(jobs) =
            [x \in {inserted[i][1] : i \in DOMAIN inserted} |-> inserted[Latest(x)][2]]
    BY DEF Builder!ExecutorsByKey
  <2> HIDE DEF inserted, Latest
  <2> QED BY <2>1, <2>2
<1> HIDE DEF last
<1>10. PICK m \in DOMAIN jobs : inserted[last] \in Builder!Range(Builder!Keyed(jobs[m]))
  <2>1. inserted[last] \in Builder!Range(inserted)
    BY <1>8 DEF Builder!Range
  <2> HIDE DEF inserted
  <2>2. PICK m \in DOMAIN parts : inserted[last] \in Builder!Range(parts[m])
    BY <1>4, <2>1
  <2> QED BY <2>2
<1> HIDE DEF inserted
<1>11. PICK i \in DOMAIN Builder!Registrations(jobs[m]) :
            inserted[last] = <<Builder!TaskExecutorKey(jobs[m].code, Builder!Registrations(jobs[m])[i][1]),
                               Builder!Registrations(jobs[m])[i][2]>>
  BY <1>10 DEF Builder!Range, Builder!Keyed
<1> QED BY <1>8, <1>9, <1>11

\* Every task gets the executor its own job registered (JobRegistry::new), where no job's code begins
\* with another's.
LEMMA BuiltExecutors ==
    ASSUME BuildInv, phase = "Built", Builder!CodesAreApart
    PROVE  Builder!ExecutorIsItsOwn
<1> DEFINE jobs == description.jobs
<1>1. /\ building \in Nat \ {0} /\ building \notin DOMAIN jobs /\ DOMAIN jobs = 1 .. Len(jobs) /\ Len(jobs) \in Nat
      /\ \A n \in DOMAIN jobs : Builder!IsJobBuilder(jobs[n])
  BY DescribedJobs DEF BuildInv, BuildSound
<1>2. Builder!IsVec(jobs)
  BY ManagerAssumption DEF BuildInv, BuildSound, Builder!IsDescription
<1> SUFFICES ASSUME NEW n \in DOMAIN jobs, NEW k \in DOMAIN Builder!Registrations(jobs[n])
             PROVE  Builder!GetTaskExecutor(registry, jobs[n].code, Builder!Registrations(jobs[n])[k][1])
                        = Builder!Registrations(jobs[n])[k][2]
  BY DEF Builder!ExecutorIsItsOwn
<1>3. PICK all : all = jobs
  OBVIOUS
<1> DEFINE code == Builder!Registrations(all[n])[k][1]
           key == Builder!TaskExecutorKey(all[n].code, code)
<1>4. PICK m \in DOMAIN all : \E i \in DOMAIN Builder!Registrations(all[m]) :
            /\ Builder!TaskExecutorKey(all[m].code, Builder!Registrations(all[m])[i][1]) = key
            /\ Builder!ExecutorsByKey(all)[key] = Builder!Registrations(all[m])[i][2]
  <2>1. /\ Builder!IsVec(all) /\ \A j \in DOMAIN all : Builder!IsJobBuilder(all[j])
        /\ n \in DOMAIN all /\ k \in DOMAIN Builder!Registrations(all[n])
    BY <1>1, <1>2, <1>3
  <2> HIDE DEF jobs, key
  <2> QED BY <2>1, LastInsertionHolds DEF key
<1>5. PICK i \in DOMAIN Builder!Registrations(all[m]) :
            /\ Builder!TaskExecutorKey(all[m].code, Builder!Registrations(all[m])[i][1]) = key
            /\ Builder!ExecutorsByKey(all)[key] = Builder!Registrations(all[m])[i][2]
  BY <1>4
<1>6. m = n /\ Builder!Registrations(all[m])[i][1] = code
  <2>1. Builder!IsVec(all[m].code) /\ Builder!IsVec(all[n].code)
    BY <1>1, <1>3 DEF Builder!IsJobBuilder
  <2>2. Builder!IsVec(code) /\ Builder!IsVec(Builder!Registrations(all[m])[i][1])
    BY <1>1, <1>3, RegistrationsAreKeyed
  <2>3. /\ Builder!IsPrefix(all[m].code, all[n].code) \/ Builder!IsPrefix(all[n].code, all[m].code)
        /\ all[m].code = all[n].code => Builder!Registrations(all[m])[i][1] = code
    BY <1>5, <2>1, <2>2, KeysDiffer
  <2>4. m = n
    BY <1>3, <2>3 DEF Builder!CodesAreApart
  <2> QED BY <2>3, <2>4
<1>8. Builder!IsUnambiguous(Builder!Registrations(all[n]))
  <2>1. n < building
    BY <1>1
  <2>2. Builder!DefinitionFlaw(all[n]) = "None"
    BY <1>3, <2>1 DEF BuildInv, SearchInv
  <2> QED BY <2>2 DEF Builder!DefinitionFlaw
<1>9. Builder!Registrations(all[m])[i][2] = Builder!Registrations(all[n])[k][2]
  BY <1>3, <1>5, <1>6, <1>8 DEF Builder!IsUnambiguous
<1>10. registry = Builder!ExecutorsByKey(all)
  BY <1>3 DEF BuildInv, BuiltInv
<1> QED BY <1>3, <1>5, <1>9, <1>10 DEF Builder!GetTaskExecutor

-----------------------------------------------------------------------------
(* What build promises *)

\* Nothing but build itself touches what it works on, and start takes it over.
LEMMA OthersLeaveBuild ==
    ASSUME [Next]_vars, ~Builds, ~Start
    PROVE  UNCHANGED buildVars
<1>1. CASE LoopTurns \/ AbortPool
  BY <1>1 DEF LoopTurns, AbortPool, outside
<1>2. CASE Shutdown \/ Abort \/ DropHandle
  BY <1>2 DEF Shutdown, Abort, DropHandle, TakesHandle
<1>3. ASSUME NEW w \in Workers, Works(w) \/ AbortWorker(w)
      PROVE  UNCHANGED buildVars
  <2>1. CASE ReadJob(w) \/ RecordFinishedIteration(w) \/ CloseIteration(w)
    BY <2>1 DEF ReadJob, RecordFinishedIteration, CloseIteration, Holds
  <2>2. CASE StartNewJobIteration(w)
    BY <2>2 DEF StartNewJobIteration, Holds
  <2>3. CASE StartsTask(w) \/ StartsNoTask(w) \/ EndsExecution(w) \/ AbortWorker(w)
    BY <2>3 DEF StartsTask, StartsNoTask, EndsExecution, AbortWorker, outside
  <2> QED BY <1>3, <2>1, <2>2, <2>3 DEF Works
<1>4. ASSUME NEW j \in Jobs, OtherProcess(j)
      PROVE  UNCHANGED buildVars
  BY <1>4 DEF OtherProcess
<1>5. ASSUME NEW x \in Waiters, CallWait(x) \/ CheckFinished(x) \/ Changed(x) \/ DropWait(x)
      PROVE  UNCHANGED buildVars
  BY <1>5 DEF CallWait, CheckFinished, Changed, DropWait, Waits
<1>6. CASE UNCHANGED vars
  BY <1>6 DEF vars
<1> QED BY <1>1, <1>2, <1>3, <1>4, <1>5, <1>6 DEF Next

\* BuildInv is inductive: one step per step of build.
LEMMA BuildInvariance ==
    Spec => []BuildInv
<1>1. Init => SearchInv /\ BuiltInv
  <2> SUFFICES ASSUME Init PROVE SearchInv /\ BuiltInv
    OBVIOUS
  <2>1. BuildSound /\ phase = "Jobs" /\ building = 1 /\ cause.kind # "Cycle"
    BY InitSound DEF Inv, Init, Builder!Init, Builder!None
  <2>2. \A n \in DOMAIN description.jobs : ~(n < building)
    BY <2>1, DescribedJobs
  <2> QED BY <2>1, <2>2 DEF SearchInv, BuiltInv
<1>2. Inv /\ Inv' /\ SearchInv /\ BuiltInv /\ [Next]_vars => SearchInv' /\ BuiltInv'
  <2> SUFFICES ASSUME Inv, SearchInv, BuiltInv, [Next]_vars PROVE SearchInv' /\ BuiltInv'
    OBVIOUS
  <2>1. BuildInv
    BY DEF BuildInv, Inv
  <2>2. CASE Builds
    <3>1. Builder!Next
      BY <2>2 DEF Builds
    <3> QED BY <2>1, <3>1, BuildDefinitionKeeps, SearchFromStep, SearchEdgeStep, EndDefinitionStep, BuildStep
            DEF Builder!Next
  <2>3. CASE Start
    BY <2>3 DEF Start, SearchInv, BuiltInv
  <2>4. CASE ~Builds /\ ~Start
    <3>1. UNCHANGED buildVars
      BY <2>4, OthersLeaveBuild
    <3>2. /\ UNCHANGED <<description, phase, building, visits, stack, start, cause, registry>>
          /\ Builder!Described' = Builder!Described
      BY <3>1 DEF buildVars, Builder!Described
    <3>3. phase = "Searching" =>
                (\E edges : edges = Builder!Edges(Builder!Described) /\ SearchSound(edges))'
      <4>1. SUFFICES ASSUME phase = "Searching"
                     PROVE  (\E edges : edges = Builder!Edges(Builder!Described) /\ SearchSound(edges))'
        OBVIOUS
      <4>2. PICK edges : edges = Builder!Edges(Builder!Described) /\ SearchSound(edges)
        BY <4>1 DEF SearchInv
      <4>3. SearchSound(edges)'
        BY <3>2, <4>2 DEF SearchSound, SearchTyped, StackSound, SeenSound
      <4> QED BY <3>2, <4>2, <4>3
    <3> QED BY <3>2, <3>3 DEF SearchInv, BuiltInv, NoCycle
  <2> QED BY <2>2, <2>3, <2>4
<1>3. Inv /\ SearchInv /\ BuiltInv => BuildInv
  BY DEF BuildInv, Inv
<1> QED BY <1>1, <1>2, <1>3, Invariance, PTL DEF Spec

\* The dependencies of a job that build lets through can be met, for every description: the graph
\* without cycles is the one described, nothing that was declared is dropped on the way
\* (merge_declared_dependencies), and only what has a cycle is refused for one
\* (find_dependency_cycle).
THEOREM BuiltDependenciesCanBeMet ==
    Spec => []DependenciesCanBeMet
<1>1. BuildInv => DependenciesCanBeMet
  <2> SUFFICES ASSUME BuildInv, phase # "Started"
               PROVE  Builder!CyclesAreFound /\ Builder!NothingSaidIsLost
    BY DEF DependenciesCanBeMet
  <2>1. ASSUME phase = "Built", NEW n \in DOMAIN description.jobs
        PROVE  Builder!DefinitionFlaw(description.jobs[n]) = "None" /\ NoCycle(description.jobs[n])
    <3>1. n < building
      BY <2>1, DescribedJobs DEF BuildInv, BuildSound
    <3> QED BY <3>1 DEF BuildInv, SearchInv
  <2>2. Builder!CyclesAreFound
    <3>1. cause.kind = "Cycle" => Builder!IsOnCycle(Builder!Edges(Builder!Described), cause.at)
      BY DEF BuildInv, SearchInv
    <3> QED BY <2>1, <3>1 DEF Builder!CyclesAreFound, NoCycle
  <2>3. Builder!NothingSaidIsLost
    <3> SUFFICES ASSUME phase = "Built", NEW n \in DOMAIN description.jobs
                 PROVE  Builder!Said(description.jobs[n]) = Builder!EdgePairs(Builder!Edges(description.jobs[n]))
      BY DEF Builder!NothingSaidIsLost
    <3>1. Builder!IsJobBuilder(description.jobs[n]) /\ Builder!DefinitionFlaw(description.jobs[n]) = "None"
      BY <2>1, DescribedJobs DEF BuildInv
    <3> QED BY <3>1, SaidIsSearched
  <2> QED BY <2>2, <2>3
<1> QED BY <1>1, BuildInvariance, PTL

\* Every task of a pool that was built gets the executor its own job registered for its code,
\* whatever task codes the jobs share, provided that no job's code is the beginning of another's up
\* to a separator (JobRegistry::new, task_executor_key).  Without that premise it is not so.
THEOREM ExecutorsAreTheirOwn ==
    Spec => [](phase # "Started" /\ Builder!CodesAreApart => Builder!ExecutorIsItsOwn)
<1>1. BuildInv => (phase # "Started" /\ Builder!CodesAreApart => Builder!ExecutorIsItsOwn)
  <2> SUFFICES ASSUME BuildInv, Builder!CodesAreApart PROVE Builder!ExecutorIsItsOwn
    OBVIOUS
  <2>1. CASE phase = "Built"
    BY <2>1, BuiltExecutors
  <2>2. CASE phase # "Built"
    BY <2>2 DEF Builder!ExecutorIsItsOwn
  <2> QED BY <2>1, <2>2
<1> QED BY <1>1, BuildInvariance, PTL

=============================================================================
