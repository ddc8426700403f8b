--------------------------- MODULE PollScheduler ---------------------------
(***************************************************************************)
(* When a pool polls each of its jobs (src/src/execution/scheduler.rs): a  *)
(* job waits in the due queue, is claimed by the one worker that starts a  *)
(* task of it, or is exhausted.  As pure operators; WorkerPool calls them. *)
(*                                                                         *)
(* A poll moment is the number of ticks left until it has come, 0 for one  *)
(* that has.  The year that caps a wait is beyond every instance, and left *)
(* out.                                                                    *)
(***************************************************************************)
EXTENDS Integers, Sequences, FiniteSets

CONSTANTS
    Jobs,           \* the jobs the pool polls
    BaseInterval,   \* poll_interval, in ticks
    MaxInterval,    \* max_poll_interval, in ticks
    Jitters,        \* the draws of the jitter, in ticks
    DueMoments      \* the moments the stored state may name in this instance, in ticks

ASSUME IntervalsAssumption ==
    /\ BaseInterval \in Nat \ {0} /\ MaxInterval \in Nat /\ BaseInterval <= MaxInterval
    /\ Jitters \subseteq Nat /\ Jitters # {} /\ DueMoments \subseteq Nat
    /\ IsFiniteSet(Jobs)

\* PollDue: the ticks left, or never.  NoDue is the absence of one.
Never == -1
NoDue == -2
PollDue == Nat \cup {Never}

\* JobSlot.  due is the poll moment of a queued job and the overwritten_poll_due of a claimed one.
Queued(at) == [kind |-> "Queued", due |-> at]
Claimed(asked) == [kind |-> "Claimed", due |-> asked]
Exhausted == [kind |-> "Exhausted", due |-> NoDue]
IsSlot(slot) ==
    \/ slot.kind = "Queued" /\ slot = Queued(slot.due) /\ slot.due \in Nat
    \/ slot.kind = "Claimed" /\ slot = Claimed(slot.due) /\ slot.due \in PollDue \cup {NoDue}
    \/ slot = Exhausted

\* JobProgress: at is the moment the two that name one carry.
Progress(kind) == [kind |-> kind, at |-> 0]
ProgressAt(kind) == {[kind |-> kind, at |-> at] : at \in DueMoments}

-----------------------------------------------------------------------------

Earlier(first, second) == IF first < second THEN first ELSE second

\* PollDue::merge: never outweighs any moment.
Merge(first, second) ==
    IF Never \in {first, second} THEN Never ELSE Earlier(first, second)

\* calculate_poll_at: the jitter is drawn for a later poll only.
PollAt(wait, jitter) == IF wait = 0 THEN 0 ELSE wait + jitter

\* Fault: the ceiling is forgotten.
BackedOffForEver(interval) == 2 * interval

\* calculate_backed_off_poll_interval
BackedOff(interval) == Earlier(2 * interval, MaxInterval)

\* calculate_poll: the poll the progress of a job asks for.
RequestedDue(progress, interval, jitter) ==
    CASE progress.kind = "IterationsEnded" -> Never
      [] progress.kind = "NextIterationDueAt" -> PollAt(progress.at, jitter)
      [] progress.kind = "TaskPickable" -> 0
      [] progress.kind = "RetryDueAt" -> PollAt(Earlier(progress.at, MaxInterval), jitter)
      [] progress.kind = "NothingPickable" -> PollAt(BaseInterval, jitter)
      [] progress.kind = "Stalled" -> PollAt(BackedOff(interval), jitter)

\* calculate_poll: the backoff step that goes with it.
RequestedInterval(progress, interval) ==
    CASE progress.kind = "IterationsEnded" -> interval
      [] progress.kind = "Stalled" -> BackedOff(interval)
      [] OTHER -> BaseInterval

ScheduledPoll(due) == IF due = Never THEN Exhausted ELSE Queued(due)

\* Fault: what executions asked for while the job was claimed is dropped.
ReleasedForgetful(poll, progress, jitter) ==
    [interval |-> RequestedInterval(progress, poll.interval),
     slot     |-> ScheduledPoll(RequestedDue(progress, poll.interval, jitter))]

\* JobPoll::release, on the poll of a claimed job.
Released(poll, progress, jitter) ==
    LET due == RequestedDue(progress, poll.interval, jitter)
    IN IF poll.slot.due = NoDue
       THEN [interval |-> RequestedInterval(progress, poll.interval), slot |-> ScheduledPoll(due)]
       ELSE [interval |-> BaseInterval, slot |-> ScheduledPoll(Merge(due, poll.slot.due))]

\* Fault: a claimed job goes back to the queue at once.
RescheduledAtOnce(poll, progress, jitter) ==
    LET due == RequestedDue(progress, poll.interval, jitter)
        asked == poll.slot.due
    IN IF poll.slot = Exhausted THEN poll
       ELSE [interval |-> BaseInterval,
             slot     |-> ScheduledPoll(IF asked = NoDue THEN due ELSE Merge(asked, due))]

\* JobPoll::reschedule: an execution of the job ended.
Rescheduled(poll, progress, jitter) ==
    LET due == RequestedDue(progress, poll.interval, jitter)
        asked == poll.slot.due
        closed == progress.kind \in {"IterationsEnded", "NextIterationDueAt"}
    IN CASE poll.slot.kind = "Exhausted" -> poll
         [] poll.slot.kind = "Claimed" ->
                [poll EXCEPT !.slot = Claimed(IF asked = NoDue THEN due ELSE Merge(asked, due))]
         [] poll.slot.kind = "Queued" ->
                [interval |-> BaseInterval,
                 slot     |-> ScheduledPoll(IF closed THEN due ELSE Merge(asked, due))]

-----------------------------------------------------------------------------
(* due_queue: the queued jobs, the earliest first *)

RemovedAt(queue, n) == SubSeq(queue, 1, n - 1) \o SubSeq(queue, n + 1, Len(queue))

Without(queue, j) ==
    IF \A n \in DOMAIN queue : queue[n] # j THEN queue
    ELSE RemovedAt(queue, CHOOSE n \in DOMAIN queue : queue[n] = j)

InsertAt(queue, n, j) == SubSeq(queue, 1, n) \o <<j>> \o SubSeq(queue, n + 1, Len(queue))

\* Fault: a job due now goes ahead of the ones that are due already.
PlacesAnywhere(queue, polls, j) ==
    {n \in 0 .. Len(queue) :
        /\ \A k \in 1 .. n : polls[queue[k]].slot.due <= polls[j].slot.due
        /\ \A k \in n + 1 .. Len(queue) : polls[queue[k]].slot.due >= polls[j].slot.due}

\* The places job j may take among the others.  Moments that fall into one tick may be in
\* either order, but a moment that is now is not before one that has come.
Places(queue, polls, j) ==
    {n \in PlacesAnywhere(queue, polls, j) :
        polls[j].slot.due = 0 => \A k \in n + 1 .. Len(queue) : polls[queue[k]].slot.due > 0}

\* Fault: the old entry stays.
RequeuedTwice(queue, before, polls, j) ==
    IF polls[j].slot.kind # "Queued" THEN {queue}
    ELSE {InsertAt(queue, n, j) : n \in Places(queue, polls, j)}

\* transition_job: the entry of j moves to where its new slot is queued, and keeps its place if
\* the moment is the one it was queued under.
Requeued(queue, before, polls, j) ==
    LET others == Without(queue, j)
    IN IF polls[j].slot.kind # "Queued" THEN {others}
       ELSE {InsertAt(others, n, j) : n \in Places(others, polls, j)}
                \cup (IF before[j].slot = polls[j].slot THEN {queue} ELSE {})

-----------------------------------------------------------------------------
\* One clock tick, as a moment and as a poll see it.
Closer(moment) == IF moment > 0 THEN moment - 1 ELSE moment
ElapsedPoll(poll) == [poll EXCEPT !.slot.due = Closer(@)]

=============================================================================
