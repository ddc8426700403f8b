------------------------- MODULE WorkerPool_proofs --------------------------
(***************************************************************************)
(* What holds of the schedule of a pool for every set of jobs and of       *)
(* workers and every choice of intervals.                                  *)
(***************************************************************************)
EXTENDS WorkerPool, FiniteSetTheorems, TLAPS

\* The values a slot, a poll and a report take.
Slots == [kind : {"Queued"}, due : Nat] \cup [kind : {"Claimed"}, due : PollDue \cup {NoDue}]
            \cup [kind : {"Exhausted"}, due : {NoDue}]
Poll == [interval : BaseInterval .. MaxInterval, slot : Slots]
Kinds == {"IterationsEnded", "NextIterationDueAt", "TaskPickable", "RetryDueAt", "NothingPickable",
          "Stalled"}
Report == [kind : Kinds, at : Nat]

-----------------------------------------------------------------------------
(* What the operators of the schedule compute *)

LEMMA RequestedDueIsDue ==
    ASSUME NEW progress \in Report, NEW interval \in BaseInterval .. MaxInterval, NEW jitter \in Jitters
    PROVE  /\ RequestedDue(progress, interval, jitter) \in PollDue
           /\ RequestedDue(progress, interval, jitter) = Never <=> progress.kind = "IterationsEnded"
           /\ progress.kind = "TaskPickable" => RequestedDue(progress, interval, jitter) = 0
  BY IntervalsAssumption
     DEF RequestedDue, PollDue, Never, PollAt, BackedOff, Earlier, Report, Kinds

\* The backoff never leaves its range, however often it doubles.
LEMMA RequestedIntervalIsInRange ==
    ASSUME NEW progress \in Report, NEW interval \in BaseInterval .. MaxInterval
    PROVE  RequestedInterval(progress, interval) \in BaseInterval .. MaxInterval
  BY IntervalsAssumption DEF RequestedInterval, BackedOff, Earlier, Report, Kinds

LEMMA MergeIsDue ==
    ASSUME NEW first \in PollDue, NEW second \in PollDue
    PROVE  /\ Merge(first, second) \in PollDue
           /\ Merge(first, second) = Never <=> first = Never \/ second = Never
           /\ first # Never /\ second # Never /\ (first = 0 \/ second = 0) => Merge(first, second) = 0
  BY DEF Merge, Earlier, PollDue, Never

LEMMA ScheduledPollIsSlot ==
    ASSUME NEW due \in PollDue
    PROVE  /\ ScheduledPoll(due) \in Slots
           /\ due = Never => ScheduledPoll(due) = Exhausted
           /\ due # Never => ScheduledPoll(due) = Queued(due)
           /\ ScheduledPoll(due).kind \in {"Queued", "Exhausted"}
           /\ ScheduledPoll(due).kind = "Exhausted" <=> due = Never
           /\ due # Never => ScheduledPoll(due).due = due
  BY DEF ScheduledPoll, Slots, PollDue, Exhausted, Queued, Never, NoDue

\* The moment a claim that goes back is rescheduled for.
ReleasedDue(poll, progress, jitter) ==
    LET due == RequestedDue(progress, poll.interval, jitter)
    IN IF poll.slot.due = NoDue THEN due ELSE Merge(due, poll.slot.due)

LEMMA ReleasedIsPoll ==
    ASSUME NEW poll \in Poll, NEW progress \in Report, NEW jitter \in Jitters,
           poll.slot.kind = "Claimed"
    PROVE  /\ Released(poll, progress, jitter) \in Poll
           /\ ReleasedDue(poll, progress, jitter) \in PollDue
           /\ Released(poll, progress, jitter).slot = ScheduledPoll(ReleasedDue(poll, progress, jitter))
  <1> DEFINE due == RequestedDue(progress, poll.interval, jitter)
  <1>1. /\ poll.slot.due \in PollDue \cup {NoDue}
        /\ poll.interval \in BaseInterval .. MaxInterval
    BY DEF Poll, Slots
  <1>2. due \in PollDue /\ RequestedInterval(progress, poll.interval) \in BaseInterval .. MaxInterval
    BY <1>1, RequestedDueIsDue, RequestedIntervalIsInRange
  <1>3. poll.slot.due # NoDue => Merge(due, poll.slot.due) \in PollDue
    BY <1>1, <1>2, MergeIsDue
  <1>4. BaseInterval \in BaseInterval .. MaxInterval
    BY IntervalsAssumption
  <1>5. ReleasedDue(poll, progress, jitter) \in PollDue
    BY <1>2, <1>3 DEF ReleasedDue
  <1>6. QED
    BY <1>2, <1>3, <1>4, <1>5, ScheduledPollIsSlot DEF Released, ReleasedDue, Poll

\* The moment an execution that ended asks for.
RescheduledDue(poll, progress, jitter) ==
    LET due == RequestedDue(progress, poll.interval, jitter)
        closed == progress.kind \in {"IterationsEnded", "NextIterationDueAt"}
    IN IF poll.slot.due = NoDue \/ (poll.slot.kind = "Queued" /\ closed) THEN due
       ELSE Merge(poll.slot.due, due)

LEMMA RescheduledIsPoll ==
    ASSUME NEW poll \in Poll, NEW progress \in Report, NEW jitter \in Jitters
    PROVE  LET next == Rescheduled(poll, progress, jitter)
               due == RescheduledDue(poll, progress, jitter)
           IN /\ next \in Poll
              /\ due \in PollDue \/ poll.slot.kind = "Exhausted"
              /\ poll.slot.kind = "Exhausted" => next = poll
              /\ poll.slot.kind = "Claimed" => next.slot = Claimed(due)
              /\ poll.slot.kind = "Queued" => next.slot = ScheduledPoll(due)
  <1> DEFINE due == RequestedDue(progress, poll.interval, jitter)
  <1>1. /\ poll.slot \in Slots /\ poll.interval \in BaseInterval .. MaxInterval
        /\ poll.slot.kind \in {"Queued", "Claimed", "Exhausted"}
        /\ poll.slot.kind = "Queued" => poll.slot.due \in Nat
        /\ poll.slot.kind = "Claimed" => poll.slot.due \in PollDue \cup {NoDue}
    BY DEF Poll, Slots
  <1>2. due \in PollDue /\ BaseInterval \in BaseInterval .. MaxInterval
    BY <1>1, RequestedDueIsDue, IntervalsAssumption
  <1>3. poll.slot.due \in PollDue => Merge(poll.slot.due, due) \in PollDue
    BY <1>2, MergeIsDue
  <1>4. CASE poll.slot.kind = "Exhausted"
    BY <1>4 DEF Rescheduled
  <1>5. CASE poll.slot.kind = "Claimed"
    <2>1. RescheduledDue(poll, progress, jitter) \in PollDue
      BY <1>1, <1>2, <1>3, <1>5 DEF RescheduledDue
    <2>2. Rescheduled(poll, progress, jitter)
            = [poll EXCEPT !.slot = Claimed(RescheduledDue(poll, progress, jitter))]
      BY <1>5 DEF Rescheduled, RescheduledDue
    <2>3. Claimed(RescheduledDue(poll, progress, jitter)) \in Slots
      BY <2>1 DEF Claimed, Slots
    <2>4. QED
      BY <1>5, <2>1, <2>2, <2>3 DEF Poll
  <1>6. CASE poll.slot.kind = "Queued"
    <2>1. poll.slot.due \in PollDue /\ poll.slot.due # NoDue
      BY <1>1, <1>6 DEF PollDue, NoDue
    <2>2. RescheduledDue(poll, progress, jitter) \in PollDue
      BY <1>2, <1>3, <2>1 DEF RescheduledDue
    <2>3. Rescheduled(poll, progress, jitter)
            = [interval |-> BaseInterval, slot |-> ScheduledPoll(RescheduledDue(poll, progress, jitter))]
      BY <1>6, <2>1 DEF Rescheduled, RescheduledDue
    <2>4. QED
      BY <1>2, <1>6, <2>2, <2>3, ScheduledPollIsSlot DEF Poll
  <1>7. QED
    BY <1>1, <1>4, <1>5, <1>6

LEMMA ElapsedIsPoll ==
    ASSUME NEW poll \in Poll
    PROVE  /\ ElapsedPoll(poll) \in Poll
           /\ ElapsedPoll(poll).slot.kind = poll.slot.kind
           /\ ElapsedPoll(poll).slot.due = Closer(poll.slot.due)
  BY DEF ElapsedPoll, Closer, Poll, Slots, PollDue, Never, NoDue

-----------------------------------------------------------------------------
(* The due queue *)

\* Every queued job is in the queue once, and the earlier ones are in front.
Lists(q, p) == \A j \in Jobs : p[j].slot.kind = "Queued" <=> \E n \in 1 .. Len(q) : q[n] = j
ListsOnce(q) == \A n, k \in 1 .. Len(q) : q[n] = q[k] => n = k
IsOrdered(q, p) == \A n, k \in 1 .. Len(q) : n < k => p[q[n]].slot.due <= p[q[k]].slot.due
Indexes(q, p) == Lists(q, p) /\ ListsOnce(q) /\ IsOrdered(q, p)

LEMMA DueIsInt ==
    ASSUME NEW p \in [Jobs -> Poll], NEW j \in Jobs
    PROVE  p[j].slot.due \in Int
  BY DEF Poll, Slots, PollDue, Never, NoDue

LEMMA RemovedAtIsSeq ==
    ASSUME NEW q \in Seq(Jobs), NEW at \in 1 .. Len(q)
    PROVE  /\ RemovedAt(q, at) \in Seq(Jobs)
           /\ Len(RemovedAt(q, at)) = Len(q) - 1
           /\ \A n \in 1 .. Len(q) - 1 : RemovedAt(q, at)[n] = IF n < at THEN q[n] ELSE q[n + 1]
  <1>1. Len(q) \in Nat
    OBVIOUS
  <1>2. /\ SubSeq(q, 1, at - 1) \in Seq(Jobs) /\ Len(SubSeq(q, 1, at - 1)) = at - 1
        /\ \A n \in 1 .. at - 1 : SubSeq(q, 1, at - 1)[n] = q[n]
    BY <1>1
  <1>3. /\ SubSeq(q, at + 1, Len(q)) \in Seq(Jobs) /\ Len(SubSeq(q, at + 1, Len(q))) = Len(q) - at
        /\ \A n \in 1 .. Len(q) - at : SubSeq(q, at + 1, Len(q))[n] = q[n + at]
    BY <1>1
  <1>4. QED
    <2> DEFINE front == SubSeq(q, 1, at - 1)
               back == SubSeq(q, at + 1, Len(q))
    <2>1. RemovedAt(q, at) = front \o back
      BY DEF RemovedAt
    <2>2. /\ front \in Seq(Jobs) /\ back \in Seq(Jobs)
          /\ Len(front) = at - 1 /\ Len(back) = Len(q) - at
      BY <1>2, <1>3
    <2>3. /\ \A n \in 1 .. at - 1 : front[n] = q[n]
          /\ \A n \in 1 .. Len(q) - at : back[n] = q[n + at]
      BY <1>2, <1>3
    <2> HIDE DEF front, back
    <2>4. /\ front \o back \in Seq(Jobs) /\ Len(front \o back) = Len(q) - 1
          /\ \A n \in 1 .. Len(q) - 1 :
                (front \o back)[n] = IF n < at THEN front[n] ELSE back[n - at + 1]
      BY <1>1, <2>2
    <2>5. ASSUME NEW n \in 1 .. Len(q) - 1
          PROVE  (front \o back)[n] = IF n < at THEN q[n] ELSE q[n + 1]
      <3>1. CASE n < at
        BY <2>3, <2>4, <3>1
      <3>2. CASE ~(n < at)
        <4>1. n - at + 1 \in 1 .. Len(q) - at /\ n - at + 1 + at = n + 1
          BY <1>1, <3>2
        <4>2. back[n - at + 1] = q[n - at + 1 + at]
          BY <2>3, <4>1
        <4>3. (front \o back)[n] = back[n - at + 1]
          BY <2>4, <3>2
        <4>4. QED
          BY <3>2, <4>1, <4>2, <4>3
      <3>3. QED
        BY <1>1, <3>1, <3>2
    <2>6. QED
      BY <2>1, <2>4, <2>5

LEMMA InsertAtIsSeq ==
    ASSUME NEW q \in Seq(Jobs), NEW at \in 0 .. Len(q), NEW j \in Jobs
    PROVE  /\ InsertAt(q, at, j) \in Seq(Jobs)
           /\ Len(InsertAt(q, at, j)) = Len(q) + 1
           /\ \A n \in 1 .. Len(q) + 1 :
                InsertAt(q, at, j)[n] = IF n <= at THEN q[n] ELSE IF n = at + 1 THEN j ELSE q[n - 1]
  <1>1. Len(q) \in Nat
    OBVIOUS
  <1>2. /\ SubSeq(q, 1, at) \in Seq(Jobs) /\ Len(SubSeq(q, 1, at)) = at
        /\ \A n \in 1 .. at : SubSeq(q, 1, at)[n] = q[n]
    BY <1>1
  <1>3. /\ SubSeq(q, at + 1, Len(q)) \in Seq(Jobs) /\ Len(SubSeq(q, at + 1, Len(q))) = Len(q) - at
        /\ \A n \in 1 .. Len(q) - at : SubSeq(q, at + 1, Len(q))[n] = q[n + at]
    BY <1>1
  <1> DEFINE front == SubSeq(q, 1, at) \o <<j>>
  <1>4. /\ front \in Seq(Jobs) /\ Len(front) = at + 1
        /\ \A n \in 1 .. at + 1 : front[n] = IF n <= at THEN q[n] ELSE j
    BY <1>2
  <1>5. InsertAt(q, at, j) = front \o SubSeq(q, at + 1, Len(q))
    BY DEF InsertAt
  <1> HIDE DEF front
  <1>6. QED
    BY <1>1, <1>3, <1>4, <1>5

\* Without j the queue lists the other jobs as before.
LEMMA WithoutListsOthers ==
    ASSUME NEW q \in Seq(Jobs), NEW p, NEW j \in Jobs, Indexes(q, p)
    PROVE  LET others == Without(q, j)
           IN /\ others \in Seq(Jobs)
              /\ \A n \in 1 .. Len(others) : others[n] # j
              /\ \A k \in Jobs \ {j} : p[k].slot.kind = "Queued" <=> \E n \in 1 .. Len(others) : others[n] = k
              /\ ListsOnce(others) /\ IsOrdered(others, p)
  <1>1. CASE \A n \in DOMAIN q : q[n] # j
    BY <1>1 DEF Without, Indexes, Lists
  <1>2. CASE \E n \in DOMAIN q : q[n] = j
    <2> DEFINE at == CHOOSE n \in DOMAIN q : q[n] = j
               others == RemovedAt(q, at)
    <2>1. at \in 1 .. Len(q) /\ q[at] = j
      BY <1>2
    <2>2. Without(q, j) = others
      BY <1>2 DEF Without
    <2> HIDE DEF at
    <2>3. /\ others \in Seq(Jobs) /\ Len(others) = Len(q) - 1
          /\ \A n \in 1 .. Len(q) - 1 : others[n] = IF n < at THEN q[n] ELSE q[n + 1]
      BY <2>1, RemovedAtIsSeq
    <2> HIDE DEF others
    <2>4. \A n \in 1 .. Len(others) : others[n] # j
      BY <2>1, <2>3 DEF Indexes, ListsOnce
    <2>5. ASSUME NEW k \in Jobs \ {j}
          PROVE  p[k].slot.kind = "Queued" <=> \E n \in 1 .. Len(others) : others[n] = k
      <3>1. ASSUME NEW n \in 1 .. Len(others), others[n] = k
            PROVE  \E m \in 1 .. Len(q) : q[m] = k
        BY <2>1, <2>3, <3>1
      <3>2. ASSUME NEW m \in 1 .. Len(q), q[m] = k
            PROVE  \E n \in 1 .. Len(others) : others[n] = k
        <4>1. CASE m < at
          BY <2>1, <2>3, <3>2, <4>1
        <4>2. CASE m > at
          <5>1. m - 1 \in 1 .. Len(others) /\ others[m - 1] = q[m]
            BY <2>1, <2>3, <3>2, <4>2
          <5>2. QED
            BY <3>2, <5>1
        <4>3. QED
          BY <2>1, <3>2, <4>1, <4>2
      <3>3. QED
        BY <3>1, <3>2 DEF Indexes, Lists
    <2>6. ListsOnce(others)
      BY <2>1, <2>3 DEF Indexes, ListsOnce
    <2>7. IsOrdered(others, p)
      BY <2>1, <2>3 DEF Indexes, IsOrdered
    <2>8. QED
      BY <2>2, <2>3, <2>4, <2>5, <2>6, <2>7
  <1>3. QED
    BY <1>1, <1>2

\* transition_job keeps the queue an index of the slots.
LEMMA RequeuedIndexes ==
    ASSUME NEW q \in Seq(Jobs), NEW before \in [Jobs -> Poll], NEW p \in [Jobs -> Poll], NEW j \in Jobs,
           \A k \in Jobs \ {j} : p[k] = before[k],
           Indexes(q, before), NEW next \in Requeued(q, before, p, j)
    PROVE  next \in Seq(Jobs) /\ Indexes(next, p)
  <1> DEFINE others == Without(q, j)
  <1>1. /\ others \in Seq(Jobs)
        /\ \A n \in 1 .. Len(others) : others[n] # j
        /\ \A k \in Jobs \ {j} : before[k].slot.kind = "Queued" <=> \E n \in 1 .. Len(others) : others[n] = k
        /\ ListsOnce(others) /\ IsOrdered(others, before)
    BY WithoutListsOthers
  <1>2. \A n \in 1 .. Len(others) : others[n] \in Jobs \ {j}
    BY <1>1
  <1>3. IsOrdered(others, p)
    BY <1>1, <1>2 DEF IsOrdered
  <1> HIDE DEF others
  <1>4. CASE p[j].slot.kind # "Queued"
    <2>1. next = others
      BY <1>4 DEF Requeued, others
    <2>2. Lists(others, p)
      BY <1>1, <1>2, <1>4 DEF Lists
    <2>3. QED
      BY <1>1, <1>3, <2>1, <2>2 DEF Indexes
  <1>5. CASE p[j].slot.kind = "Queued" /\ before[j].slot = p[j].slot /\ next = q
    <2>1. \A k \in Jobs : p[k].slot = before[k].slot
      BY <1>5
    <2>2. \A n \in 1 .. Len(q) : q[n] \in Jobs
      OBVIOUS
    <2>3. QED
      BY <1>5, <2>1, <2>2 DEF Indexes, Lists, IsOrdered
  <1>6. CASE p[j].slot.kind = "Queued" /\ \E n \in Places(others, p, j) : next = InsertAt(others, n, j)
    <2>1. PICK at \in Places(others, p, j) : next = InsertAt(others, at, j)
      BY <1>6
    <2>2. /\ at \in 0 .. Len(others)
          /\ \A k \in 1 .. at : p[others[k]].slot.due <= p[j].slot.due
          /\ \A k \in at + 1 .. Len(others) : p[others[k]].slot.due >= p[j].slot.due
      BY DEF Places, PlacesAnywhere
    <2>3. /\ next \in Seq(Jobs) /\ Len(next) = Len(others) + 1
          /\ \A n \in 1 .. Len(others) + 1 :
               next[n] = IF n <= at THEN others[n] ELSE IF n = at + 1 THEN j ELSE others[n - 1]
      <3>1. /\ InsertAt(others, at, j) \in Seq(Jobs)
            /\ Len(InsertAt(others, at, j)) = Len(others) + 1
            /\ \A n \in 1 .. Len(others) + 1 :
                 InsertAt(others, at, j)[n]
                    = IF n <= at THEN others[n] ELSE IF n = at + 1 THEN j ELSE others[n - 1]
        BY <1>1, <2>2, InsertAtIsSeq
      <3>2. QED
        BY <2>1, <3>1
    <2>4. Len(others) \in Nat
      BY <1>1
    <2>5. ASSUME NEW k \in Jobs PROVE p[k].slot.kind = "Queued" <=> \E n \in 1 .. Len(next) : next[n] = k
      <3>1. CASE k = j
        <4>1. at + 1 \in 1 .. Len(next) /\ next[at + 1] = j
          BY <2>2, <2>3, <2>4
        <4>2. QED
          BY <1>6, <3>1, <4>1
      <3>2. CASE k # j
        <4>1. ASSUME NEW n \in 1 .. Len(next), next[n] = k
              PROVE  \E m \in 1 .. Len(others) : others[m] = k
          BY <2>2, <2>3, <2>4, <3>2, <4>1
        <4>2. ASSUME NEW m \in 1 .. Len(others), others[m] = k
              PROVE  \E n \in 1 .. Len(next) : next[n] = k
          <5>1. CASE m <= at
            BY <2>2, <2>3, <2>4, <4>2, <5>1
          <5>2. CASE m > at
            <6>1. m + 1 \in 1 .. Len(next) /\ next[m + 1] = k
              BY <2>2, <2>3, <2>4, <4>2, <5>2
            <6>2. QED
              BY <6>1
          <5>3. QED
            BY <2>2, <2>4, <5>1, <5>2
        <4>3. QED
          BY <1>1, <3>2, <4>1, <4>2
      <3>3. QED
        BY <3>1, <3>2
    <2>6. ASSUME NEW n \in 1 .. Len(next), NEW k \in 1 .. Len(next), n < k
          PROVE  next[n] # next[k]
      <3>1. CASE n = at + 1
        <4>1. next[k] = others[k - 1] /\ k - 1 \in 1 .. Len(others) /\ next[n] = j
          BY <2>2, <2>3, <2>4, <2>6, <3>1
        <4>2. QED
          BY <1>1, <4>1
      <3>2. CASE k = at + 1
        <4>1. next[n] = others[n] /\ n \in 1 .. Len(others) /\ next[k] = j
          BY <2>2, <2>3, <2>4, <2>6, <3>2
        <4>2. QED
          BY <1>1, <4>1
      <3>3. CASE k <= at
        <4>1. next[n] = others[n] /\ n \in 1 .. Len(others) /\ next[k] = others[k] /\ k \in 1 .. Len(others)
          BY <2>2, <2>3, <2>4, <2>6, <3>3
        <4>2. QED
          BY <1>1, <2>6, <4>1 DEF ListsOnce
      <3>4. CASE n <= at /\ k > at + 1
        <4>1. next[n] = others[n] /\ n \in 1 .. Len(others) /\ next[k] = others[k - 1] /\ k - 1 \in 1 .. Len(others)
          BY <2>2, <2>3, <2>4, <2>6, <3>4
        <4>2. n # k - 1
          BY <2>2, <3>4
        <4>3. QED
          BY <1>1, <4>1, <4>2 DEF ListsOnce
      <3>5. CASE n > at + 1
        <4>1. /\ next[n] = others[n - 1] /\ n - 1 \in 1 .. Len(others)
              /\ next[k] = others[k - 1] /\ k - 1 \in 1 .. Len(others)
          BY <2>2, <2>3, <2>4, <2>6, <3>5
        <4>2. n - 1 # k - 1
          BY <2>6
        <4>3. QED
          BY <1>1, <4>1, <4>2 DEF ListsOnce
      <3>6. QED
        BY <2>2, <2>4, <3>1, <3>2, <3>3, <3>4, <3>5
    <2>7. ASSUME NEW n \in 1 .. Len(next), NEW k \in 1 .. Len(next), n < k
          PROVE  p[next[n]].slot.due <= p[next[k]].slot.due
      <3> DEFINE Place(m) == IF m <= at THEN m ELSE m - 1
      <3>1. \A m \in 1 .. Len(next) \ {at + 1} : Place(m) \in 1 .. Len(others) /\ next[m] = others[Place(m)]
        BY <2>2, <2>3, <2>4
      <3>2. next[at + 1] = j
        BY <2>2, <2>3, <2>4
      <3>3. CASE n = at + 1
        <4>1. Place(k) \in at + 1 .. Len(others) /\ next[k] = others[Place(k)]
          BY <2>2, <2>4, <2>7, <3>1, <3>3
        <4>2. p[others[Place(k)]].slot.due >= p[j].slot.due
          BY <2>2, <4>1
        <4>3. p[others[Place(k)]].slot.due \in Int /\ p[j].slot.due \in Int
          BY <1>2, <2>2, <4>1, DueIsInt
        <4>4. QED
          BY <3>2, <3>3, <4>1, <4>2, <4>3
      <3>4. CASE k = at + 1
        <4>1. Place(n) \in 1 .. at /\ next[n] = others[Place(n)]
          BY <2>2, <2>4, <2>7, <3>1, <3>4
        <4>2. QED
          BY <2>2, <3>2, <3>4, <4>1
      <3>5. CASE n # at + 1 /\ k # at + 1
        <4>1. /\ Place(n) \in 1 .. Len(others) /\ next[n] = others[Place(n)]
              /\ Place(k) \in 1 .. Len(others) /\ next[k] = others[Place(k)]
          BY <3>1, <3>5
        <4>2. Place(n) < Place(k)
          BY <2>2, <2>4, <2>7, <3>5
        <4> HIDE DEF Place
        <4>3. QED
          BY <1>3, <4>1, <4>2 DEF IsOrdered
      <3>6. QED
        BY <3>3, <3>4, <3>5
    <2>8. QED
      <3>1. Lists(next, p)
        BY <2>5 DEF Lists
      <3>2. ListsOnce(next)
        <4> SUFFICES ASSUME NEW n \in 1 .. Len(next), NEW k \in 1 .. Len(next), n # k
                     PROVE  next[n] # next[k]
          BY DEF ListsOnce
        <4>1. n < k \/ k < n
          OBVIOUS
        <4>2. QED
          BY <2>6, <4>1
      <3>3. IsOrdered(next, p)
        BY <2>7 DEF IsOrdered
      <3>4. QED
        BY <2>3, <3>1, <3>2, <3>3 DEF Indexes
  <1>7. QED
    BY <1>4, <1>5, <1>6 DEF Requeued, others

\* Taking the head off the queue.
LEMMA TailIndexes ==
    ASSUME NEW q \in Seq(Jobs), NEW before \in [Jobs -> Poll], NEW p \in [Jobs -> Poll], q # <<>>,
           \A k \in Jobs \ {Head(q)} : p[k] = before[k],
           p[Head(q)].slot.kind # "Queued", Indexes(q, before)
    PROVE  Tail(q) \in Seq(Jobs) /\ Indexes(Tail(q), p)
  <1>1. /\ Tail(q) \in Seq(Jobs) /\ Len(Tail(q)) = Len(q) - 1 /\ Len(q) \in Nat \ {0}
        /\ \A n \in 1 .. Len(q) - 1 : Tail(q)[n] = q[n + 1]
        /\ Head(q) = q[1] /\ Head(q) \in Jobs
    OBVIOUS
  <1>2. \A n \in 1 .. Len(Tail(q)) : Tail(q)[n] \in Jobs \ {Head(q)}
    BY <1>1 DEF Indexes, ListsOnce
  <1>3. ASSUME NEW j \in Jobs PROVE p[j].slot.kind = "Queued" <=> \E n \in 1 .. Len(Tail(q)) : Tail(q)[n] = j
    <2>1. CASE j = Head(q)
      BY <1>2, <2>1
    <2>2. CASE j # Head(q)
      <3>1. ASSUME NEW m \in 1 .. Len(q), q[m] = j PROVE \E n \in 1 .. Len(Tail(q)) : Tail(q)[n] = j
        <4>1. m - 1 \in 1 .. Len(Tail(q)) /\ Tail(q)[m - 1] = j
          BY <1>1, <2>2, <3>1
        <4>2. QED
          BY <4>1
      <3>2. ASSUME NEW n \in 1 .. Len(Tail(q)), Tail(q)[n] = j PROVE \E m \in 1 .. Len(q) : q[m] = j
        BY <1>1, <3>2
      <3>3. QED
        BY <2>2, <3>1, <3>2 DEF Indexes, Lists
    <2>3. QED
      BY <2>1, <2>2
  <1>4. ListsOnce(Tail(q))
    BY <1>1 DEF Indexes, ListsOnce
  <1>5. IsOrdered(Tail(q), p)
    BY <1>1, <1>2 DEF Indexes, IsOrdered
  <1>6. QED
    BY <1>1, <1>3, <1>4, <1>5 DEF Indexes, Lists

\* Time passes for all slots alike.
LEMMA ElapsedIndexes ==
    ASSUME NEW q \in Seq(Jobs), NEW p \in [Jobs -> Poll], Indexes(q, p)
    PROVE  Indexes(q, [j \in Jobs |-> ElapsedPoll(p[j])])
  <1> DEFINE e == [j \in Jobs |-> ElapsedPoll(p[j])]
  <1>1. \A j \in Jobs : /\ e[j].slot.kind = p[j].slot.kind
                        /\ e[j].slot.due = Closer(p[j].slot.due)
                        /\ p[j].slot.due \in Int
    BY ElapsedIsPoll DEF Poll, Slots, PollDue, Never, NoDue
  <1>2. \A n \in 1 .. Len(q) : q[n] \in Jobs
    OBVIOUS
  <1> HIDE DEF e
  <1>3. Lists(q, e) /\ ListsOnce(q)
    BY <1>1 DEF Indexes, Lists
  <1>4. ASSUME NEW n \in 1 .. Len(q), NEW k \in 1 .. Len(q), n < k
        PROVE  e[q[n]].slot.due <= e[q[k]].slot.due
    <2>1. p[q[n]].slot.due <= p[q[k]].slot.due
      BY <1>4 DEF Indexes, IsOrdered
    <2>2. p[q[n]].slot.due \in Int /\ p[q[k]].slot.due \in Int
      BY <1>1, <1>2
    <2>3. Closer(p[q[n]].slot.due) <= Closer(p[q[k]].slot.due)
      BY <2>1, <2>2 DEF Closer
    <2>4. QED
      BY <1>1, <1>2, <2>3
  <1>5. QED
    BY <1>3, <1>4 DEF Indexes, IsOrdered, e

-----------------------------------------------------------------------------
(* The inductive invariant *)

IsStarting(w) == place[w] \in {"Starting", "Started", "NotStarted"}

\* Every variable has its type, and a worker that ended carries a report.
Typed ==
    /\ polls \in [Jobs -> Poll]
    /\ queue \in Seq(Jobs)
    /\ place \in [Workers -> PlaceOf]
    /\ job \in [Workers -> Jobs \cup {NoJob}]
    /\ report \in [Workers -> [kind : Kinds \cup {"None"}, at : Nat]]
    /\ pool \in {"Looking", "Claiming", "Waiting", "Draining", "Stopped"}
    /\ wake \in Nat \cup {ForPoolEvent}
    /\ cancelled \in BOOLEAN
    /\ told \in [Jobs -> {"Nothing", "Work", "End"}]

Equipped ==
    \A w \in Workers : /\ place[w] # "Idle" => job[w] \in Jobs
                       /\ place[w] \in {"Started", "NotStarted", "Executed"} => report[w].kind \in Kinds

\* The claims are the workers that start a task, each of a job of its own.
Claims ==
    /\ \A w \in Workers : IsStarting(w) => polls[job[w]].slot.kind = "Claimed"
    /\ \A j \in Jobs : polls[j].slot.kind = "Claimed" => \E w \in Workers : IsStarting(w) /\ job[w] = j
    /\ \A v, w \in Workers : IsStarting(v) /\ IsStarting(w) /\ job[v] = job[w] => v = w

\* What was told of a job, in a slot: its claim remembers it until it goes back.
Remembers(slot, said) ==
    /\ said = "Work" => slot.due = 0
    /\ said = "End" => (slot.kind = "Claimed" /\ slot.due = Never) \/ slot.kind = "Exhausted"
    /\ slot.kind = "Exhausted" => said = "End"
    /\ slot.kind = "Claimed" /\ slot.due = Never => said = "End"
Remembered == \A j \in Jobs : Remembers(polls[j].slot, told[j])

\* No started task is left behind when the pool goes on to claim and to sleep.
Launched == pool \in {"Claiming", "Waiting"} => \A w \in Workers : place[w] # "ToExecute"

Inv == /\ Typed /\ Equipped /\ Claims /\ Indexes(queue, polls) /\ Remembered /\ Launched
       /\ NoOversleep

LEMMA PollFields ==
    ASSUME NEW poll \in Poll
    PROVE  /\ poll.slot.kind \in {"Queued", "Claimed", "Exhausted"}
           /\ poll.slot.kind = "Queued" => poll.slot.due \in Nat
           /\ poll.slot.kind = "Exhausted" => poll.slot = Exhausted
           /\ poll.slot.kind = "Claimed" => poll.slot.due \in PollDue \cup {NoDue}
  BY DEF Poll, Slots, Exhausted

LEMMA InitHolds == Init => Inv
  <1> SUFFICES ASSUME Init PROVE Inv
    OBVIOUS
  <1> USE DEF Init
  <1>1. /\ queue \in Surjection(1 .. Cardinality(Jobs), Jobs)
        /\ Cardinality(Jobs) \in Nat
    BY IntervalsAssumption, FS_CardinalityType DEF Surjection
  <1>2. queue \in Injection(1 .. Cardinality(Jobs), Jobs)
    <2>1. /\ IsFiniteSet(1 .. Cardinality(Jobs))
          /\ Cardinality(1 .. Cardinality(Jobs)) = Cardinality(Jobs)
      BY <1>1, FS_Interval
    <2>2. QED
      BY <1>1, <2>1, FS_Surjection
  <1>3. queue \in Seq(Jobs) /\ Len(queue) = Cardinality(Jobs)
    BY <1>1 DEF Surjection
  <1>4. \A j \in Jobs : polls[j] \in Poll /\ polls[j].slot.kind = "Queued" /\ polls[j].slot.due = 0
    BY IntervalsAssumption DEF Poll, Slots, Queued
  <1>5. Typed
    BY <1>3, <1>4 DEF Typed, PlaceOf, Kinds, NoProgress, Progress, ForPoolEvent
  <1>6. Equipped /\ Claims /\ Launched /\ NoOversleep
    BY <1>4 DEF Equipped, Claims, IsStarting, Launched, NoOversleep
  <1>7. Remembered
    BY <1>4 DEF Remembered, Remembers
  <1>8. Indexes(queue, polls)
    <2>1. Lists(queue, polls)
      BY <1>3, <1>4 DEF Lists
    <2>2. ListsOnce(queue)
      BY <1>2, <1>3 DEF ListsOnce, Injection, IsInjective
    <2>3. IsOrdered(queue, polls)
      BY <1>3, <1>4 DEF IsOrdered
    <2>4. QED
      BY <2>1, <2>2, <2>3 DEF Indexes
  <1>9. QED
    BY <1>5, <1>6, <1>7, <1>8 DEF Inv

LEMMA StartExecutionsKeeps == Inv /\ StartExecutions => Inv'
  <1> SUFFICES ASSUME Inv, StartExecutions PROVE Inv'
    OBVIOUS
  <1> USE DEF StartExecutions, Inv
  <1>1. Typed'
    BY DEF Typed, PlaceOf
  <1>2. \A w \in Workers : /\ place'[w] = place[w] \/ (place[w] = "ToExecute" /\ place'[w] = "Executing")
                           /\ IsStarting(w)' <=> IsStarting(w)
    BY DEF Typed, IsStarting
  <1>3. Equipped'
    BY <1>2 DEF Equipped
  <1>4. Claims'
    BY <1>2 DEF Claims
  <1>5. Launched' /\ NoOversleep'
    BY DEF Typed, Launched, NoOversleep
  <1>6. Indexes(queue, polls)' /\ Remembered'
    BY DEF Indexes, Lists, ListsOnce, IsOrdered, Remembered
  <1>7. QED
    BY <1>1, <1>3, <1>4, <1>5, <1>6

LEMMA ClaimDueJobKeeps == Inv /\ ClaimDueJob => Inv'
  <1> SUFFICES ASSUME Inv, ClaimDueJob PROVE Inv'
    OBVIOUS
  <1> DEFINE j == Head(queue)
  <1>1. PICK w \in IdleWorkers : /\ place' = [place EXCEPT ![w] = "Starting"]
                                 /\ job' = [job EXCEPT ![w] = j]
    BY DEF ClaimDueJob
  <1>2. /\ queue # <<>> /\ j \in Jobs /\ queue \in Seq(Jobs) /\ polls \in [Jobs -> Poll]
        /\ w \in Workers /\ place[w] = "Idle"
    BY DEF ClaimDueJob, IsJobDue, Inv, Typed, IdleWorkers
  <1>3. \A k \in Jobs : polls'[k] = IF k = j THEN [polls[k] EXCEPT !.slot = Claimed(NoDue)] ELSE polls[k]
    BY <1>2 DEF ClaimDueJob
  <1>4. polls[j] \in Poll /\ polls'[j] \in Poll /\ polls'[j].slot = Claimed(NoDue)
    <2>1. polls[j] \in Poll /\ polls'[j] = [polls[j] EXCEPT !.slot = Claimed(NoDue)]
      BY <1>2, <1>3
    <2>2. Claimed(NoDue) \in Slots
      BY DEF Claimed, Slots
    <2>3. QED
      BY <2>1, <2>2 DEF Poll
  <1>5. /\ polls' \in [Jobs -> Poll] /\ \A k \in Jobs \ {j} : polls'[k] = polls[k]
        /\ polls'[j].slot.kind = "Claimed" /\ polls'[j].slot.due = NoDue
    BY <1>2, <1>3, <1>4 DEF ClaimDueJob, Claimed
  <1>6. polls[j].slot.kind = "Queued"
    <2>1. 1 \in 1 .. Len(queue) /\ queue[1] = j
      BY <1>2
    <2>2. QED
      BY <1>2, <2>1 DEF Inv, Indexes, Lists
  <1>7. Tail(queue) \in Seq(Jobs) /\ Indexes(Tail(queue), polls')
    BY <1>2, <1>5, TailIndexes DEF Inv
  <1>8. Typed'
    BY <1>1, <1>2, <1>5, <1>7 DEF ClaimDueJob, Inv, Typed, PlaceOf
  <1>9. \A v \in Workers : v # w => place'[v] = place[v] /\ job'[v] = job[v]
    BY <1>1 DEF Inv, Typed
  <1>10. place'[w] = "Starting" /\ job'[w] = j
    BY <1>1, <1>2 DEF Inv, Typed
  <1>11. Equipped'
    BY <1>2, <1>9, <1>10 DEF Inv, Equipped, ClaimDueJob
  <1>12. Claims'
    <2>1. \A v \in Workers : /\ IsStarting(v)' <=> v = w \/ IsStarting(v)
                             /\ IsStarting(v) => v # w /\ job[v] # j /\ job[v] \in Jobs
      BY <1>2, <1>6, <1>9, <1>10 DEF IsStarting, Inv, Claims, Equipped
    <2>2. QED
      BY <1>2, <1>5, <1>9, <1>10, <2>1 DEF Inv, Claims
  <1>13. Remembered'
    BY <1>2, <1>5 DEF Inv, Remembered, Remembers, ClaimDueJob, Never, NoDue, Typed
  <1>14. Launched' /\ NoOversleep'
    BY <1>9, <1>10 DEF Inv, Launched, NoOversleep, ClaimDueJob
  <1>15. QED
    BY <1>7, <1>8, <1>11, <1>12, <1>13, <1>14 DEF Inv, ClaimDueJob

LEMMA SleepKeeps == Inv /\ Sleep => Inv'
  <1> SUFFICES ASSUME Inv, Sleep PROVE Inv'
    OBVIOUS
  <1>1. queue # <<>> => /\ Head(queue) \in Jobs /\ polls[Head(queue)] \in Poll
                        /\ polls[Head(queue)].slot.kind = "Queued" /\ polls[Head(queue)].slot.due \in Nat
    <2> SUFFICES ASSUME queue # <<>>
                 PROVE  /\ Head(queue) \in Jobs /\ polls[Head(queue)] \in Poll
                        /\ polls[Head(queue)].slot.kind = "Queued" /\ polls[Head(queue)].slot.due \in Nat
      OBVIOUS
    <2>1. Head(queue) \in Jobs /\ 1 \in 1 .. Len(queue) /\ queue[1] = Head(queue)
      BY DEF Inv, Typed
    <2>2. polls[Head(queue)] \in Poll /\ polls[Head(queue)].slot.kind = "Queued"
      BY <2>1 DEF Inv, Indexes, Lists, Typed
    <2>3. QED
      BY <2>1, <2>2, PollFields
  <1>2. wake' \in Nat \cup {ForPoolEvent}
    BY <1>1 DEF Sleep, WakeFor
  <1>3. Typed'
    BY <1>2 DEF Inv, Typed, Sleep
  <1>4. Equipped' /\ Claims' /\ Remembered' /\ Launched' /\ Indexes(queue, polls)'
    BY DEF Inv, Sleep, Equipped, Claims, IsStarting, Remembered, Launched, Indexes, Lists, ListsOnce, IsOrdered
  <1>5. wake' = ForPoolEvent => \/ \E w \in Workers : place[w] \in InFlight
                                \/ \A j \in Jobs : polls[j].slot = Exhausted
    <2> SUFFICES ASSUME wake' = ForPoolEvent, \A w \in Workers : place[w] \notin InFlight
                 PROVE  \A j \in Jobs : polls[j].slot = Exhausted
      OBVIOUS
    <2>1. \A w \in Workers : place[w] = "Idle"
      BY DEF InFlight, Inv, Typed, PlaceOf, Launched, Sleep
    <2>2. IdleWorkers # {}
      BY <2>1, PoolAssumption DEF IdleWorkers
    <2>3. queue = <<>>
      BY <1>1, <2>2 DEF Sleep, WakeFor, ForPoolEvent
    <2>4. \A j \in Jobs : polls[j].slot.kind # "Queued"
      BY <2>3 DEF Inv, Indexes, Lists
    <2>5. \A j \in Jobs : polls[j].slot.kind # "Claimed"
      BY <2>1 DEF Inv, Claims, IsStarting
    <2>6. QED
      BY <2>4, <2>5, PollFields DEF Inv, Typed
  <1>6. IdleWorkers # {} /\ queue # <<>> => wake' # ForPoolEvent /\ wake' <= polls[Head(queue)].slot.due
    BY <1>1 DEF Sleep, WakeFor, ForPoolEvent
  <1>7. NoOversleep'
    BY <1>5, <1>6 DEF NoOversleep, Sleep, IdleWorkers
  <1>8. QED
    BY <1>3, <1>4, <1>7 DEF Inv

\* The steps that move the loop or cancel it and touch nothing else.
LEMMA LoopMovesKeep == Inv /\ (WakeUp \/ Stop \/ Cancel) => Inv'
  <1> SUFFICES ASSUME Inv, WakeUp \/ Stop \/ Cancel PROVE Inv'
    OBVIOUS
  <1>1. /\ UNCHANGED <<polls, queue, place, job, report, wake, told>>
        /\ pool' \in {pool, "Looking", "Stopped"} /\ cancelled' \in BOOLEAN
    BY DEF WakeUp, Stop, Cancel, Inv, Typed
  <1>2. Typed' /\ Equipped' /\ Claims' /\ Remembered' /\ Indexes(queue, polls)'
    BY <1>1 DEF Inv, Typed, Equipped, Claims, IsStarting, Remembered, Indexes, Lists, ListsOnce, IsOrdered
  <1>3. Launched' /\ NoOversleep'
    BY <1>1 DEF Inv, Launched, NoOversleep, IdleWorkers
  <1>4. QED
    BY <1>2, <1>3 DEF Inv

\* A worker that ends stays where it is in the eyes of the schedule.
LEMMA EndsKeeps ==
    ASSUME Inv, NEW w \in Workers, NEW from, NEW to, NEW progress \in Report,
           Ends(w, from, to, progress),
           \/ from = "Starting" /\ to \in {"Started", "NotStarted"}
           \/ from = "Executing" /\ to = "Executed"
    PROVE  Inv'
  <1>1. /\ place[w] = from /\ place' = [place EXCEPT ![w] = to]
        /\ report' = [report EXCEPT ![w] = progress]
        /\ UNCHANGED <<polls, queue, job, pool, wake, cancelled, told>>
    BY DEF Ends
  <1>2. /\ place'[w] = to /\ report'[w] = progress
        /\ \A v \in Workers \ {w} : place'[v] = place[v] /\ report'[v] = report[v]
    BY <1>1 DEF Inv, Typed
  <1>3. Typed'
    BY <1>1 DEF Inv, Typed, PlaceOf, Report
  <1>4. \A v \in Workers : /\ IsStarting(v)' <=> IsStarting(v)
                           /\ place'[v] = "Idle" <=> place[v] = "Idle"
                           /\ place'[v] = "ToExecute" <=> place[v] = "ToExecute"
                           /\ place[v] \in InFlight => place'[v] \in InFlight
    BY <1>1, <1>2 DEF IsStarting, InFlight
  <1>5. Equipped'
    BY <1>1, <1>2, <1>4 DEF Inv, Equipped, Report
  <1>6. Claims' /\ Remembered' /\ Indexes(queue, polls)' /\ Launched'
    BY <1>1, <1>4 DEF Inv, Claims, Remembered, Indexes, Lists, ListsOnce, IsOrdered, Launched
  <1>7. NoOversleep'
    <2>1. IdleWorkers' = IdleWorkers
      BY <1>4 DEF IdleWorkers
    <2>2. QED
      BY <1>1, <1>4, <2>1 DEF Inv, NoOversleep
  <1>8. QED
    BY <1>3, <1>5, <1>6, <1>7 DEF Inv

LEMMA WorkerStepsKeep ==
    ASSUME Inv, NEW w \in Workers, TaskStartEnds(w) \/ ExecutionEnds(w)
    PROVE  Inv'
  <1>1. StartedProgress \cup NotStartedProgress \cup ExecutionProgress \subseteq Report
    BY IntervalsAssumption
       DEF StartedProgress, NotStartedProgress, ExecutionProgress, Progress, ProgressAt, Report, Kinds
  <1>2. CASE TaskStartEnds(w)
    BY <1>1, <1>2, EndsKeeps DEF TaskStartEnds
  <1>3. CASE ExecutionEnds(w)
    BY <1>1, <1>3, EndsKeeps DEF ExecutionEnds
  <1>4. QED
    BY <1>2, <1>3

LEMMA TickKeeps == Inv /\ Tick => Inv'
  <1> SUFFICES ASSUME Inv, Tick PROVE Inv'
    OBVIOUS
  <1>1. /\ UNCHANGED <<queue, place, job, pool, cancelled, told>>
        /\ polls' = [j \in Jobs |-> ElapsedPoll(polls[j])] /\ wake' = Closer(wake)
    BY DEF Tick
  <1>2. \A j \in Jobs : /\ polls[j] \in Poll /\ polls'[j] \in Poll
                        /\ polls'[j].slot.kind = polls[j].slot.kind
                        /\ polls'[j].slot.due = Closer(polls[j].slot.due)
                        /\ polls[j].slot.due \in Int
    BY <1>1, ElapsedIsPoll, DueIsInt DEF Inv, Typed
  <1>3. \A w \in Workers : /\ report'[w] \in [kind : Kinds \cup {"None"}, at : Nat]
                           /\ report'[w].kind = report[w].kind
    BY DEF Tick, Inv, Typed, Closer
  <1>4. wake' \in Nat \cup {ForPoolEvent}
    BY <1>1 DEF Inv, Typed, Closer, ForPoolEvent
  <1>5. Typed'
    <2>1. polls' \in [Jobs -> Poll]
      BY <1>1, <1>2
    <2>2. report' \in [Workers -> [kind : Kinds \cup {"None"}, at : Nat]]
      BY <1>3 DEF Tick
    <2>3. QED
      BY <1>1, <1>4, <2>1, <2>2 DEF Inv, Typed
  <1>6. Equipped'
    BY <1>1, <1>3 DEF Inv, Equipped
  <1>7. \A w \in Workers : IsStarting(w) => job[w] \in Jobs
    BY DEF Inv, Equipped, IsStarting
  <1>8. Claims'
    BY <1>1, <1>2, <1>7 DEF Inv, Claims, IsStarting
  <1>9. Remembered'
    BY <1>1, <1>2 DEF Inv, Remembered, Remembers, Closer, Never
  <1>10. Indexes(queue, polls)'
    BY <1>1, ElapsedIndexes DEF Inv, Typed
  <1>11. Launched'
    BY <1>1 DEF Inv, Launched
  <1>12. NoOversleep'
    <2> SUFFICES ASSUME pool = "Waiting"
                 PROVE  /\ IdleWorkers # {} /\ queue # <<>> =>
                                wake' # ForPoolEvent /\ wake' <= polls'[Head(queue)].slot.due
                        /\ wake' = ForPoolEvent =>
                                \/ \E w \in Workers : place[w] \in InFlight
                                \/ \A j \in Jobs : polls'[j].slot = Exhausted
      BY <1>1 DEF NoOversleep, IdleWorkers
    <2>1. ASSUME IdleWorkers # {}, queue # <<>>
          PROVE  wake' # ForPoolEvent /\ wake' <= polls'[Head(queue)].slot.due
      <3>1. Head(queue) \in Jobs
        BY <2>1 DEF Inv, Typed
      <3>2. wake # ForPoolEvent /\ wake <= polls[Head(queue)].slot.due /\ wake \in Nat
        BY <2>1 DEF Inv, NoOversleep, Typed
      <3>3. QED
        BY <1>1, <1>2, <3>1, <3>2 DEF Closer, ForPoolEvent
    <2>2. ASSUME wake' = ForPoolEvent, \A w \in Workers : place[w] \notin InFlight
          PROVE  \A j \in Jobs : polls'[j].slot = Exhausted
      <3>1. wake = ForPoolEvent
        BY <1>1, <2>2 DEF Inv, Typed, Closer, ForPoolEvent
      <3>2. \A j \in Jobs : polls[j].slot = Exhausted
        BY <2>2, <3>1 DEF Inv, NoOversleep
      <3>3. \A j \in Jobs : polls'[j].slot.kind = "Exhausted"
        BY <1>2, <3>2 DEF Exhausted
      <3>4. QED
        BY <1>2, <3>3, PollFields
    <2>3. QED
      BY <2>1, <2>2
  <1>13. QED
    BY <1>5, <1>6, <1>8, <1>9, <1>10, <1>11, <1>12 DEF Inv

-----------------------------------------------------------------------------
(* The joins: what a report adds to what was told of a job is kept by its slot *)

\* What Tells makes of the history, for the report of an execution and of a task start.
Says(said, kind, executed) ==
    CASE said = "End" \/ kind = "IterationsEnded" -> "End"
      [] said # "End" /\ kind = "TaskPickable" -> "Work"
      [] said # "End" /\ kind = "NextIterationDueAt" /\ executed -> "Nothing"
      [] OTHER -> said

LEMMA ReleasedRemembers ==
    ASSUME NEW poll \in Poll, poll.slot.kind = "Claimed", NEW progress \in Report, NEW jitter \in Jitters,
           NEW said \in {"Nothing", "Work", "End"}, Remembers(poll.slot, said)
    PROVE  Remembers(Released(poll, progress, jitter).slot, Says(said, progress.kind, FALSE))
  <1> DEFINE due == RequestedDue(progress, poll.interval, jitter)
             next == ReleasedDue(poll, progress, jitter)
             asked == poll.slot.due
  <1>1. poll.interval \in BaseInterval .. MaxInterval /\ asked \in PollDue \cup {NoDue}
    BY DEF Poll, Slots
  <1>2. /\ due \in PollDue /\ (due = Never <=> progress.kind = "IterationsEnded")
        /\ progress.kind = "TaskPickable" => due = 0
    BY <1>1, RequestedDueIsDue
  <1>3. next = IF asked = NoDue THEN due ELSE Merge(due, asked)
    BY DEF ReleasedDue
  <1>4. next \in PollDue /\ Released(poll, progress, jitter).slot = ScheduledPoll(next)
    BY ReleasedIsPoll
  <1>5. /\ ScheduledPoll(next).kind \in {"Queued", "Exhausted"}
        /\ ScheduledPoll(next).kind = "Exhausted" <=> next = Never
        /\ next # Never => ScheduledPoll(next).due = next
    BY <1>4, ScheduledPollIsSlot
  <1>6. asked # NoDue => /\ Merge(due, asked) = Never <=> due = Never \/ asked = Never
                         /\ due # Never /\ asked # Never /\ (due = 0 \/ asked = 0) => Merge(due, asked) = 0
    BY <1>1, <1>2, MergeIsDue
  <1>7. /\ said = "Work" => asked = 0
        /\ said = "End" => asked = Never
        /\ asked = Never => said = "End"
    BY DEF Remembers
  <1> HIDE DEF due, next, asked
  <1>8. next = Never <=> said = "End" \/ progress.kind = "IterationsEnded"
    BY <1>2, <1>3, <1>6, <1>7 DEF Never, NoDue
  <1>9. Says(said, progress.kind, FALSE) = "Work" => next = 0
    BY <1>2, <1>3, <1>6, <1>7 DEF Says, Never, NoDue
  <1>10. Says(said, progress.kind, FALSE) = "End" <=> said = "End" \/ progress.kind = "IterationsEnded"
    BY DEF Says
  <1>11. Remembers(ScheduledPoll(next), Says(said, progress.kind, FALSE))
    BY <1>5, <1>8, <1>9, <1>10 DEF Remembers, Never
  <1>12. QED
    BY <1>4, <1>11

LEMMA RescheduledRemembers ==
    ASSUME NEW poll \in Poll, NEW progress \in Report, NEW jitter \in Jitters,
           NEW said \in {"Nothing", "Work", "End"}, Remembers(poll.slot, said)
    PROVE  Remembers(Rescheduled(poll, progress, jitter).slot, Says(said, progress.kind, TRUE))
  <1> DEFINE due == RequestedDue(progress, poll.interval, jitter)
             next == RescheduledDue(poll, progress, jitter)
             asked == poll.slot.due
             told1 == Says(said, progress.kind, TRUE)
             closed == progress.kind \in {"IterationsEnded", "NextIterationDueAt"}
  <1>1. /\ poll.interval \in BaseInterval .. MaxInterval
        /\ poll.slot.kind \in {"Queued", "Claimed", "Exhausted"}
        /\ poll.slot.kind = "Queued" => asked \in Nat
        /\ poll.slot.kind = "Claimed" => asked \in PollDue \cup {NoDue}
    BY DEF Poll, Slots
  <1>2. /\ due \in PollDue /\ (due = Never <=> progress.kind = "IterationsEnded")
        /\ progress.kind = "TaskPickable" => due = 0
    BY <1>1, RequestedDueIsDue
  <1>3. next = IF asked = NoDue \/ (poll.slot.kind = "Queued" /\ closed) THEN due ELSE Merge(asked, due)
    BY DEF RescheduledDue
  <1>4. /\ next \in PollDue \/ poll.slot.kind = "Exhausted"
        /\ poll.slot.kind = "Exhausted" => Rescheduled(poll, progress, jitter) = poll
        /\ poll.slot.kind = "Claimed" => Rescheduled(poll, progress, jitter).slot = Claimed(next)
        /\ poll.slot.kind = "Queued" => Rescheduled(poll, progress, jitter).slot = ScheduledPoll(next)
    BY RescheduledIsPoll
  <1>5. asked \in PollDue =>
            /\ Merge(asked, due) = Never <=> asked = Never \/ due = Never
            /\ asked # Never /\ due # Never /\ (asked = 0 \/ due = 0) => Merge(asked, due) = 0
    BY <1>2, MergeIsDue
  <1>6. /\ said = "Work" => asked = 0
        /\ said = "End" => (poll.slot.kind = "Claimed" /\ asked = Never) \/ poll.slot.kind = "Exhausted"
        /\ poll.slot.kind = "Exhausted" => said = "End"
        /\ poll.slot.kind = "Claimed" /\ asked = Never => said = "End"
    BY DEF Remembers
  <1>7. /\ told1 = "End" <=> said = "End" \/ progress.kind = "IterationsEnded"
        /\ told1 = "Work" => \/ progress.kind = "TaskPickable" /\ said # "End"
                             \/ said = "Work" /\ ~closed
    BY DEF Says
  <1> HIDE DEF due, next, asked, told1
  <1>8. CASE poll.slot.kind = "Exhausted"
    <2>1. told1 = "End"
      BY <1>6, <1>7, <1>8
    <2>2. QED
      BY <1>4, <1>8, <2>1 DEF Remembers, told1
  <1>9. CASE poll.slot.kind = "Claimed"
    <2>1. next = Never <=> told1 = "End"
      BY <1>1, <1>2, <1>3, <1>5, <1>6, <1>7, <1>9 DEF PollDue, Never, NoDue
    <2>2. told1 = "Work" => next = 0
      BY <1>1, <1>2, <1>3, <1>5, <1>6, <1>7, <1>9 DEF PollDue, Never, NoDue
    <2>3. Claimed(next).kind = "Claimed" /\ Claimed(next).due = next
      BY DEF Claimed
    <2>4. QED
      BY <1>4, <1>9, <2>1, <2>2, <2>3 DEF Remembers, told1
  <1>10. CASE poll.slot.kind = "Queued"
    <2>1. asked \in PollDue /\ asked # Never /\ asked # NoDue
      BY <1>1, <1>10 DEF PollDue, Never, NoDue
    <2>2. next = Never <=> told1 = "End"
      BY <1>2, <1>3, <1>5, <1>6, <1>7, <1>10, <2>1
    <2>3. told1 = "Work" => next = 0
      BY <1>2, <1>3, <1>5, <1>6, <1>7, <1>10, <2>1 DEF Never
    <2>4. /\ ScheduledPoll(next).kind \in {"Queued", "Exhausted"}
          /\ ScheduledPoll(next).kind = "Exhausted" <=> next = Never
          /\ next # Never => ScheduledPoll(next).due = next
      BY <1>4, <1>10, ScheduledPollIsSlot
    <2>5. QED
      BY <1>4, <1>10, <2>2, <2>3, <2>4 DEF Remembers, Never, told1
  <1>11. QED
    BY <1>1, <1>8, <1>9, <1>10

\* What the two joins have in common: the slot of one job changes, and the loop goes round.
LEMMA JoinKeeps ==
    ASSUME Inv, NEW w \in Workers, NEW at, at \in {"Idle", "ToExecute"},
           pool \in {"Waiting", "Draining"}, place[w] \in {"Started", "NotStarted", "Executed"},
           polls' \in [Jobs -> Poll], \A k \in Jobs \ {job[w]} : polls'[k] = polls[k],
           polls'[job[w]].slot.kind = "Claimed" <=> polls[job[w]].slot.kind = "Claimed" /\ ~IsStarting(w),
           queue' \in Requeued(queue, polls, polls', job[w]),
           place' = [place EXCEPT ![w] = at],
           job' \in {job, [job EXCEPT ![w] = NoJob]}, at # "Idle" => job' = job,
           report' = [report EXCEPT ![w] = NoProgress],
           Joined, wake' = wake, cancelled' = cancelled,
           told' \in [Jobs -> {"Nothing", "Work", "End"}],
           \A k \in Jobs \ {job[w]} : told'[k] = told[k],
           Remembers(polls'[job[w]].slot, told'[job[w]])
    PROVE  Inv'
  <1>1. job[w] \in Jobs
    BY DEF Inv, Equipped
  <1>2. queue' \in Seq(Jobs) /\ Indexes(queue', polls')
    BY <1>1, RequeuedIndexes DEF Inv, Typed
  <1>3. pool' \in {"Looking", "Draining"}
    BY DEF Joined
  <1>4. Typed'
    BY <1>2, <1>3 DEF Inv, Typed, PlaceOf, NoProgress, Progress
  <1>5. /\ place'[w] = at /\ \A v \in Workers \ {w} : place'[v] = place[v] /\ job'[v] = job[v] /\ report'[v] = report[v]
        /\ at = "ToExecute" => job'[w] = job[w]
    BY DEF Inv, Typed
  <1>6. Equipped'
    BY <1>1, <1>5 DEF Inv, Equipped
  <1>7. \A v \in Workers : IsStarting(v)' <=> v # w /\ IsStarting(v)
    BY <1>5 DEF IsStarting
  <1>8. Claims'
    <2>1. ASSUME NEW v \in Workers, IsStarting(v)' PROVE polls'[job'[v]].slot.kind = "Claimed"
      <3>1. v # w /\ IsStarting(v) /\ job'[v] = job[v] /\ job[v] \in Jobs /\ polls[job[v]].slot.kind = "Claimed"
        BY <1>5, <1>7, <2>1 DEF Inv, Claims, Equipped, IsStarting
      <3>2. CASE job[v] = job[w]
        BY <3>1, <3>2 DEF Inv, Claims
      <3>3. QED
        BY <3>1, <3>2
    <2>2. ASSUME NEW j \in Jobs, polls'[j].slot.kind = "Claimed"
          PROVE  \E v \in Workers : IsStarting(v)' /\ job'[v] = j
      <3>1. polls[j].slot.kind = "Claimed" /\ (j = job[w] => ~IsStarting(w))
        BY <2>2
      <3>2. PICK v \in Workers : IsStarting(v) /\ job[v] = j
        BY <3>1 DEF Inv, Claims
      <3>3. v # w
        BY <3>1, <3>2
      <3>4. QED
        BY <1>5, <1>7, <3>2, <3>3
    <2>3. \A u, v \in Workers : IsStarting(u)' /\ IsStarting(v)' /\ job'[u] = job'[v] => u = v
      BY <1>5, <1>7 DEF Inv, Claims
    <2>4. QED
      BY <2>1, <2>2, <2>3 DEF Claims
  <1>9. Remembered'
    BY <1>1 DEF Inv, Remembered
  <1>10. Launched' /\ NoOversleep'
    BY <1>3 DEF Launched, NoOversleep
  <1>11. QED
    BY <1>2, <1>4, <1>6, <1>8, <1>9, <1>10 DEF Inv

LEMMA CloseTaskStartKeeps ==
    ASSUME Inv, NEW w \in Workers, CloseTaskStart(w)
    PROVE  Inv'
  <1> DEFINE j == job[w]
  <1>1. /\ j \in Jobs /\ place[w] \in {"Started", "NotStarted"} /\ IsStarting(w)
        /\ report[w] \in Report /\ polls[j] \in Poll /\ polls[j].slot.kind = "Claimed"
        /\ told[j] \in {"Nothing", "Work", "End"} /\ Remembers(polls[j].slot, told[j])
    BY DEF CloseTaskStart, Inv, Equipped, Typed, Report, Claims, IsStarting, Remembered
  <1>2. PICK jitter \in Jitters : polls' = [polls EXCEPT ![j] = Released(@, report[w], jitter)]
    BY DEF CloseTaskStart
  <1>3. Released(polls[j], report[w], jitter) \in Poll
    BY <1>1, ReleasedIsPoll
  <1>4. /\ polls' \in [Jobs -> Poll] /\ polls'[j] = Released(polls[j], report[w], jitter)
        /\ \A k \in Jobs \ {j} : polls'[k] = polls[k]
    BY <1>1, <1>2, <1>3 DEF Inv, Typed
  <1>5. polls'[j].slot.kind # "Claimed"
    <2>1. /\ ReleasedDue(polls[j], report[w], jitter) \in PollDue
          /\ polls'[j].slot = ScheduledPoll(ReleasedDue(polls[j], report[w], jitter))
      BY <1>1, <1>4, ReleasedIsPoll
    <2>2. QED
      BY <2>1, ScheduledPollIsSlot
  <1>6. told' = [told EXCEPT ![j] = Says(@, report[w].kind, FALSE)]
    BY <1>1 DEF CloseTaskStart, Tells, Says
  <1>7. Says(told[j], report[w].kind, FALSE) \in {"Nothing", "Work", "End"}
    BY <1>1 DEF Says
  <1>8. /\ told' \in [Jobs -> {"Nothing", "Work", "End"}] /\ \A k \in Jobs \ {j} : told'[k] = told[k]
        /\ told'[j] = Says(told[j], report[w].kind, FALSE)
    BY <1>1, <1>6, <1>7 DEF Inv, Typed
  <1>9. Remembers(polls'[j].slot, told'[j])
    BY <1>1, <1>4, <1>8, ReleasedRemembers
  <1> DEFINE at == IF place[w] = "Started" THEN "ToExecute" ELSE "Idle"
  <1>10. /\ place' = [place EXCEPT ![w] = at] /\ at \in {"Idle", "ToExecute"}
         /\ job' \in {job, [job EXCEPT ![w] = NoJob]} /\ (at # "Idle" => job' = job)
    BY DEF CloseTaskStart, Inv, Typed
  <1> HIDE DEF at
  <1>11. QED
    BY <1>1, <1>4, <1>5, <1>8, <1>9, <1>10, JoinKeeps DEF CloseTaskStart

LEMMA CloseExecutionKeeps ==
    ASSUME Inv, NEW w \in Workers, CloseExecution(w)
    PROVE  Inv'
  <1> DEFINE j == job[w]
  <1>1. /\ j \in Jobs /\ place[w] = "Executed" /\ ~IsStarting(w)
        /\ report[w] \in Report /\ polls[j] \in Poll
        /\ told[j] \in {"Nothing", "Work", "End"} /\ Remembers(polls[j].slot, told[j])
    BY DEF CloseExecution, Inv, Equipped, Typed, Report, IsStarting, Remembered
  <1>2. PICK jitter \in Jitters : polls' = [polls EXCEPT ![j] = Rescheduled(@, report[w], jitter)]
    BY DEF CloseExecution
  <1> DEFINE next == Rescheduled(polls[j], report[w], jitter)
             due == RescheduledDue(polls[j], report[w], jitter)
  <1>3. /\ next \in Poll /\ (due \in PollDue \/ polls[j].slot.kind = "Exhausted")
        /\ polls[j].slot.kind = "Exhausted" => next = polls[j]
        /\ polls[j].slot.kind = "Claimed" => next.slot = Claimed(due)
        /\ polls[j].slot.kind = "Queued" => next.slot = ScheduledPoll(due)
    BY <1>1, RescheduledIsPoll
  <1>4. /\ polls' \in [Jobs -> Poll] /\ polls'[j] = next
        /\ \A k \in Jobs \ {j} : polls'[k] = polls[k]
    BY <1>1, <1>2, <1>3 DEF Inv, Typed
  <1>5. polls'[j].slot.kind = "Claimed" <=> polls[j].slot.kind = "Claimed"
    <2>1. polls[j].slot.kind \in {"Queued", "Claimed", "Exhausted"}
      BY <1>1, PollFields
    <2>2. polls[j].slot.kind = "Queued" => ScheduledPoll(due).kind # "Claimed"
      BY <1>3, ScheduledPollIsSlot
    <2>3. Claimed(due).kind = "Claimed"
      BY DEF Claimed
    <2>4. QED
      BY <1>3, <1>4, <2>1, <2>2, <2>3
  <1>6. told' = [told EXCEPT ![j] = Says(@, report[w].kind, TRUE)]
    BY <1>1 DEF CloseExecution, Tells, Says
  <1>7. Says(told[j], report[w].kind, TRUE) \in {"Nothing", "Work", "End"}
    BY <1>1 DEF Says
  <1>8. /\ told' \in [Jobs -> {"Nothing", "Work", "End"}] /\ \A k \in Jobs \ {j} : told'[k] = told[k]
        /\ told'[j] = Says(told[j], report[w].kind, TRUE)
    BY <1>1, <1>6, <1>7 DEF Inv, Typed
  <1>9. Remembers(polls'[j].slot, told'[j])
    BY <1>1, <1>4, <1>8, RescheduledRemembers
  <1> HIDE DEF next, due
  <1>10. QED
    BY <1>1, <1>4, <1>5, <1>8, <1>9, JoinKeeps DEF CloseExecution

LEMMA NextKeeps == Inv /\ [Next]_vars => Inv'
  <1> SUFFICES ASSUME Inv, [Next]_vars PROVE Inv'
    OBVIOUS
  <1>1. CASE Loop
    BY <1>1, StartExecutionsKeeps, ClaimDueJobKeeps, SleepKeeps, LoopMovesKeep DEF Loop
  <1>2. CASE Cancel \/ Tick
    BY <1>2, LoopMovesKeep, TickKeeps
  <1>3. ASSUME NEW w \in Workers,
               CloseTaskStart(w) \/ CloseExecution(w) \/ TaskStartEnds(w) \/ ExecutionEnds(w)
        PROVE  Inv'
    BY <1>3, CloseTaskStartKeeps, CloseExecutionKeeps, WorkerStepsKeep
  <1>4. CASE UNCHANGED vars
    BY <1>4 DEF vars, Inv, Typed, Equipped, Claims, IsStarting, Indexes, Lists, ListsOnce, IsOrdered,
                Remembered, Launched, NoOversleep, IdleWorkers
  <1>5. QED
    BY <1>1, <1>2, <1>3, <1>4 DEF Next

LEMMA InvHolds == Spec => []Inv
  BY InitHolds, NextKeeps, PTL DEF Spec

-----------------------------------------------------------------------------
(* The properties of the runs *)

\* The state of the pool is always well formed (WorkerPool::run and its PollScheduler): no slot,
\* backoff step or wake moment leaves its range, whatever the intervals and the draws of the jitter.
THEOREM TypeCorrect == Spec => []TypeOK
  <1>1. Inv => TypeOK
    <2> SUFFICES ASSUME Inv PROVE TypeOK
      OBVIOUS
    <2>1. ASSUME NEW j \in Jobs
          PROVE  /\ DOMAIN polls[j] = {"interval", "slot"} /\ IsSlot(polls[j].slot)
                 /\ polls[j].interval \in BaseInterval .. MaxInterval
      <3>1. polls[j] \in Poll
        BY DEF Inv, Typed
      <3>2. QED
        BY <3>1 DEF Poll, Slots, IsSlot, Queued, Claimed, Exhausted
    <2>2. \A w \in Workers : IsProgress(report[w])
      BY DEF Inv, Typed, IsProgress, Kinds
    <2>3. QED
      BY <2>1, <2>2 DEF Inv, Typed, TypeOK
  <1>2. QED
    BY <1>1, InvHolds, PTL

\* However the workers of a pool interleave, a job is claimed exactly while one of them starts a
\* task of it (try_claim_due_job, release_job, reschedule_job).
THEOREM ClaimsAreExclusive == Spec => []ClaimIsExclusive
  <1>1. Inv => ClaimIsExclusive
    <2> SUFFICES ASSUME Inv, NEW j \in Jobs
                 PROVE  Cardinality({w \in Workers : job[w] = j /\ IsStarting(w)})
                            = IF polls[j].slot.kind = "Claimed" THEN 1 ELSE 0
      BY DEF ClaimIsExclusive, IsStarting
    <2> DEFINE starting == {w \in Workers : job[w] = j /\ IsStarting(w)}
    <2>1. CASE polls[j].slot.kind = "Claimed"
      <3>1. PICK w \in Workers : IsStarting(w) /\ job[w] = j
        BY <2>1 DEF Inv, Claims
      <3>2. starting = {w}
        BY <3>1 DEF Inv, Claims
      <3>3. QED
        BY <2>1, <3>2, FS_Singleton
    <2>2. CASE polls[j].slot.kind # "Claimed"
      <3>1. starting = {}
        BY <2>2 DEF Inv, Claims
      <3>2. QED
        BY <2>2, <3>1, FS_EmptySet
    <2>3. QED
      BY <2>1, <2>2
  <1>2. QED
    BY <1>1, InvHolds, PTL

\* The due queue always lists the queued jobs, each once, the earliest first (transition_job).
THEOREM QueueIsAnIndex == Spec => []QueueIndexesSlots
  <1>1. Inv => QueueIndexesSlots
    <2> SUFFICES ASSUME Inv PROVE QueueIndexesSlots
      OBVIOUS
    <2>0. queue \in Seq(Jobs) /\ DOMAIN queue = 1 .. Len(queue)
      BY DEF Inv, Typed
    <2>1. ASSUME NEW j \in Jobs
          PROVE  Cardinality({n \in DOMAIN queue : queue[n] = j})
                    = IF polls[j].slot.kind = "Queued" THEN 1 ELSE 0
      <3> DEFINE at == {n \in DOMAIN queue : queue[n] = j}
      <3>1. CASE polls[j].slot.kind = "Queued"
        <4>1. PICK n \in 1 .. Len(queue) : queue[n] = j
          BY <3>1 DEF Inv, Indexes, Lists
        <4>2. at = {n}
          BY <2>0, <4>1 DEF Inv, Indexes, ListsOnce
        <4>3. QED
          BY <3>1, <4>2, FS_Singleton
      <3>2. CASE polls[j].slot.kind # "Queued"
        <4>1. at = {}
          BY <2>0, <3>2 DEF Inv, Indexes, Lists
        <4>2. QED
          BY <3>2, <4>1, FS_EmptySet
      <3>3. QED
        BY <3>1, <3>2
    <2>2. \A n, k \in DOMAIN queue : n < k => polls[queue[n]].slot.due <= polls[queue[k]].slot.due
      BY <2>0 DEF Inv, Indexes, IsOrdered
    <2>3. QED
      BY <2>1, <2>2 DEF QueueIndexesSlots
  <1>2. QED
    BY <1>1, InvHolds, PTL

\* Whatever the order in which reports are joined, work another worker may start is due at once and
\* a job is given up exactly when its budget is spent (JobPoll::release, JobPoll::reschedule).
THEOREM NoReportIsLost == Spec => []ReportsAreScheduled
  <1>1. Inv => ReportsAreScheduled
    <2> SUFFICES ASSUME Inv, NEW j \in Jobs
                 PROVE  /\ told[j] = "Work" => polls[j].slot.kind = "Claimed" \/ polls[j].slot = Queued(0)
                        /\ told[j] = "End" => polls[j].slot.kind = "Claimed" \/ polls[j].slot = Exhausted
                        /\ polls[j].slot = Exhausted => told[j] = "End"
      BY DEF ReportsAreScheduled
    <2>1. polls[j] \in Poll /\ Remembers(polls[j].slot, told[j])
      BY DEF Inv, Typed, Remembered
    <2>2. /\ polls[j].slot.kind \in {"Queued", "Claimed", "Exhausted"}
          /\ polls[j].slot.kind = "Queued" => polls[j].slot = Queued(polls[j].slot.due)
          /\ polls[j].slot.kind = "Exhausted" => polls[j].slot = Exhausted
          /\ polls[j].slot = Exhausted => polls[j].slot.kind = "Exhausted"
      BY <2>1 DEF Poll, Slots, Queued, Exhausted
    <2>3. told[j] = "Work" => polls[j].slot.due = 0 /\ polls[j].slot.kind # "Exhausted"
      BY <2>1 DEF Remembers
    <2>4. QED
      BY <2>1, <2>2, <2>3 DEF Remembers
  <1>2. QED
    BY <1>1, InvHolds, PTL

\* With a free worker the pool never sleeps past the first poll that falls due, and it sleeps
\* without a moment only while somebody is in flight or nothing is left (spawn_task_starts).
THEOREM NeverOversleeps == Spec => []NoOversleep
  BY InvHolds, PTL DEF Inv

=============================================================================
