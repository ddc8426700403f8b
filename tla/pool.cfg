\* Two jobs on two workers: reports joined in any order, claims, backoff, jitter and shutdown.
SPECIFICATION Spec
SYMMETRY PoolSymmetry
CHECK_DEADLOCK FALSE
CONSTANTS
    Jobs = {j1, j2}
    Workers = {w1, w2}
    NoJob = NoJob
    BaseInterval = 1
    MaxInterval = 2
    Jitters = {0, 1}
    DueMoments = {0, 3}
INVARIANTS
    TypeOK
    ClaimIsExclusive
    QueueIndexesSlots
    ReportsAreScheduled
    NoOversleep
