\* Two iterations of a single task with an interval between them, executors that move the
\* start of the second, and every fault.
SPECIFICATION Spec
SYMMETRY WorkerSymmetry
CONSTANTS
    a = a
    b = b
    c = c
    Workers = {w1, w2}
    NoWorker = NoWorker
    TaskIds = {a}
    InitialTasks = {a}
    DependsOn <- Single
    AllowsFailed = {}
    AllowsSkipped = {}
    MaxAttempts = 1
    Timeout = 0
    MaxLifetime = 0
    RetryPause = 0
    MaxIterations = 2
    IterationInterval = 1
    Outcomes = {"Completed", "TerminallyFailed"}
    HandleCalls = {"set_next_start_at"}
    Planners = {}
    StartDelays = {0, 2}
    FaultKinds = {"answer_lost", "given_up", "crash"}
    MaxFaults = 1
INVARIANTS
    IterationsInOrder
    ReportedIterationIsClosed
PROPERTIES
    ClosedIterationIsFinal
    NextIterationIsDue
