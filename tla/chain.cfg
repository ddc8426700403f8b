\* A chain of three tasks: takeovers, retries, lifetimes and every fault.
SPECIFICATION Spec
SYMMETRY WorkerSymmetry
CONSTANTS
    a = a
    b = b
    c = c
    Workers = {w1, w2}
    NoWorker = NoWorker
    TaskIds = {a, b, c}
    InitialTasks = {a, b, c}
    DependsOn <- Chain
    AllowsFailed = {}
    AllowsSkipped = {}
    MaxAttempts = 2
    Timeout = 1
    MaxLifetime = 2
    RetryPause = 1
    MaxIterations = 1
    IterationInterval = 0
    Outcomes = {"Completed", "SkippedBranch", "Cancelled", "Error"}
    HandleCalls = {}
    Planners = {}
    StartDelays = {}
    FaultKinds = {"answer_lost", "given_up", "crash"}
    MaxFaults = 1
INVARIANTS
    TypeOK
    NoIterationDeadlock
    OneExecutorWithinDeadline
    DependenciesBeforeExecution
    MergesTakeNothingBack
PROPERTIES
    ResultIsFinal
