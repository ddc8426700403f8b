\* Two independent tasks, one of which is retried.
SPECIFICATION Spec
SYMMETRY WorkerSymmetry
CONSTANTS
    a = a
    b = b
    c = c
    Workers = {w1, w2}
    NoWorker = NoWorker
    TaskIds = {a, b}
    InitialTasks = {a, b}
    DependsOn <- Free
    AllowsFailed = {}
    AllowsSkipped = {}
    MaxAttempts = 2
    Timeout = 1
    MaxLifetime = 2
    RetryPause = 1
    MaxIterations = 1
    IterationInterval = 0
    Outcomes = {"Completed", "Error"}
    HandleCalls = {}
    Planners = {}
    StartDelays = {}
    FaultKinds = {"answer_lost", "given_up", "crash"}
    MaxFaults = 0
PROPERTIES
    ResultIsFinal
