\* Liveness: two workers, one of which may die at any point.
SPECIFICATION FairSpec
CONSTANTS
    a = a
    b = b
    c = c
    Workers = {w1, w2}
    NoWorker = NoWorker
    TaskIds = {a, b}
    InitialTasks = {a, b}
    DependsOn <- Chain
    AllowsFailed = {}
    AllowsSkipped = {}
    MaxAttempts = 2
    Timeout = 0
    MaxLifetime = 1
    RetryPause = 1
    MaxIterations = 1
    IterationInterval = 0
    Outcomes = {"Completed", "Error", "Cancelled"}
    HandleCalls = {}
    Planners = {}
    StartDelays = {}
    FaultKinds = {"answer_lost", "given_up", "crash"}
    MaxFaults = 1
PROPERTIES
    EveryIterationSettles
    EveryIterationIsReported
