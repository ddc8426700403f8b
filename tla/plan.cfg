\* Two tasks side by side, one of which plans a third at runtime.
SPECIFICATION Spec
SYMMETRY WorkerSymmetry
CONSTANTS
    a = a
    b = b
    c = c
    Workers = {w1, w2}
    NoWorker = NoWorker
    TaskIds = {a, b, c}
    InitialTasks = {a, b}
    DependsOn <- Plan
    AllowsFailed = {}
    AllowsSkipped = {c}
    MaxAttempts = 1
    Timeout = 1
    MaxLifetime = 1
    RetryPause = 1
    MaxIterations = 1
    IterationInterval = 0
    Outcomes = {"Completed", "TerminallyFailed", "SkippedBranch", "Deferred", "Error"}
    HandleCalls = {"add_task", "complete_task", "fail_task", "skip_task_branch"}
    Planners = {a}
    StartDelays = {}
    FaultKinds = {"answer_lost", "crash"}
    MaxFaults = 1
INVARIANTS
    ClosedIterationHoldsNoWork
    AddedTaskHasPlanner
PROPERTIES
    PlanIsStoredWithResult
    NoTaskVanishes
