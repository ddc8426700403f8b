SPECIFICATION FairSpec
CONSTANTS
    Jobs = {j1}
    Ending = j1
    Workers = {w1, w2}
    NoJob = NoJob
    BaseInterval = 1
    MaxInterval = 1
    Jitters = {0}
    DueMoments = {0, 1}
    Descriptions <- MCDescriptions
    Unset = Unset
    DefaultInterval = 2
    LongestInterval = 4
    LongestDuration = 5
    MinRetention = 5
    Waiters = {x}
    LastIteration = 2
INVARIANTS
    DependenciesCanBeMet
    AnswerIsFinished
    GivenUpIsRecorded
CHECK_DEADLOCK FALSE
PROPERTIES
    WaitEnds
