\* Liveness: three jobs on one worker, so that due jobs always wait for one another.
SPECIFICATION FairSpec
CHECK_DEADLOCK FALSE
CONSTANTS
    Jobs = {j1, j2, j3}
    Workers = {w1}
    NoJob = NoJob
    BaseInterval = 1
    MaxInterval = 2
    Jitters = {0}
    DueMoments = {0, 2}
PROPERTIES
    EveryJobIsPolled
    ShutdownEnds
