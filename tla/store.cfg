SPECIFICATION Spec
CONSTANTS
    Callers = {c1, c2}
    LastIteration = 3
    Setups <- MCSetups
    Histories = {0, 2, 3}
    MaxCalls = 2
    MaxAdrift = 1
INVARIANTS
    ReadIsTrue
    ListingIsExact
    DeletionIsTrue
    RequestsAreAccountedFor
    PoolHasAContainer
PROPERTIES
    IsAnIterationStore
SYMMETRY CallerSymmetry
CHECK_DEADLOCK FALSE
