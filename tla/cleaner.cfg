\* Two instances, a window of two over four iterations, and a channel that overflows.
SPECIFICATION Spec
SYMMETRY InstanceSymmetry
CONSTANTS
    Instances = {p1, p2}
    LastIteration = 4
    Retention = 2
    ChannelSize = 1
INVARIANTS
    RecentIterationsAreKept
    OutdatedIsPending
PROPERTIES
    SweptTailIsGone
