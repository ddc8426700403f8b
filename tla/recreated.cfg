\* The smallest retention the code accepts.
SPECIFICATION Spec
SYMMETRY InstanceSymmetry
CONSTANTS
    Instances = {p1, p2}
    LastIteration = 6
    Retention = 5
    ChannelSize = 1
PROPERTIES
    JobIsNotRecreated
