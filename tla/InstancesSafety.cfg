SPECIFICATION Spec
CONSTANTS
    i1 = i1
    i2 = i2
    i3 = i3
    Instances = {i1, i2, i3}
    Extended = {i1}
    NBlocks = 2
    NPairs = 1
    MaxInstances = 1
    Parallel = 2
    MaxFaults <- SafetyFaults
    MaxTotal = 2
\* Every instance is asked for once and may be destroyed.
CHECK_DEADLOCK FALSE
SYMMETRY Interchangeable
INVARIANTS OvershootBounded ResourcesApart DestroyedStaysDown LeaksAccounted
PROPERTIES LeaksStay
