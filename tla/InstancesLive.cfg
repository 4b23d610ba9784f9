\* Requests settle and expired instances go, whatever owners ask for.
SPECIFICATION FairSpec
CONSTANTS
    i1 = i1
    i2 = i2
    Instances = {i1, i2}
    Extended = {i1}
    NBlocks = 2
    NPairs = 2
    MaxInstances = 2
    Parallel = 2
    MaxFaults <- OneOfEach
    MaxTotal = 1
\* Every instance is asked for once and may be destroyed.
CHECK_DEADLOCK FALSE
PROPERTIES ProvisioningSettles ExpiredGoes
