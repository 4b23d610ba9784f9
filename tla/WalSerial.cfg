\* No request outlives the primary's wait for it: the chain is copied without
\* gaps, replicas catch up after one fault, and are given up after two.
SPECIFICATION FairSpec
CONSTANTS
    Replicas = {r1}
    NSegments = 3
    MaxAttempts = 2
    MaxStray = 0
    MaxFaults <- SerialFaults
INVARIANTS ReplicaContiguous ReplicaBlobMatches
PROPERTIES RefinesChain StuckForGood ShipmentsSettle StartedReplicaCatchesUp
