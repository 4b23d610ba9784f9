\* Two replicas, two segments, overlapping requests.
SPECIFICATION FairSpec
CONSTANTS
    Replicas = {r1, r2}
    NSegments = 2
    MaxAttempts = 2
    MaxStray = 1
    MaxFaults <- SafetyFaults
INVARIANTS TypeOK PrimaryChain BlobMatchesRow ReplicaAgrees ShippedIsHeld EnqueuedWithoutGap
