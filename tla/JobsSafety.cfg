SPECIFICATION Spec
CONSTANTS
    w1 = w1
    w2 = w2
    a = a
    b = b
    Jobs = {j1, j2}
    Wallets = {w1, w2}
    Instances = {a, b}
    Owner <- OwnerOfTwo
    Handlers = {"build", "deploy", "bulk", "live_sync", "cutover"}
    Outputs = {"plain", "tail", "cap"}
    KeepFor = 0
    MaxNow = 1
    MaxFaults <- OneOfEach
\* Jobs are requested once: the system stops when all of them are over.
CHECK_DEADLOCK FALSE
SYMMETRY Alike
INVARIANT AdmissionLimits
INVARIANT SlotsAreHeld
INVARIANT RunningRowHasTask
INVARIANT SuccessIsEarned
INVARIANT OneBuildRuns
PROPERTY OutcomeKept
