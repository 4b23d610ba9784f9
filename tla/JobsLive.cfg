SPECIFICATION FairSpec
CONSTANTS
    w1 = w1
    w2 = w2
    a = a
    b = b
    Jobs = {j1, j2}
    Wallets = {w1, w2}
    Instances = {a}
    Owner <- OwnerOfOne
    Handlers = {"build", "deploy", "bulk", "live_sync", "cutover"}
    Outputs = {"plain", "tail"}
    KeepFor = 0
    MaxNow = 0
    MaxFaults <- DockerAndLeave
\* Jobs are requested once: the system stops when all of them are over.
CHECK_DEADLOCK FALSE
PROPERTY JobsSettle
