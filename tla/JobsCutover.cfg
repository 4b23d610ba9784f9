SPECIFICATION Spec
CONSTANTS
    w1 = w1
    w2 = w2
    a = a
    b = b
    Jobs = {j1, j2}
    Wallets = {w1, w2}
    Instances = {a}
    Owner <- OwnerOfOne
    Handlers = {"cutover"}
    Outputs = {"plain"}
    KeepFor = 1
    MaxNow = 0
    MaxFaults <- NoFaults
\* Jobs are requested once: the system stops when all of them are over.
CHECK_DEADLOCK FALSE
INVARIANT DoneIsComplete
