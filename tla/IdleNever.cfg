\* A row with the status finalize_provision writes.
SPECIFICATION FairSpec
CONSTANTS
    r1 = r1
    Requests = {r1}
    Statuses = {"running"}
    IdleSecs = 1
    Pins = {1}
    MaxNow = 3
    MaxFaults <- OneOfEach
    MaxTotal = 2
CHECK_DEADLOCK FALSE
PROPERTY IdleGoes
