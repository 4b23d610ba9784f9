\* A row with the status the sweeper looks for; two /resume handlers.
SPECIFICATION FairSpec
CONSTANTS
    r1 = r1
    r2 = r2
    Requests = {r1, r2}
    Statuses = {"active"}
    IdleSecs = 1
    Pins = {1}
    MaxNow = 3
    MaxFaults <- OneOfEach
    MaxTotal = 2
CHECK_DEADLOCK FALSE
INVARIANTS SweptWhileIdle RowMatchesStack
PROPERTIES ComesBack IdleGoes
