\* Two nodes, two instances; an hour pays 100 and a tick is half an hour.
SPECIFICATION Spec
CONSTANTS
    Nodes = {n1, n2}
    Instances = {i1}
    MinStake = 10
    SlashPercentage = 50
    Cooldown = 1800
    RatePerHour = 100
    MaxReplicas = 3
    MaxCapacity = 2
    Amounts = {40}
    MaxDeposited = 80
    Tick = 1800
    MaxNow = 1
SYMMETRY Interchangeable
INVARIANTS TypeOK CapacityRespected  StakeBacked SlashedStakeHeld 
CHECK_DEADLOCK FALSE
