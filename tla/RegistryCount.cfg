\* One node with room for two instances; the cooldown is one tick.
SPECIFICATION Spec
CONSTANTS
    Nodes = {n1}
    Instances = {i1, i2}
    MinStake = 10
    SlashPercentage = 50
    Cooldown = 1800
    RatePerHour = 100
    MaxReplicas = 2
    MaxCapacity = 2
    Amounts = {40}
    MaxDeposited = 40
    Tick = 1800
    MaxNow = 2
INVARIANT DeregisteredHostsNothing
CHECK_DEADLOCK FALSE
