\* Three requests of any kind and a destroy.
SPECIFICATION FairSpec
CONSTANTS
    r1 = r1
    r2 = r2
    r3 = r3
    k1 = k1
    Requests = {r1, r2, r3}
    Kinds = {"set", "delete", "apply", "list", "redirect", "deploy"}
    Keys = {k1}
    MaxFaults <- OneOfEach
    MaxTotal = 1
CHECK_DEADLOCK FALSE
INVARIANTS SecretsUnseen LeftoversAreLate SidecarServesTarget
PROPERTIES AppliedReaches
