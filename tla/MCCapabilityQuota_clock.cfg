\* Finding: several principals under a clock set at will.
SPECIFICATION Spec
CONSTANTS
    a = a
    b = b
    c = c
    Invalid = Invalid
    Dids = {a, b, c}
    Messages <- MCMessages
    PolicySets <- MCSeveral
    Rewinding <- MCSeveral
    Window = 2
    MaxPrincipals = 2
    MaxRequests = 2
    MaxClock = 4
    MaxWork = 4
INVARIANTS
    WorkWithinQuota
CHECK_DEADLOCK FALSE
