\* Three principals under a monotone clock, one under a clock set at will.
SPECIFICATION Spec
CONSTANTS
    a = a
    b = b
    c = c
    Invalid = Invalid
    Dids = {a, b, c}
    Messages <- MCMessages
    PolicySets <- MCPolicySets
    Rewinding <- MCRewinding
    Window = 2
    MaxPrincipals = 2
    MaxRequests = 2
    MaxClock = 4
    MaxWork = 4
INVARIANTS
    WorkWithinQuota
    WorkIsDurable
    SavedIsLoadable
PROPERTIES
    TimestampsAscend
CHECK_DEADLOCK FALSE
