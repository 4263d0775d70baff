\* Nobody kills the process; only a message's own write may fail.
SPECIFICATION Spec
CONSTANTS
    MaxSeq = 3
    MaxGen = 2
    Limit = 2
    RetryAfters = {5}
    FirstBackoff = 2
    MaxBackoff = 3
    MinDelay = 1
    MaxSleep = 3
    Kills = FALSE
INVARIANT GapsSurface
CHECK_DEADLOCK FALSE
