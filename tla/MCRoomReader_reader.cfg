\* Expiry, recreation, restore, transport errors, exceptions and kills.
SPECIFICATION FairSpec
CONSTANTS
    MaxSeq = 3
    MaxGen = 2
    Limit = 2
    RetryAfters = {0, 7}
    FirstBackoff = 2
    MaxBackoff = 3
    MinDelay = 1
    MaxSleep = 3
    Kills = TRUE
INVARIANTS ReaderInv CursorNamesItsGeneration SkipsAreKnown RetryAfterRespected
PROPERTIES NeverRewinds CatchesUp
CHECK_DEADLOCK FALSE
