SPECIFICATION Spec
CONSTANTS
    Procs = {p1, p2}
    MaxPeer = 3
    MaxNonce = 2
    PollLimit = 3
    RecoverLimit = 1
    MayExpire = TRUE
SYMMETRY Symmetry
INVARIANTS
    AtMostOneReply
    NonceNeverReused
    ClearedIsDelivered
    AcknowledgementIsTrue
    DeliveredIsAudited
    NoHistoricalReply
    AgentInv
PROPERTIES
    StateNeverRewinds
    ClearedAfterDurable
    NotFoundIsUnretained
    RefinesReplyOnce
CHECK_DEADLOCK FALSE
