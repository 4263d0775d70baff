\* One command and the responder, or two racing commands, crashed and repeated
\* at will; history expires and outgrows the read limit.
SPECIFICATION FairSpec
CONSTANTS
    p1 = p1
    p2 = p2
    Procs = {p1, p2}
    Agent = agent
    MaxRooms = 2
    MaxPeer = 2
    ReadLimit = 2
    MayExpire = TRUE
    Teams <- MCTeams
INVARIANT ActiveIsPosted
PROPERTIES ConfigKept PendingResolves
CHECK_DEADLOCK FALSE
