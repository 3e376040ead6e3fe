SPECIFICATION FairDiscoverySpec
CONSTANTS
    p1 = p1
    p2 = p2
    u1 = u1
    u2 = u2
    Procs = {p1, p2}
    Users = {u1, u2}
    NoSocket = NoSocket
    Stale = Stale
    MayKill = TRUE
INVARIANTS
    DiscoveryTypeOK
    SocketTellsTruth
    OutcomeForCause
PROPERTIES
    UseEnds
