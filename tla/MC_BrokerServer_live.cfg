SPECIFICATION FairSpec
CONSTANTS
    a = a
    b = b
    Conns = {a, b}
    Quitters = {a}
    Stuck = {b}
    Scripts <- LivenessScripts
    SockBuf = 1
    IdleTimeout = 1
PROPERTIES
    NobodyWaitsForever
    BrokerEnds
CHECK_DEADLOCK FALSE
