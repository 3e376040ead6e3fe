SPECIFICATION Spec
CONSTANTS
    a = a
    b = b
    Conns = {a, b}
    Quitters = {b}
    Stuck = {}
    Scripts <- SafetyScripts
    SockBuf = 1
    IdleTimeout = 1
INVARIANTS
    TypeOK
    RepliesKept
PROPERTIES
    HonestAfterLoss
CHECK_DEADLOCK FALSE
