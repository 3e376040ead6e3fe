SPECIFICATION StoreSpec
CONSTANTS
    s1 = s1
    s2 = s2
    q1 = q1
    r1 = r1
    Servers = {s1, s2}
    Requests = {q1}
    Renderers = {r1}
    MaxRewrites = 2
    Nothing = Nothing
    Partly = Partly
SYMMETRY ServerSymmetry
INVARIANTS
    StoreTypeOK
    DrawnNotStale
    AnsweredReadable
    DeadDirsRemoved
CHECK_DEADLOCK FALSE
