SPECIFICATION InspectSpec
CONSTANTS
    s1 = s1
    s2 = s2
    Servers = {s1, s2}
    MaxRewrites = 2
    NoEntry = NoEntry
    Damaged = Damaged
    Missing = Missing
    NoKey = NoKey
    NoAnswer = NoAnswer
SYMMETRY ServerSymmetry
INVARIANTS
    InspectTypeOK
    
