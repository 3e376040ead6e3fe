SPECIFICATION FairSpec
CONSTANTS
    c1 = c1
    c2 = c2
    c3 = c3
    Callers = {c1, c2, c3}
    NoCaller = NoCaller
INVARIANTS
    TypeOK
    HolderConsistent
PROPERTIES
    ClientNotTakenAway
    LockReleased
    ImplementsSlot
