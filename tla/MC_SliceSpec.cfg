SPECIFICATION SliceSpecSpec
CONSTANTS
    Gone = Gone
    NoMesh = NoMesh
    Files <- FileSet
    Asks <- AskSet
    MaxInline = 4
    PeekCap = 2
INVARIANTS
    SpecTypeOK
    
    InlineWithinLimit
    
CHECK_DEADLOCK FALSE
