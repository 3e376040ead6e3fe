SPECIFICATION Spec
CONSTANTS
    a1 = a1
    b1 = b1
    A = A
    B = B
    Calls = {a1, b1}
    Servers = {A, B}
    ServerOf <- Who
    Paths <- MCPaths
    Chunks = 2
    Loads <- MCLoads
    NoPath = NoPath
    Blank = Blank
    Null = Null
    Unset = Unset
    Bad = Bad
    NoMesh = NoMesh
    Unreadable = Unreadable
    Foreign = Foreign
    NoTemplate = NoTemplate
    TextTemplate = TextTemplate
INVARIANTS
    RenderTypeOK
    SavesKept
    PrecedenceKept
    OracleTellsSource
    AnswerTellsTheFile
    DrawnAsAssessed
CHECK_DEADLOCK FALSE
