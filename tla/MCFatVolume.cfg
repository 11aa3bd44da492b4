CONSTANTS
    LastCluster = 4
    RootDirCluster = 2
    FREE = 0
    EOC = 99
    SLOTS = 3
    EXISTING = 3
    Never = Never
    Erased = Erased
    Missing = Missing
    Stale = Stale
    Dot = Dot
    DotDot = DotDot
    Blank = Blank
    f = f
    d = d
    a = a
    b = b
    Text <- MCText
    Paths <- MCPaths
SPECIFICATION Spec
CONSTRAINT Sound
INVARIANTS
    EntriesSound
    NoCrossLink
    Accounted
    ReadBack
PROPERTIES
    OthersUntouched
CHECK_DEADLOCK FALSE
