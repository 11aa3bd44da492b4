SPECIFICATION FairSpec
CONSTANTS
    MAX_FILE_HANDLES = 2
    SECTOR_SIZE = 2
    SectorsPerCluster = 2
    CAT = 3
    EXISTING = 5
    RootDirCluster = 2
    EOC = 99
    Never = Never
    Erased = Erased
    Junk = Junk
    Errors = TRUE
    Unread = {0, 4, 99}
    nameF = nameF
    nameG = nameG
    nameD = nameD
    nameE = nameE
    nameX = nameX
    t1 = t1
    t2 = t2
    t3 = t3
    Dot = Dot
    DotDot = DotDot
    Texts = {t1, t2, t3}
    Volumes <- MCVolumes
    Args <- MCArgs
    MaxNames = 3
CONSTRAINT Bounded
INVARIANTS
    HandlesSound
    ReadsAll
PROPERTIES
    CdFindsDirectory
    CommandsEnd
CHECK_DEADLOCK FALSE
