SPECIFICATION FairSpec
CONSTANTS
    SECTORS = 2
    WORDS = 2
    MaxCount = 2
    POLLS = 2
INVARIANTS
    DriverSound
PROPERTIES
    IsTransfer
    CallsReturn
