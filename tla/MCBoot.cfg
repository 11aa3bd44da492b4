CONSTANTS
    HEADS = 2
    SECTORS = 2
    CYLINDERS = 16
    RETRIES = 3
    LBA_WIDTH = 64
    SECTOR_SIZE = 2
    ENTRIES = 2
    FAT_CACHE_SIZE = 2
    MAX_FILE_HANDLES = 2
    MAX_REGIONS = 3
    MEMORY_LOAD_SIZE = 5
    COUNT_WIDTH = 5
    MEMORY = 8
    FAT12_CLUSTERS = 10
    END = 400
    Old = Old
    Junk = Junk
    Zero = Zero
    Unset = Unset
    Machines <- MCMachines
    Eoc <- MCEoc
SPECIFICATION BootSpec
CONSTRAINT Bounded
INVARIANTS
    HandedOver
    NeverLost
PROPERTIES
    BootEnds
CHECK_DEADLOCK FALSE
