SPECIFICATION TableSpec
CONSTANTS
    PER_SECTOR = 2
    FAT_CACHE_SIZE = 2
    total_clusters = 7
    FREE = 0
    EOC = 9
    Value = {0, 9}
    Nowhere = Nowhere
    Errors = FALSE
INVARIANTS
    TableTypeOK
    Coherent
PROPERTIES
    BehindUntouched
    IsMap
