SPECIFICATION Spec
CONSTANTS
    MaxPages = 7
    PageSize = 4
    KernelStart = 12
    KernelEnd = 18
    E820Maps <- MCMaps
INVARIANTS
    TypeOK
    FreeCount
    Exclusive
    PagesAccounted
    FreeWithinTotal
