SPECIFICATION SchedSpec
CONSTANTS
    MaxPages = 7
    PageSize = 4
    KernelStart = 24
    KernelEnd = 28
    E820Maps <- MCMaps
    MaxTasks = 4
    BootStack = 5
INVARIANTS
    TasksSound
PROPERTIES
    DeadForGood
    RoundRobin
    UsesPmmWell
