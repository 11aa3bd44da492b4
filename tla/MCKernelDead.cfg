SPECIFICATION Spec
CONSTANTS
    MaxPages = 10
    PageSize = 4
    KernelStart = 36
    KernelEnd = 40
    E820Maps <- MCMaps
    MaxTasks = 6
    BootStack = 8
    DemoPages = 2
    StopTicks = 2
    SleepTicks <- MCSleep
PROPERTY
    DeadTerminated
