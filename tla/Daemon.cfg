SPECIFICATION SpecParts
CONSTANTS
    Threads = {t1, t2, t3, t4}
    CorePoolSize = 2
    MaxTasks = 5
    MaxFailures = 1
    Requests <- MCRequests
    InitOrder <- MCInitOrder
    MaxDaemons = 2
    Typed <- MCTyped
    Printed <- MCPrinted
    TTY_MAX = 2
    COPY_MAX = 2
    Sizes = {0, 1, 2}
INVARIANTS CountersExact EachTaskOnce UnattendedOnlyIfCoreBusy 
PROPERTIES PickedUp EveryClientComesBack ReturnsAfterExit
