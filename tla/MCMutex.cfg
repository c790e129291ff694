SPECIFICATION FairSpec
CONSTANTS
    MaxProcessCount = 4
    MaxClock = 3
    Sems <- MutexSems
    InitValue <- MutexInit
    Clients = {1, 2, 3}
    Interruptible = {1, 2}
    Timeouts = {1, 2}
INVARIANTS
    IInv
    MutualExclusion
    NoLostWakeup
PROPERTIES
    ImplementsFifoLock
    LockGranted
