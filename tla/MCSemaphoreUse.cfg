SPECIFICATION FairSpec
CONSTANTS
    S = S
    T = T
    MaxProcessCount = 4
    MaxClock = 2
    Sems <- TwoSems
    InitValue <- StartEmpty
    Clients = {1, 2, 3}
    Interruptible = {1, 2}
    Timeouts <- AnyTimeout
    SignalCounts = {0, 1, 2}
    MaxSignals = 2
    MaxGrants = 2
INVARIANTS
    PermitAccounting
    OneQueueEach
PROPERTIES
    GrantsInOrder
    TimedWaitEnds
