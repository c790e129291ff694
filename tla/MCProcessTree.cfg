\* The kernel stops after a fault.
SPECIFICATION FairSpec
CONSTANTS
    MaxProcessCount = 4
    MaxPermits = 2
    Waiters <- AllButBoot
INVARIANTS
    TreeConsistent
    NoLostExit
PROPERTIES
    WaitedForStays
    AutoDestroyed
    WaitReturns
CHECK_DEADLOCK FALSE
