\* The kernel stops after a fault.
SPECIFICATION Spec
CONSTANTS
    MaxProcessCount = 4
    MaxPermits = 2
    Waiters <- AllButBoot
INVARIANT
    NeverFreesCurrent
CHECK_DEADLOCK FALSE
