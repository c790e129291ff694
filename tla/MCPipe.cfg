SPECIFICATION PipeFairSpec
CONSTANTS
    MaxProcessCount = 4
    MaxClock = 0
    SemR = "SemR"
    SemW = "SemW"
    Sems <- MCSems
    InitValue <- MCInitValue
    BufferSize = 2
    MaxSize = 3
    MaxBytes = 6
    Reader = 1
INVARIANTS RingHoldsUnread NobodyInDeletedPipe
PROPERTY WriteReturns
