SPECIFICATION Spec
CONSTANTS
    Processes = {A}
    Frames = 14
    FirstPage = 1
    Bin = 1
    MapHint = 3
    MapEnd = 6
    Stack = 6
    Kernel = 7
    Callers = {A}
    MaxLen = 2
    MaxRegions = 6
    MaxPages = 4
    Careful = FALSE
    None = none
INVARIANT RegionsDisjoint
CHECK_DEADLOCK FALSE
