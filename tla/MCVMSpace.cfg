SPECIFICATION Spec
CONSTANTS
    Processes = {A, B}
    Frames = 14
    FirstPage = 1
    Bin = 1
    MapHint = 3
    MapEnd = 6
    Stack = 6
    Kernel = 7
    Callers = {A}
    MaxLen = 2
    MaxRegions = 5
    MaxPages = 4
    Careful = TRUE
    None = none
INVARIANTS RegionsDisjoint CacheTellsTheList FramesAccounted SpaceOutlivesItsUsers
PROPERTIES ForkCopies
CHECK_DEADLOCK FALSE
