SPECIFICATION Spec
CONSTANTS
    SPC = 2
    EPS = 2
    LastCluster = 6
    ShortNames <- MCShortNames
    Old <- MCOld
    OldSize = 4
    Paths <- MCPaths
    MaxSize = 5
    MaxWrite = 2
    Payloads = 1
    Marked = {2}
    Careful = TRUE
    Dir = dir
    None = none
VIEW WithoutCall
INVARIANTS ChainsApart NodesMatchDisk ListingMatchesLookup
PROPERTIES ImplementsFileStore
CHECK_DEADLOCK FALSE
