SPECIFICATION VFSSpec
CONSTANTS
    Inputs <- MCInputs
    Dirs <- MCDirs
    Mistaken <- MCMistaken
    MaxNodes = 10
    MaxHandles = 1
    Orderly = TRUE
    Null = null
INVARIANTS TreeLinked PathsLeadBack NodesMatchVolume FindsWhatIsMeant
CHECK_DEADLOCK FALSE
