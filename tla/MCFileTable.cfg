SPECIFICATION Spec
CONSTANTS
    Processes = {A, B}
    MaxHandles = 5
    Direct = 3
    MaxFD = 3
    StdIO = stdIO
    TempNodes = {temp}
    PipeNodes = {pipe}
    VfsNodes = {mounted}
    Careful = TRUE
    Null = null
INVARIANTS CountsExact NodeLivesWhileNamed ListAndArrayAgree
PROPERTIES ImplementsDescriptors
SYMMETRY MCSymmetry
