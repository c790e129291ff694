SPECIFICATION Spec
CONSTANTS
    Handles = {h1, h2}
    Bytes = {x, y}
    FragmentSize = 2
    BufferSize = 1
    MaxSize = 5
    MaxIO = 2
    Careful = TRUE
    Garbage = garbage
    Own = own
    None = none
INVARIANTS FragmentsTile
PROPERTIES ImplementsByteFile
SYMMETRY MCSymmetry
CHECK_DEADLOCK FALSE
