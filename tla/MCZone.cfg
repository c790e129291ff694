SPECIFICATION Spec
CONSTANTS
    max_order = 4
    valid_page_num = 10
    Requests = {0, 1, 5}
INVARIANTS
    CountedPagesAreListed
    FreedMemoryMergesBack
PROPERTIES
    RequestServed
    ImplementsPageAllocator
