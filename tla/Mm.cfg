SPECIFICATION Spec
CONSTANTS
    MAX_HEAP = 120
    CHUNKSIZE = 32
    Ids = {1, 2, 3}
    Sizes = {4, 12, 24}
INVARIANTS
    TypeOK
    TagsTile
    FreeListExact
    NothingLost
    
PROPERTIES
    ImplementsAllocator
CHECK_DEADLOCK FALSE
