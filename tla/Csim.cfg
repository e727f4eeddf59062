SPECIFICATION BothSpec
CONSTANTS
    NumSets = 2
    BlockSize = 2
    E = 2
    Addrs = {0, 1, 4, 8, 12, 2, 6}
    IntMax = 6
INVARIANTS
    TypeOK
    LinesDistinct
    MissesAccountForLines
    Inclusion
PROPERTIES
    ImplementsLru
CHECK_DEADLOCK FALSE
