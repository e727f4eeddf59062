SPECIFICATION Spec
CONSTANTS
    MAX_HEAP = 120
    CHUNKSIZE = 32
    Ids = {1, 2, 3}
    Sizes = {4, 12, 24}
INVARIANT ExhaustionIsReported
CHECK_DEADLOCK FALSE
