SPECIFICATION Spec
CONSTANTS
    Descriptors = {0, 1, 2, 3, 4, 5}
    ErrLimit = 2
    SourceLines = 1
    Lines = 3
    Reps = {1, 2}
    BigQueue = 1
    FailLimit = 2
    MaxCuts = 1
INVARIANTS
    TypeOK
    Protected
    BlocksCounted
    CleanExit
    TimeLimitsFail
PROPERTY
    Terminates
CHECK_DEADLOCK FALSE
