SPECIFICATION CarefulSpec
CONSTANTS
    Cells = {c1, c2, c3, c4}
    NULL = NULL
    FILL = FILL
    Values = {1, 2}
    FailLimit = 2
INVARIANTS
    TypeOK
    SizeAndTail
    NothingLeaks
    NoFalseAlarm
PROPERTIES
    ImplementsDeque
CHECK_DEADLOCK FALSE
