SPECIFICATION Spec
CONSTANTS
    Cells = {c1, c2, c3}
    NULL = NULL
    FILL = FILL
    Values = {1, 2}
    FailLimit = 2
INVARIANT SizeAndTail
CHECK_DEADLOCK FALSE
