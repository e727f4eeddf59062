SPECIFICATION Spec
CONSTANTS
    timeout_limit = 2
    test_ranges <- Ranges
    random_vals <- Randoms
    Sessions <- GraderSessions
    slow_seconds = 2
    loop_sets = {{}, {"thirdBits", "isTmin"}, {"conditional", "float_f2i"}}
    OtherShapes <- ByHand
CHECK_DEADLOCK FALSE
INVARIANTS
    MeetsReference
    
    TransposesAndScores
