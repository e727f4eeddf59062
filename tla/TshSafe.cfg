SPECIFICATION Spec
CONSTANTS
    Pids = {p1, p2}
    NoPid = NoPid
    ErrPid = ErrPid
    MAXJOBS = 2
    MaskOutcomes <- MasksWithSigchld
    MaxJid = 3
    MaxKeys = 2
SYMMETRY Symmetry
INVARIANTS
    TypeOK
    ForegroundIsAwaited
    AtMostOneForeground
    ListMatchesKernel
    
    
PROPERTIES
    BackgroundIsSpared
    JobTransitions
