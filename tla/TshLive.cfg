SPECIFICATION FairSpec
CONSTANTS
    Pids = {p1, p2}
    NoPid = NoPid
    ErrPid = ErrPid
    MAXJOBS = 2
    MaskOutcomes <- MasksWithSigchld
    MaxJid = 2
    MaxKeys = 1
PROPERTIES
    WaitEnds
    ZombiesAreReaped
