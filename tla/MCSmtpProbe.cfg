CONSTANTS
    Job = {j1, j2, j3}
    None = None
    WindowLimit = 2
    Window = 3
    LeaseTtl = 2
    LeaseRetry = 1
    MinRetry = 1
    VerifyMax = 3
    Threshold = 2
    OpenFor = 2
    MaxSkew = 1
    MaxCrashes = 1
SPECIFICATION FairSpec
INVARIANTS HostWindow HoldsLease
PROPERTY EveryJobEnds
CHECK_DEADLOCK FALSE
