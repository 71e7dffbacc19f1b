CONSTANTS
    Request = {r1, r2}
    Email = {e1}
    Worker = {w1}
    Granted = 1
    None = None
    MaxBuys = 0
    Faults = {}
SPECIFICATION FairSpec
INVARIANT CompleteIsKept
CHECK_DEADLOCK FALSE
