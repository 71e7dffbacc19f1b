CONSTANTS
    Request = {r1, r2}
    Email = {e1}
    Worker = {w1}
    Granted = 1
    None = None
    MaxBuys = 1
    Faults = {"crash", "ack"}
SPECIFICATION FairSpec
INVARIANTS PaidOnce NotOverspent PendingIsServed
PROPERTY PendingEnds
CHECK_DEADLOCK FALSE
