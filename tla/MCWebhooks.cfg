SPECIFICATION FairSpec
CONSTANTS
    Batch = {b1}
    Endpoint = {e1}
    Worker = {w1, w2}
    Address <- MCAddress
    MaxAttempts = 3
    MaxStalls = 1
    None = None
    Faults = {"queue", "db", "crash", "stall"}
INVARIANTS  HonestLog AttemptsBounded
PROPERTIES PendingEnds AtLeastOnceHolds
CHECK_DEADLOCK FALSE
