CONSTANTS
    Batch = {b1}
    Worker = {w1}
    NoBatch = NoBatch
    MaxRows = 1
    Granted = 1
    MaxStalls = 1
    Faults = {}
SPECIFICATION Spec
PROPERTY RemovalRefunds
CHECK_DEADLOCK FALSE
