CONSTANTS
    Batch = {b1}
    Worker = {w1, w2}
    NoBatch = NoBatch
    MaxRows = 3
    Granted = 2
    MaxStalls = 1
    Faults = {"crash", "stall", "lost_reply", "storage"}
SPECIFICATION FairSpec
INVARIANTS SingleOwner DeletedBatchIsQuiet SettledExactly ResultDownloadable NoOrphans EventMatchesLedger
PROPERTIES RefinesLedger Settles
CHECK_DEADLOCK FALSE
