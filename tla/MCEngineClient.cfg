CONSTANTS
    Call = {c1, c2, c3}
    FailureThreshold = 2
    MaxAttempts = 3
SPECIFICATION FairSpec
INVARIANTS OneProbe
PROPERTIES Recovers Trips
