SPECIFICATION FairSpec
CONSTANTS
    Null = Null
    NoTypo = Null
    KNOWN_PROVIDER_DOMAINS <- MCKnown
    STATIC_TYPO_MAP <- MCStatic
    NEVER_CORRECT <- MCNever
    TLD_TYPO_MAP <- MCTld
    MIN_LENGTH_FOR_DISTANCE_MATCH = 3
    MIN_LENGTH_FOR_TWO_EDITS = 4
    MaxHosts = 2
    MaxDials = 3
    DomainName <- MCDomain
    ProbedDomain <- MCProbed
CHECK_DEADLOCK FALSE
INVARIANTS  ValidWasAccepted TypoIsClosest
PROPERTIES Answers
