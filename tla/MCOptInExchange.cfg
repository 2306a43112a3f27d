CONSTANTS
    None = None
    SEAL_MS = 2
    ALLOWANCE_MS = 1
    INTENT_MS = 4
    BUGDROP_MAX_CAPABILITY_TTL_MS = 3
    BUGDROP_CAPABILITY_CLOCK_SKEW_MS = 2
    Offsets <- MCOffsets
    MaxTime = 5
SPECIFICATION FairSpec
INVARIANTS
    TypeOK
    GrantIsConfirmedInTime
    SealReleases
PROPERTIES
    HonestAnswerIsGranted
    SentIsAnswered
CHECK_DEADLOCK FALSE
