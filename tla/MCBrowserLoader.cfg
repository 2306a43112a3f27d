CONSTANTS
    None = None
    Loads = {l1, l2, l3}
    Applications = {a}
    Submissions = {s}
    MaxAsks = 2
SPECIFICATION FairSpec
INVARIANTS
    TypeOK
    LiveLoadIsActive
    OptInAsksOnce
PROPERTIES
    SettledLoadIsFinal
    TokenOnlyThroughActiveLoad
    EveryLoadSettles
CHECK_DEADLOCK FALSE
