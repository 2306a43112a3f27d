CONSTANTS
    None = None
    Instances = {p1, p2}
    Sessions = {s1}
    Requests = {r1, r2}
    Submissions = {m}
    Digests = {d, e}
    Impatient = {s1}
    MaxLosses = 2
SPECIFICATION FairSpec
INVARIANTS
    TypeOK
    SingleProcess
    InsertedSurvives
PROPERTIES
    BindsOnce
    EveryAuthorizationDecided
    StoppingEnds
CHECK_DEADLOCK FALSE
