CONSTANTS
    None = None
    Conformance = {c}
    Safety = {s, t}
    c = c
    s = s
    t = t
    MaxCalls <- MCCalls
    MaxReads <- MCReads
SPECIFICATION FairSpec
INVARIANTS
    TypeOK
    EvidenceIsWhole
PROPERTIES
    NextWindowIsClean
    CloseEnds
CHECK_DEADLOCK FALSE
