CONSTANTS
    None = None
    Sessions = {s1}
    Requests = {r1, r2, r3}
    Submissions = {m}
    Digests = {d, e}
    SESSION_MS = 3
    RATE_WINDOW_MS = 2
    RATE_LIMIT = 1
    LEASE_MS = 2
    DEADLINE_MS = 1
    CALL_MS = 1
    MaxTime = 3
SPECIFICATION Spec
SYMMETRY Symmetry
INVARIANTS
    TypeOK
    OneExchangePerSession
    ExchangeIsBound
    TwoBudgetsAtMost
PROPERTIES
    BindsOnce
    LeaseIsNotStolen
CHECK_DEADLOCK FALSE
