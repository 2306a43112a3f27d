CONSTANTS
    None = None
    Sessions = {s1, s2, s3, s4}
    Requests = {r1}
    Submissions = {m}
    Digests = {d}
    SESSION_MS = 3
    RATE_WINDOW_MS = 2
    RATE_LIMIT = 2
    LEASE_MS = 2
    DEADLINE_MS = 1
    CALL_MS = 1
    MaxTime = 3
SPECIFICATION Spec
SYMMETRY Symmetry
INVARIANT OneSignInBudgetPerMinute
CHECK_DEADLOCK FALSE
