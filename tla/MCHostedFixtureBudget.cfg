CONSTANTS
    None = None
    Sessions = {s1}
    Requests = {r1, r2}
    Submissions = {m}
    Digests = {d}
    SESSION_MS = 3
    RATE_WINDOW_MS = 2
    RATE_LIMIT = 1
    LEASE_MS = 2
    DEADLINE_MS = 1
    CALL_MS = 1
    MaxTime = 3
SPECIFICATION Spec
INVARIANT OneBudgetPerMinute
CHECK_DEADLOCK FALSE
