CONSTANTS
    None = None
    Sessions = {s1, s2, s3, s4}
    Requests = {r1}
    Submissions = {m}
    Digests = {d}
    SESSION_MS = 2
    RATE_WINDOW_MS = 2
    RATE_LIMIT = 2
    LEASE_MS = 2
    DEADLINE_MS = 1
    CALL_MS = 1
    MaxTime = 2
SPECIFICATION SameSessionSpec
INVARIANT SignInsAreLimited
PROPERTY EveryRequestAnswered
CHECK_DEADLOCK FALSE
