CONSTANTS
    None = None
    Instances = {p1, p2}
    Sessions = {s1}
    Requests = {r1, r2}
    Submissions = {m}
    Digests = {d, e}
    Impatient = {r1, r2}
    MaxLosses = 0
SPECIFICATION Spec
INVARIANT SingleProcess
CHECK_DEADLOCK FALSE
