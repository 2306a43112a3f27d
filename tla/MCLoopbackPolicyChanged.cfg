CONSTANTS
    None = None
    Instances = {p1, p2}
    Sessions = {s1}
    Requests = {r1, r2, r3}
    Submissions = {m}
    Digests = {d, e}
    Impatient = {}
    MaxLosses = 1
SPECIFICATION Spec
SYMMETRY Symmetry
INVARIANT OneContentPerSubmission
CHECK_DEADLOCK FALSE
