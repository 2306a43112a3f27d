CONSTANTS
    None = None
    Loads = {l1, l2}
    Applications = {a, b}
    Submissions = {s}
    MaxAsks = 1
SPECIFICATION Spec
INVARIANT CapturesOnlyItsOwnApi
CHECK_DEADLOCK FALSE
