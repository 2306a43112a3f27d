CONSTANTS
    None = None
    OkStatuses = {ok}
    RefusedStatuses = {refused}
SPECIFICATION PathFairSpec
INVARIANTS
    PathTypeOK
    DiagnosticIsFinal
    DiagnosticNamesTheCause
    NothingHeldAfterAnswer
    CapabilityIsEarned
    PageHoldsNothing
PROPERTIES
    PolicyAskedWhileOpen
    AnswerIsFinal
    ServedAsDecided
    KeepsPromise
    PageKeepsPromise
CHECK_DEADLOCK FALSE
