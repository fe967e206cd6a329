CONSTANTS
    Queries = {q1, q2}
    Targets = {t1, t2}
    Targets64 = {t2}
    MaxWaits = 1
    Injections = {i1, i2, i3}
SPECIFICATION MCSpec
INVARIANTS
    NothingLeftBehind
    OneAgentPerTarget
    NothingLeftByFailure
    StoppedOnlyByFailure
PROPERTIES
    QueriesEnd
    EndsAreCleanedUp
CHECK_DEADLOCK FALSE
