CONSTANTS
    Pids = {p1, p2}
    None = None
    MaxInjections = 2
    ReadsFail = TRUE
SPECIFICATION FairSpec
INVARIANTS
    EachInstanceIsTended
    AgentKeepsItsMemory
    LibraryLastsAsNeeded
PROPERTIES
    EveryEndIsNoticed
CHECK_DEADLOCK FALSE
