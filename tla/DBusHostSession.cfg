CONSTANTS
    AgentConns = {a1, a2}
    ServerConns = {s1}
    MaxAttempts = 2
    ObtainsWhileClosing = FALSE
SPECIFICATION FairSpec
INVARIANTS
    EntriesAreTheConnections
PROPERTIES
    EachEndIsAnnounced
    EveryCallEnds
CHECK_DEADLOCK FALSE
