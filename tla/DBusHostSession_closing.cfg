CONSTANTS
    AgentConns = {a1, a2}
    ServerConns = {}
    MaxAttempts = 2
    ObtainsWhileClosing = TRUE
SPECIFICATION Spec
INVARIANT EntryIsFound
CHECK_DEADLOCK FALSE
