CONSTANTS
    Callers = {c1, c2}
    Pids = {p1, p2}
    Handles = {h1, h2}
    Scripts = {x1}
    Services = {v1}
    None = None
    SerialObtain = TRUE
SPECIFICATION MCSpec
INVARIANTS
    ScriptsDieWithTheirSession
    HostServesItsSessions
PROPERTIES
    ImplementsRegistry
    EveryCallReturns
    HostIsReleased
CHECK_DEADLOCK FALSE
