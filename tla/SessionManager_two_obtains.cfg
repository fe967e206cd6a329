CONSTANTS
    Callers = {c1, c2}
    Pids = {p1, p2}
    Handles = {h1, h2}
    Scripts = {x1, x2}
    Services = {v1, v2}
    None = None
    SerialObtain = FALSE
SPECIFICATION MCCoreSpec
INVARIANT NoReleaseAssertionFails
CHECK_DEADLOCK FALSE
