CONSTANTS
    Conns = {k1, k2, k3}
    MaxScripts = 2
    PageCalls = {c1}
    Locals = {l1}
    Tethers = {t1}
    Processes = {p1}
    MaxAgents = 2
    MaxPageScripts = 2
SPECIFICATION MCSpec
INVARIANTS
    QuitLeavesNothingBehind
    NobodyIsCutOff
    TrackedScriptsRun
PROPERTIES
    EngineGoesWithItsLastPeer
    AgentLeaves
    DestroyEnds
CHECK_DEADLOCK FALSE
