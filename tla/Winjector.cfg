CONSTANTS
    Injections = {i1, i2}
    Helpers = {h1, h2, h3}
    None = None
SPECIFICATION FairSpec
INVARIANTS
    InjectedOnce
PROPERTIES
    CloseStopsHelpers
    CallsReturn
CHECK_DEADLOCK FALSE
