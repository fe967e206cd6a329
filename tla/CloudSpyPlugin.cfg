CONSTANTS
    Callbacks = {k1, k2}
    None = None
    Instances = {i1, i2}
    Caller = i1
    Listeners = {i1}
    MaxEvents = 1
SPECIFICATION PluginFairSpec
INVARIANTS
    CalledOnceForItsOutcome
    NothingFreedInUse
PROPERTIES
    EveryWaitEnds
    SettledPromiseIsServed
CHECK_DEADLOCK FALSE
