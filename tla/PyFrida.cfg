CONSTANTS
    Threads = {t1, t2}
    Loop = loop
    Natives = {n1}
    Addresses = {w1, w2}
    Callbacks = {f1}
    Null = Null
    MaxVariables = 2
    MaxHung = 2
SPECIFICATION BindingSpec
INVARIANTS
    WrappersAreTheirNatives
PROPERTIES
    NobodyWaitsForEver
CHECK_DEADLOCK FALSE
