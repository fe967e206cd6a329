CONSTANTS
    ServerQueries = 2
    ClientQueries = 0
    ServerNotifies = 2
    ClientNotifies = 0
    ServerChanges = 0
    ClientChanges = 1
    Verbs = {"sync", "async"}
    Handlers <- MCHandlers
SPECIFICATION ProxyFairSpec
INVARIANTS
    MessagesAreServedOnce
PROPERTIES
    ImplementsAtMostOnceCall
    NothingSentIsLost
CHECK_DEADLOCK FALSE
