CONSTANTS
    Devices = {d1, d2}
    Providers = {p1, p2}
    None = None
    MaxAttempts = 3
    MaxReports = 2
SPECIFICATION FairSpec
INVARIANTS
    AnnouncedWhileKnown
    MapFollowsPlugs
PROPERTIES
    StartReturns
    EverythingSettles
CHECK_DEADLOCK FALSE
