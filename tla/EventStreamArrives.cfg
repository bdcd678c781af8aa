SPECIFICATION FairSpec
CONSTANTS
    Sections = {p1, p2}
    Sockets = {s1}
    MaxEvents = 3
    MaxSilent = 0
    MaxRaised = 0
    MaxDrops = 1
    MaxCrashes = 1
CHECK_DEADLOCK FALSE
INVARIANT ToldIsDurable
PROPERTY EveryEventArrives
