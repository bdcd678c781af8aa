SPECIFICATION FairSpec
CONSTANTS
    Sections = {p1, p2}
    Sockets = {s1}
    MaxEvents = 3
    MaxSilent = 1
    MaxRaised = 0
    MaxDrops = 0
    MaxCrashes = 0
CHECK_DEADLOCK FALSE
PROPERTY PublishedEventArrives
