SPECIFICATION Spec
CONSTANTS
    Sections = {p1, p2}
    Sockets = {s1, s2}
    MaxEvents = 3
    MaxSilent = 1
    MaxRaised = 1
    MaxDrops = 1
    MaxCrashes = 1
SYMMETRY Symmetry
CHECK_DEADLOCK FALSE
INVARIANTS
    TypeOK
    NothingSlipsThrough
PROPERTIES
    ToldOneByOne
    FeedSpec
