SPECIFICATION FairSpec
CONSTANTS
    Steppers = {w1}
    Convs = {c1, c2}
    LastDay = 2
    Limit = 2
    None = none
    MaxStep = 2
    MaxFails = 1
    MaxCrashes = 1
CHECK_DEADLOCK FALSE
INVARIANT DeferredIsOwned
PROPERTIES
    ChapterResolves
    EveryDayIsAnnounced
