SPECIFICATION FairSpec
CONSTANTS
    Steppers = {w1}
    Convs = {c1}
    LastDay = 2
    Limit = 2
    None = none
    MaxStep = 2
    MaxFails = 0
    MaxCrashes = 1
CHECK_DEADLOCK FALSE
PROPERTY DeferralEnds
