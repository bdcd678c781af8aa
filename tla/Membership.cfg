SPECIFICATION TalksSpec
CONSTANTS
    Player = player
    NPCs = {n1, n2, n3}
    None = none
    MaxOpen = 2
    MaxDays = 2
    Allowances <- SmallAllowances
    Closers = {h1}
    Trigger = 2
    Recent = 1
    MaxMessages = 3
    MaxSaid = 4
    MaxSegments = 3
    MaxStops = 1
    Stays = {c1, c2}
    StayBounds <- SmallBounds
CHECK_DEADLOCK FALSE
SYMMETRY TalksSymmetry
INVARIANTS
    TalksTypeOK
    SummaryOwed
    LimitsKept
    CommittedOnce
    OwedIsOwned
PROPERTIES
    SecondPlaceOnlyByLateJoin
    SettledOnce
    SegmentLostOnlyByRestart
    NothingHidden
