SPECIFICATION Spec
CONSTANTS
    Player = player
    NPCs = {n1, n2}
    None = none
    SafetyRounds = 2
    MaxMsgs = 3
    MaxChanges = 1
    MaxFails = 0
    MaxCrashes = 0
    NpcsMayLeave = TRUE
CHECK_DEADLOCK FALSE
SYMMETRY Symmetry
INVARIANTS
    TypeOK
    SpeechMatchesSegment
    RoundsDoNotOverlap
PROPERTY NothingSaidWhileClosing
