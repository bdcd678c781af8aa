SPECIFICATION ServedSpec
CONSTANTS
    Player = player
    NPCs = {n1}
    None = none
    SafetyRounds = 2
    MaxMsgs = 2
    MaxChanges = 0
    MaxFails = 2
    MaxCrashes = 1
    NpcsMayLeave = TRUE
CHECK_DEADLOCK FALSE
INVARIANTS
    NoOrphanedRound
PROPERTIES
    RoundsSettle
