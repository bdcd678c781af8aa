SPECIFICATION Spec
CONSTANTS
    Player = player
    NPCs = {n1, n2}
    None = none
    SafetyRounds = 2
    MaxMsgs = 3
    MaxChanges = 0
    MaxFails = 0
    MaxCrashes = 0
    NpcsMayLeave = FALSE
CHECK_DEADLOCK FALSE
INVARIANT NoMessageLostToIdle
