SPECIFICATION Spec
CONSTANTS
    Player = player
    NPCs = {n1, n2}
    None = none
    SafetyRounds = 2
    MaxMsgs = 3
    MaxChanges = 0
    MaxFails = 1
    MaxCrashes = 1
    NpcsMayLeave = FALSE
CHECK_DEADLOCK FALSE
SYMMETRY Symmetry
INVARIANTS
    OneSpeechPerRound
    NoStaleSpeech
