SPECIFICATION RecordsSpec
CONSTANTS
    Sections = {p1, p2}
    Sockets = {s1}
    MaxEvents = 3
    MaxSilent = 1
    MaxRaised = 0
    MaxDrops = 1
    MaxCrashes = 1
    MaxHttp = 1
    Workers = {w1, w2}
    Waiters = {r1}
    Tasks = {t1, t2}
    Commands = {a, b}
    Slow = {b}
    NoRun = norun
    MaxEffects = 2
    MaxFaults = 2
    Triggers = {m1}
    NoTrigger = none
    MaxConcurrency = 1
    MaxInvocations = 2
    Talks = {k1}
    MaxGoals = 1
    MaxMemories = 1
    MaxSaid = 1
    MaxLoads = 1
    MaxMoves = 1
    Statuses = {"achieved"}
CHECK_DEADLOCK FALSE
SYMMETRY RecordsSymmetry
INVARIANTS
    RecordsTypeOK
    ViewIsFaithful
    StoredOnce
    RecalledOnce
    RequestsAccounted
PROPERTIES
    NothingOverwritten
    OnlyKnownRefusals
    AnswersAndVectorsSurvive
