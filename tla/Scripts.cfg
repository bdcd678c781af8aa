SPECIFICATION ScriptsSpec
CONSTANTS
    Steppers = {w1, w2}
    Convs = {c1, c2, c3}
    LastDay = 2
    Limit = 2
    None = none
    MaxStep = 2
    MaxFails = 1
    MaxCrashes = 1
    Planned = 2
    MaxCallsPerRun = 1
    MaxTotalCalls = 1
    MaxRepeats = 1
    MaxLaunches = 3
    CaseFiles <- SmallCaseFiles
    Budgets <- SmallBudgets
    CandidateRepetitions = 2
    JudgeSampleRate <- EveryOther
    JudgeRepeatRate <- EveryOther
    ProviderRetries = 0
    CalibrationItems = 2
    ResumeCap = 2
    MaxResumes = 1
    MaxKills = 1
SYMMETRY ScriptsSymmetry
CHECK_DEADLOCK FALSE
INVARIANTS
    ScriptsTypeOK
    DaysEndInOrder
    SeedRunOnce
    BatchAccounts
    BudgetIsShared
    ReportIsHonest
