\* A process dies while a stage executes; resume-run recovers its lease.
SPECIFICATION FairSpec
CONSTANTS
    w1 = w1
    w2 = w2
    Worker = {w1, w2}
    None = None
    StageCount = 2
    Required <- AllRequired
    FinancialStage = 1
    ResearchStage = 2
    Symbol = {y1}
    MaxAttempts = 2
    LeaseTerm = 1
    MaxCrashes = 1
    Overrun = FALSE
    CrashMidStage = TRUE

PROPERTIES RunSettles
CHECK_DEADLOCK FALSE
