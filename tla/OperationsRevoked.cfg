\* A stage outlasts its lease and its process ends the lease of the next.
SPECIFICATION Spec
CONSTANTS
    w1 = w1
    w2 = w2
    Worker = {w1, w2}
    None = None
    StageCount = 2
    Required <- AllRequired
    FinancialStage = 1
    ResearchStage = 2
    Symbol = {y1}
    MaxAttempts = 2
    LeaseTerm = 1
    MaxCrashes = 1
    Overrun = TRUE
    CrashMidStage = FALSE

PROPERTIES LeaseNotRevoked
CHECK_DEADLOCK FALSE
