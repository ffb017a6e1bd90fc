\* No stage outlasts its lease; processes crash at any point.
SPECIFICATION Spec
CONSTANTS
    w1 = w1
    w2 = w2
    Worker = {w1, w2}
    None = None
    StageCount = 4
    Required <- OneOptional
    FinancialStage = 1
    ResearchStage = 3
    Symbol = {y1, y2}
    MaxAttempts = 2
    LeaseTerm = 2
    MaxCrashes = 2
    Overrun = FALSE
    CrashMidStage = TRUE
SYMMETRY ProcessSymmetry
INVARIANTS SingleDriver OutcomeTellsStages
PROPERTY KeepsContract
CHECK_DEADLOCK FALSE
