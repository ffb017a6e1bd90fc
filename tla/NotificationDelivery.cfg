\* Two cycles and launch smokes drain together; no claim outlasts its lease.
SPECIFICATION FairSpec
CONSTANTS
    w1 = w1
    w2 = w2
    r1 = r1
    r2 = r2
    e1 = e1
    e2 = e2
    Worker = {w1, w2}
    Event = {e1, e2}
    Run = {r1, r2}
    RunOf <- TwoCycles
    None = None
    MaxAttempts = 2
    LeaseTerm = 1
    RetryTerm = 1
    Capacity = 1
    MaxCrashes = 1
    Overrun = FALSE
INVARIANTS OneInFlight AuditTellsStatus
PROPERTIES SettledIsSilent EventSettles
CHECK_DEADLOCK FALSE
