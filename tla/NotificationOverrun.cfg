\* Two processes of one cycle outlast their leases.
SPECIFICATION Spec
CONSTANTS
    w1 = w1
    w2 = w2
    r1 = r1
    r2 = r2
    e1 = e1
    e2 = e2
    Worker = {w1, w2}
    Event = {e1}
    Run = {r1, r2}
    RunOf <- OneCycle
    None = None
    MaxAttempts = 3
    LeaseTerm = 1
    RetryTerm = 1
    Capacity = 2
    MaxCrashes = 1
    Overrun = TRUE
INVARIANTS AuditIsTrue BacklogClaimable
CHECK_DEADLOCK FALSE
