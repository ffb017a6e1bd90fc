\* One command at a time; a burn-in is completed again after the approval.
SPECIFICATION MCSpec
CONSTANTS
    c1 = c1
    c2 = c2
    k1 = k1
    k2 = k2
    o1 = o1
    o2 = o2
    Operator = {o1}
    Challenger = {c1}
    Champion = Champion
    Cycle = {k1, k2}
    Run = {r1}
    None = None
    MinCycles = 2
    MaxDeployments = 5
PROPERTY BurnInIdempotent
CHECK_DEADLOCK FALSE
