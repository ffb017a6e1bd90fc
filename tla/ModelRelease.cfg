\* Two commands at a time over two challengers.
SPECIFICATION MCSpec
CONSTANTS
    c1 = c1
    c2 = c2
    k1 = k1
    k2 = k2
    o1 = o1
    o2 = o2
    Operator = {o1, o2}
    Challenger = {c1, c2}
    Champion = Champion
    Cycle = {k1, k2}
    Run = {r1}
    None = None
    MinCycles = 1
    MaxDeployments = 4
SYMMETRY ReleaseSymmetry
INVARIANTS ActivationEarned OneReleasePerRun BurnInStandsAlone
PROPERTY KeepsPromise
CHECK_DEADLOCK FALSE
