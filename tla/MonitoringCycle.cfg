\* Three cycles of one stream.
SPECIFICATION MonitoringSpec
CONSTANTS
    c1 = c1
    c2 = c2
    c3 = c3
    s1 = s1
    s2 = s2
    Cycle = {c1, c2, c3}
    Cutoff <- Days
    Stream <- OneStream
    Security = {s1, s2}
    Universe <- Symbols
    Evidence <- ThreeDays
    MaxAge = 1
    Null = Null
    Unfrozen = Unfrozen
    ByHand <- SecondSnapshot
    MaxFailures = 1
INVARIANTS BaselineIsClosedCycle OutboxIsTheChanges
PROPERTIES ComparedRunsStayFrozen NotifiedUnderBinding
CHECK_DEADLOCK FALSE
