\* The annual facts carry the fiscal quarter that the exchange's adapter gives them.
SPECIFICATION SeriesSpec
CONSTANTS
    Book <- Editions
    Calendar <- Season
    ScopePriority <- Scopes2
    AnnualQuarter = 4
    MarketCap <- Caps
    WindowSize = 3
    Threshold = 10
    LastDay = 9
INVARIANT FourthQuarterDerived
CHECK_DEADLOCK FALSE
