SPECIFICATION Spec
CONSTANTS
    Metric = {m1, m2}
    NoName = NoName
    Timestamp <- MCTimestamp
    DayOf <- MCTwoDays
    MaxActiveDays = 2
    PageMaxRecords = 2
    MaxMetrics = 2
    Configs <- MCProtected
    MaxCalls = 3
    MaxCrashes = 1
    MaxFaults = 0
INVARIANTS
    AlwaysOpens
