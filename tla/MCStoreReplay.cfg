SPECIFICATION Spec
CONSTANTS
    Metric = {m1}
    NoName = NoName
    Timestamp <- MCTimestamp
    DayOf <- MCTwoDays
    MaxActiveDays = 1
    PageMaxRecords = 2
    MaxMetrics = 1
    Configs <- MCProtected
    MaxCalls = 3
    MaxCrashes = 2
    MaxFaults = 2
INVARIANTS
    RecoveryIsLossless
