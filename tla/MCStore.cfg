SPECIFICATION Spec
CONSTANTS
    Metric = {m1, m2}
    NoName = NoName
    Timestamp <- MCTimestamp
    DayOf <- MCTwoDays
    MaxActiveDays = 1
    PageMaxRecords = 2
    MaxMetrics = 2
    Configs <- MCEveryConfig
    MaxCalls = 3
    MaxCrashes = 2
    MaxFaults = 0
INVARIANTS
    TypeOK
    EveryAckedSampleOnce
    SamplesKeepTheirMetric
    OpenDaysBounded
PROPERTIES
    LogSpec
    SealedDaysFrozen
