SPECIFICATION FairSpec
CONSTANTS
    Metric = {m1}
    NoName = NoName
    Timestamp <- MCTimestamp
    DayOf <- MCThreeDays
    MaxActiveDays = 2
    PageMaxRecords = 2
    MaxMetrics = 1
    Configs <- MCUnskipped
    MaxCalls = 3
    MaxCrashes = 1
    MaxFaults = 1
INVARIANTS
    EveryAckedSampleKept
    PagesBackedByWAL
PROPERTIES
    CallsReturn
