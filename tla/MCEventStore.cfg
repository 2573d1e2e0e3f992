SPECIFICATION Spec
CONSTANTS
    EventName = {n1, n2}
    NoName = NoName
    ValueType = {none, int32}
    Timestamp <- MCTimestamp
    PartOf <- MCPartOf
    PageMaxRecords = 2
    MaxEvents = 2
    QueryFrom = {2}
    Limits <- MCLimits
SYMMETRY Names
INVARIANTS
    EveryAckedEventKept
    EventsKeepTheirName
    AlwaysReplays
    QueryIsExact
PROPERTIES
    LogSpec
