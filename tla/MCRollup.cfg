SPECIFICATION Spec
CONSTANTS
    Metric = {m1, m2}
    Timestamp <- MCTimestamp
    DayOf <- MCDayOf
    Interval = 2
    Aggregates = 2
    MaxActiveDays = 1
    PageMaxRecords = 2
    DestPageMaxRecords = 3
    Cutoffs <- MCCutoffs
    Settings <- MCSettings
SYMMETRY Metrics
INVARIANTS
    CheckpointCovered
    RowsExact
    RowsOnce
CHECK_DEADLOCK FALSE
