SPECIFICATION Spec
CONSTANTS
    Reader = {r1, r2}
    Settings <- MCSettings
    IndexSlots = 1
    TimeSlots = 2
    MaxTimes = 4
    Window = 2
    AggSets <- MCAggSets
SYMMETRY Readers
INVARIANTS
    ReadsExact
    StreamsAgree
    CompareAgrees
    BucketsExact
CHECK_DEADLOCK FALSE
