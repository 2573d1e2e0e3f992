SPECIFICATION Spec
CONSTANTS
    Timestamp <- MCTimestamp
    MaxDelta = 2
    MaxSegment = 2
    Policies <- BothPolicies
    MaxAppends = 3
    MaxStops = 2
    MaxFaults = 2
INVARIANTS
    TypeOK
    ReadBackAsWritten
    AckedInFile
    LossIsBounded
    NothingUnaccounted
