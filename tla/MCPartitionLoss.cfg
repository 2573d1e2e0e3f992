SPECIFICATION Spec
CONSTANTS
    Day = {1, 2, 3}
    MaxActiveDays = 2
    PageMaxRecords = 2
    RetentionDays = 1
    Settings <- MCRename
INVARIANTS
    NothingLost
