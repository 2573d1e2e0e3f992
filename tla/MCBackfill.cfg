SPECIFICATION Spec
CONSTANTS
    Database = {1, 2, 3, 4}
    Base = {"m", "n"}
    MaxHops = 3
    Settings <- MCSettings
INVARIANTS
    PlanIsClosed
    DoneRowsExist
    RebuiltWhole
    LineageCoversRows
PROPERTIES
    StorageKept
CHECK_DEADLOCK FALSE
