CONSTANTS
    Devices = {1, 2}
    r1 = r1
    r2 = r2
    Rows = {r1, r2}
    NameOf <- OwnName
    MaxTime = 2
    MaxOps = 3
    Absent = Absent
    Purgeable = {r1, r2}
    PageSize = 1
    RejectRepeats = TRUE
    MaxFaults = 1
    FaultSteps = {"pull", "apply", "load", "send", "mark"}
    NoEdit = NoEdit
SYMMETRY RowSymmetry
SPECIFICATION Spec
INVARIANTS CursorCovers SyncedIsStored UncontestedRowsConverge
PROPERTY ImplementsHouseholdLog
CHECK_DEADLOCK FALSE
