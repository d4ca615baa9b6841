CONSTANTS
    Devices = {1, 2}
    r1 = r1
    r2 = r2
    Rows = {r1}
    NameOf <- OwnName
    MaxTime = 2
    MaxOps = 3
    Absent = Absent
    Purgeable = {}
    PageSize = 1
    RejectRepeats = TRUE
    MaxFaults = 0
    FaultSteps = {}
    NoEdit = NoEdit
SPECIFICATION Spec
INVARIANT IdenticalData
CHECK_DEADLOCK FALSE
