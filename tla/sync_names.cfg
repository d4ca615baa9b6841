CONSTANTS
    Devices = {1, 2}
    r1 = r1
    r2 = r2
    Rows = {r1, r2}
    NameOf <- OneName
    MaxTime = 2
    MaxOps = 2
    Absent = Absent
    Purgeable = {}
    PageSize = 1
    RejectRepeats = TRUE
    MaxFaults = 0
    FaultSteps = {}
    NoEdit = NoEdit
SPECIFICATION FairSpec
PROPERTY EveryEditPulled
CHECK_DEADLOCK FALSE
