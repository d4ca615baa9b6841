CONSTANTS
    Devices = {1, 2}
    r1 = r1
    r2 = r2
    Rows = {r1}
    NameOf <- OwnName
    MaxTime = 2
    MaxOps = 2
    Absent = Absent
    Purgeable = {}
    PageSize = 1
    RejectRepeats = TRUE
    MaxFaults = 1
    FaultSteps = {"mark"}
    NoEdit = NoEdit
SPECIFICATION FairSpec
PROPERTY EveryEditPushed
CHECK_DEADLOCK FALSE
