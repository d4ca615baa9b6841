CONSTANTS
    Devices = {1, 2}
    r1 = r1
    r2 = r2
    Rows = {r1}
    NameOf <- OwnName
    MaxTime = 2
    MaxOps = 3
    Absent = Absent
    Purgeable = {}
    PageSize = 1
    RejectRepeats = TRUE
    MaxFaults = 1
    FaultSteps = {"pull", "load", "send"}
    NoEdit = NoEdit
SPECIFICATION FairSpec
PROPERTIES EveryEditPushed EveryEditPulled
CHECK_DEADLOCK FALSE
