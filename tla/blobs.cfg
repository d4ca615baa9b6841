SPECIFICATION MCSpec
CONSTANTS
    None = None
    f1 = f1
    f2 = f2
    Devices = {d1, d2}
    Docs = {x1, x2}
    Files = {f1, f2}
    Size <- MCSize
    Quota = 4
    MaxEdits = 2
    MaxEvents = 1
    MaxFaults = 1
INVARIANT FilesSafe
PROPERTY StoredArrives
CHECK_DEADLOCK FALSE
