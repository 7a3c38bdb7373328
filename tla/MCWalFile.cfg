CONSTANTS
    k1 = k1
    v1 = v1
    v2 = v2
    Keys = {k1}
    Vals = {v1, v2}
    KeyLen <- MCKeyLen
    ValLen <- MCValLen
    HeaderLen = 3
    MagicLen = 2
    DirtyFaults = FALSE
    MaxCells = 9
    MaxCrashes = 3
    None = None
    Garbage = Garbage
CHECK_DEADLOCK FALSE
SPECIFICATION Spec
INVARIANTS AckedRecovered NothingInvented RefusalLosesNothing
PROPERTIES IsRecordLog
