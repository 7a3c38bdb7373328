CONSTANTS
    c1 = c1
    c2 = c2
    k1 = k1
    k2 = k2
    v1 = v1
    v2 = v2
    Clients = {c1}
    Keys = {k1}
    Values = {v1, v2}
    Size <- MCSize
    TTLs = {0, 1}
    MaxBytes = 0
    DiskFaults = FALSE
    MaxLog = 2
    MaxTime = 2
    MaxCrashes = 1
    None = None
    NoSnapshot = NoSnapshot
    Unknown = Unknown
CHECK_DEADLOCK FALSE
SPECIFICATION Spec
INVARIANTS LastWriteWins
