CONSTANTS
    c1 = c1
    c2 = c2
    k1 = k1
    k2 = k2
    v1 = v1
    v2 = v2
    Clients = {c1, c2}
    Keys = {k1}
    Values = {v1, v2}
    Size <- MCUnitSize
    TTLs = {0, 1}
    MaxBytes = 0
    DiskFaults = TRUE
    MaxLog = 2
    MaxTime = 2
    MaxCrashes = 2
    None = None
    NoSnapshot = NoSnapshot
    Unknown = Unknown
CHECK_DEADLOCK FALSE
SPECIFICATION Spec
SYMMETRY Symmetry
INVARIANTS  AckedDurable VisibleIsLogged Recoverable
 
