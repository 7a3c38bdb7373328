SPECIFICATION Spec
CONSTANTS
    k1 = k1
    k2 = k2
    shardEnv = shardEnv
    auditEnv = auditEnv
    Missing = Missing
    None = None
    Keks = {k1, k2}
    Files = {shardEnv, auditEnv}
    Mine = shardEnv
    Configs <- MCConfigs
    Keys = {x, y}
    Vals = {v}
    x = x
    y = y
    v = v
    DiskFaults = {"error", "lost"}
    MaxRecords = 3
    MaxWasted = 1
    MaxStarts = 3
INVARIANTS    DoneMeansRewrapped
PROPERTY DekKept
SYMMETRY Symmetry
CHECK_DEADLOCK FALSE
