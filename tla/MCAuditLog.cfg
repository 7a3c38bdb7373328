SPECIFICATION Spec
CONSTANTS
    None = None
    k1 = k1
    k2 = k2
    l1 = l1
    l2 = l2
    Loops = {l1, l2}
    Configs <- MCConfigs
    Flags <- MCFlags
    Events = {"auth_failure", "auth_success", "acl_deny"}
    LogCap = 2
    MaxSize = 4
    MaxEvents = 3
    MaxStarts = 2
    MaxFaults = 1
INVARIANTS AclLogRecent TrailHasNoGaps
SYMMETRY Symmetry
CHECK_DEADLOCK FALSE
