CONSTANTS
    c1 = c1
    c2 = c2
    k1 = k1
    k2 = k2
    k3 = k3
    Loops = {c1, c2}
    Wheel = Wheel
    Keys = {k1, k2, k3}
    KeyLen = 1
    Writes <- MCWrites
    Overhead = 1
    MaxBytes = 2
    Modulus = 64
    Interval = 1
    NumSlots = 2
    SlotCapacity = 1
    NoExpiry = NoExpiry
SPECIFICATION FairSpec
INVARIANTS AccountsBalance OvershootBounded
PROPERTIES LiveKept RegisteredEvicted
