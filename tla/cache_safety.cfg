SPECIFICATION Spec
CONSTANTS
    w1 = w1
    w2 = w2
    f = f
    g = g
    Writers <- MCWriters
    Readers = {r1}
    Files = {f, g}
    Policies <- MCPolicies
    Kinds = {"update", "remove", "clear"}
    Bucket <- MCBucket
    NBuckets = 2
    MaxEntries = 1
    NEntries = 3
SYMMETRY Symmetry
CHECK_DEADLOCK FALSE
INVARIANTS
    BucketsExact
    LruExact
    SafeIfSerial
PROPERTY EvictionSound
