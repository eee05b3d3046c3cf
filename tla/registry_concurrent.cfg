SPECIFICATION Spec
CONSTANTS
    Hosts = {hA, hB}
    ServerIds = {d1, d2}
    AgentIds = {}
    Addrs = {a1}
    Handlers = {r1, r2}
    None = None
    WarnAfter = 0
    ReclaimAfter = 0
    OfflineAfter = 0
    DbFails = FALSE
    MaxAge = 1
SYMMETRY Symmetry
INVARIANT RegistryIsDurable
PROPERTY NoNewDuplicates
