SPECIFICATION FairSpec
CONSTANTS
    Hosts = {hA}
    ServerIds = {d1}
    AgentIds = {g1}
    Addrs = {a1}
    Handlers = {r1}
    None = None
    WarnAfter = 0
    ReclaimAfter = 0
    OfflineAfter = 1
    DbFails = TRUE
    MaxAge = 2
INVARIANT TypeOK
PROPERTIES
    DevicesNeverVanish
    SilentBecomesOffline
