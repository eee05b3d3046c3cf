SPECIFICATION Spec
CONSTANTS
    Hosts = {hA, hB}
    ServerIds = {d1, d2}
    AgentIds = {}
    Addrs = {a1}
    Handlers = {r1}
    None = None
    WarnAfter = 0
    ReclaimAfter = 0
    OfflineAfter = 1
    DbFails = FALSE
    MaxAge = 2
PROPERTY HeartbeatKeepsStatusCurrent
