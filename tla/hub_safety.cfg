SPECIFICATION Spec
CONSTANTS
    c1 = c1
    u1 = u1
    Clients = {c1, c2}
    Users = {u1}
    UserOf <- OneIdentified
    Publishers = {p1}
    None = None
    QueueSize = 1
    BufferSize = 2
    MaxMessages = 3
INVARIANTS
    NoChannelPanic
    HubConsistent
    DeliveryExact
CHECK_DEADLOCK FALSE
