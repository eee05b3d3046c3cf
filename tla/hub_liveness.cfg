SPECIFICATION FairSpec
CONSTANTS
    c1 = c1
    u1 = u1
    Clients = {c1}
    Users = {u1}
    UserOf <- OneIdentified
    Publishers = {p1, p2}
    None = None
    QueueSize = 1
    BufferSize = 1
    MaxMessages = 3
PROPERTIES
    ConnectionsReclaimed
    PublishersProgress
CHECK_DEADLOCK FALSE
