SPECIFICATION MCSpec
CONSTANTS
    c1 = c1
    c2 = c2
    u1 = u1
    Users = {u1}
    Clients = {c1, c2}
    UserOf <- SameUser
    Slots = {1, 2}
    MaxEvents = 2
    QueueCap = 1
    NoEvent = NoEvent
    MaxId = 3
    MaxDrops = 2
    MaxLives = 2
INVARIANTS
    TypeOK
    NoChannelPanic
PROPERTIES
    DroppedForCause
    ImplementsFeed
CHECK_DEADLOCK FALSE
