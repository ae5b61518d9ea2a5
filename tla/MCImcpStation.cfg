\* One client against arbitrary frames.
SPECIFICATION Spec
CONSTANTS
    s = s
    id1 = id1
    id2 = id2
    body1 = body1
    None = None
    Station = s
    Node <- TheNode
    Id <- TheIds
    Body <- TheBodies
    Traffic <- HubOrPeer
    LastAddress = 2
    QueueCap = 1
    RxCap = 1
CHECK_DEADLOCK FALSE
INVARIANTS
    SpeaksForItself
PROPERTIES
    IdentityKept
