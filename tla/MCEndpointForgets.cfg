\* The listener restarts while a panel is up.
SPECIFICATION Spec
CONSTANTS
    p1 = p1
    p2 = p2
    i1 = i1
    i2 = i2
    None = None
    Node <- OnePanel
    Id <- TwoIds
    Body <- Bodies
    ImcpHub <- NoHub
    Assigned <- OnePanel
    LastAddress = 2
    QueueCap = 2
    RxCap = 1
    PortCap = 1
    MaxOpenings = 2
    MaxPresses <- OnePress
INVARIANTS
    EventsReachMapping
CHECK_DEADLOCK FALSE
