\* A hub joins, leaves and introduces itself again over a fair-lossy bus.
SPECIFICATION FairSpec
CONSTANTS
    p1 = p1
    p2 = p2
    i1 = i1
    i2 = i2
    None = None
    Node <- OnePanel
    Id <- TwoIds
    Body <- Bodies
    ImcpHub <- OnePanel
    Assigned <- OnePanel
    LastAddress = 2
    QueueCap = 3
    RxCap = 2
    PortCap = 2
    MaxOpenings = 2
    MaxPresses <- OnePress
INVARIANTS
    TypeOK
    AddressesAgree
PROPERTIES
    Introduced
CHECK_DEADLOCK FALSE
