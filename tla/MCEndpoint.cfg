\* Two panels join, leave and join again, and the listener is restarted or a
\* probe comes between; the button of one of them is in use.
SPECIFICATION Spec
CONSTANTS
    p1 = p1
    p2 = p2
    i1 = i1
    i2 = i2
    None = None
    Node <- TwoPanels
    Id <- TwoIds
    Body <- Bodies
    ImcpHub <- NoHub
    Assigned <- TwoPanels
    LastAddress = 3
    QueueCap = 2
    RxCap = 1
    PortCap = 1
    MaxOpenings = 2
    MaxPresses <- OnePress
INVARIANTS
    UniqueAddress
    HelloArrives
    EventsAttributed
    PushesNeedPresses
    NoPanelStops
SYMMETRY IdSymmetry
CHECK_DEADLOCK FALSE
