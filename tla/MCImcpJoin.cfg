\* Two clients join, are power-cycled and join again; no application traffic.
SPECIFICATION Spec
CONSTANTS
    m = m
    c1 = c1
    c2 = c2
    None = None
    Master = m
    Client <- TwoClients
    Node <- AllNodes
    Id <- Ids
    Body <- Bodies
    LastAddress = 3
    QueueCap = 2
    RxCap = 1
    MaxRetries = 1
    MaxRestarts = 1
    MaxSets = 0
SYMMETRY ClientSymmetry
INVARIANTS
    ImcpInv
    AssignmentHasFrame
    UniqueUnlessForgotten
    AddressWasGranted
    JoiningAsks
    DuplicateUnheard
PROPERTIES
    PoolSpec
CHECK_DEADLOCK FALSE
