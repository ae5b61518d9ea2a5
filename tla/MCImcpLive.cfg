\* Two clients join over a fair-lossy bus.
SPECIFICATION FairSpec
CONSTANTS
    m = m
    c1 = c1
    c2 = c2
    None = None
    Master = m
    Client <- TwoClients
    Node <- AllNodes
    Id <- Ids
    Body <- Bodies
    LastAddress = 3
    QueueCap = 2
    RxCap = 1
    MaxRetries = 1
    MaxRestarts = 0
    MaxSets = 0

PROPERTIES
    JoinCompletes
CHECK_DEADLOCK FALSE
