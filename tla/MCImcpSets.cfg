\* One client and the master, with Sets and Pings in both directions.
SPECIFICATION Spec
CONSTANTS
    m = m
    c1 = c1
    c2 = c2
    None = None
    Master = m
    Client <- OneClient
    Node <- AllNodes
    Id <- Ids
    Body <- Bodies
    LastAddress = 2
    QueueCap = 2
    RxCap = 2
    MaxRetries = 1
    MaxRestarts = 0
    MaxSets = 2
INVARIANTS
    LossNeedsRepeat
PROPERTIES
    SetsInOrder
CHECK_DEADLOCK FALSE
