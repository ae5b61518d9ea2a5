\* Six bytes come in while two frames are written, with one error.
SPECIFICATION Spec
CONSTANTS
    RingCap = 3
    Chunk = 2
    RxCap = 4
    QueueCap = 2
    IdleSamples = 2
    Baud = 1152
    TxBuffer = 96
    Length <- Lengths
    MaxArrivals = 6
    MaxFrames = 2
    MaxErrors = 1
INVARIANTS
    DriverReleased
    HeldUntilSent
    NoBacklog
    SpeaksInQuiet
PROPERTIES
    WorksOrHangs
CHECK_DEADLOCK FALSE
