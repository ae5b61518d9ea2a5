\* The start of the manager and one command, with two datagrams, or one and a
\* second without any, in a debug build.
SPECIFICATION Spec
CONSTANTS
    OverflowChecks = TRUE
    Config <- Configs
    DefaultConfig = "here"
    Sent <- Updates
    MaxCommands = 1
    MaxPackets = 2
    MaxInFlight = 1
INVARIANTS
    StatusTruthful
    MemoryHoldsWrites
    PanicsAtTheEdge
    UiShowsStatus
PROPERTY
    ButtonsComeBack
CHECK_DEADLOCK FALSE
