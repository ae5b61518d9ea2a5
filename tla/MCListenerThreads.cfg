\* The startup refresh beside one command or another refresh, and a crash.
SPECIFICATION Spec
CONSTANTS
    main = main
    t1 = t1
    t2 = t2
    nobody = nobody
    torn = torn
    nofile = nofile
    Word <- Words
    Torn = torn
    NoFile = nofile
    Nobody = nobody
    Main = main
    Task <- OneTask
    Startup = t1
    Slot <- Slots
    Request <- Requests
    Earlier <- OnePort
    Config <- Configs
    DefaultConfig = "here"
    MaxCalls = 1
    MaxCrashes = 1
INVARIANTS
    EntriesApply
    LoadedAsSaved
    NothingForgotten
    Stoppable
    ServesSettings
PROPERTIES
    ProbesUndisturbed
    CommandsReturn
CHECK_DEADLOCK FALSE
