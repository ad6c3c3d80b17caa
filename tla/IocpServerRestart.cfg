CONSTANTS
    Clients = {"first", "second", "third"}
    ThreadCount = 1
    MAX_BUFF_SIZE = 1
    MaxBytes <- MCMaxBytes
    MaxEvents = 1
    MaxBreaks = 1
    EnterMayFail = FALSE
SPECIFICATION MCFairSpec
PROPERTIES
    DepartedIsFreed
    ListedIsFreed
    CleanupEnds
    EventEndsRun
CHECK_DEADLOCK FALSE
