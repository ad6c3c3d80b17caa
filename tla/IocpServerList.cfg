CONSTANTS
    Clients = {"second", "third"}
    ThreadCount = 2
    MAX_BUFF_SIZE = 1
    MaxBytes <- MCMaxBytes
    MaxEvents = 0
    MaxBreaks = 0
    EnterMayFail = FALSE
SPECIFICATION Spec
INVARIANTS
    CleanupReachesAll
CHECK_DEADLOCK FALSE
