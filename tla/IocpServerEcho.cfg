CONSTANTS
    Clients = {"talker", "second"}
    ThreadCount = 2
    MAX_BUFF_SIZE = 2
    MaxBytes <- MCMaxBytes
    MaxEvents = 0
    MaxBreaks = 0
    EnterMayFail = TRUE
SPECIFICATION Spec
INVARIANTS
    OneOwner
    HeldContextIsLive
    NoFreeUnderway
    EchoIsFaithful
PROPERTIES
    ImplementsEcho
CHECK_DEADLOCK FALSE
