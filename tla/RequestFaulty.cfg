CONSTANTS
    Buses = {huart4}
    Killable = {huart4}
    Sensors = {s1, s2}
    LateInterrupts = TRUE
    LateReplies = TRUE
    None = None
    Garbled = Garbled
SPECIFICATION FairSpec
INVARIANTS
    TypeOK
    DriverReleased
    InStep
    QuiescentBetweenRequests
    SuccessMeansReception
    SilenceResynchronises
PROPERTIES
    EveryRequestReturns
