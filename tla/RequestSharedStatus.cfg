CONSTANTS
    Buses = {huart5, huart4}
    Killable = {}
    Sensors = {s1}
    LateInterrupts = FALSE
    LateReplies = FALSE
    None = None
    Garbled = Garbled
SPECIFICATION Spec
INVARIANTS
    TimeoutIsReported
