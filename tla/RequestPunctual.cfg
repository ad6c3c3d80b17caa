CONSTANTS
    Buses = {huart5}
    Killable = {}
    Sensors = {s1, s2, s3}
    LateInterrupts = FALSE
    LateReplies = FALSE
    None = None
    Garbled = Garbled
SPECIFICATION FairSpec
INVARIANTS
    RepliesAreOurs
    AnswerIsOurs
PROPERTIES
    ImplementsTransaction
