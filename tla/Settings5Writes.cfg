CONSTANTS
    Addresses = {1, 2}
    BAUD_RATE_NUMBER = 2
    Chosen <- MCChosen
    RetryRange = 5
SPECIFICATION FairSpec
INVARIANTS
    TypeOK
    DisplayIsCurrent
    AgreeBetweenWrites
PROPERTIES
    SuccessIsKnown
    RequestEnds
