CONSTANTS
    Addresses = {1, 2}
    BAUD_RATE_NUMBER = 2
    Chosen <- MCChosen
    RetryRange = 5
SPECIFICATION Spec
PROPERTIES
    BusIsReadyToWrite
