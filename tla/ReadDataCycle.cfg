CONSTANTS
    SQ = 2
    TQ = 2
    TypeOfSensor <- MCTypeOfSensor
    Readings <- MCReadings
    TimeRange = 4
    CntRange = 2
SPECIFICATION FairSpec
INVARIANTS
    TypeOK
    RingHoldsRecentCycles
    ModelHasLastMeasure
    ChangeIsAnnounced
    ActiveMeansStable
PROPERTIES
    TickIsServed
