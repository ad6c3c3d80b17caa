CONSTANTS
    DFR_SENSOR_NUM = 2
    None = None
    Crc = Crc
SPECIFICATION FairSpec
INVARIANTS
    TypeOK
    SlaveNeverDeaf
    TasksInStep
    FramesAreSound
PROPERTIES
    ValuesAreTheAskedSensors
    PollingGoesOn
