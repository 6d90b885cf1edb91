SPECIFICATION FairSpec
CONSTANTS
    Steps <- StandThenWork
    Cycles = 1
    Modes = {"single", "group"}
    Limit = 2
    MaxSession = 2
    MaxRound = 1
    MaxRestart = 1
INVARIANTS
    SampleFromOneStep
    DeviceOutlivesUse
    WorkPrepared
    FaultWindow
    NoStepSkipped
PROPERTIES
    TeardownFinal
    JudgedByOwnReading
    StopCompletes
CHECK_DEADLOCK FALSE
