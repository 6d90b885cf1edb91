SPECIFICATION Spec
CONSTANTS
    RetryMax = 1
    Blocks = 2
    SeqCapacity = 2
    FallbackCapacity = 2
    DataQueueLen = 2
    TextPieces = 4
    MaxRecords = 3
    TrackCapacity = 2
    SettleLen = 2
    MountTries = 2
    RecvPieces = 2
    HttpQueueLen = 2
    ProtoIds <- MCProtoIds
    External <- MCExternal
    Scenarios <- MCScenarios
INVARIANTS
    SupplyRecorded
    BootRecorded
    ExecutedOnce
    AckedConfirmed
    SessionBound
    OneOutcome
    OwnProtocol
PROPERTIES
    OtaCommandEnds
    Answered
CHECK_DEADLOCK FALSE
