SPECIFICATION Spec
CONSTANTS
    Idents = {a, b}
    NoRecord = {}
    PendingMax = 1
    QueueLen = 1
    RoundsMax = 1
    MaxToken = 2
    MaxSample = 2
    MaxTrigger = 2
    MaxRestart = 1
INVARIANTS
    PacketsAccounted
    OneIntentPerIdentity
    EvidenceRetained
    
PROPERTIES
    EndsOnlyWhenComplete
CHECK_DEADLOCK FALSE
