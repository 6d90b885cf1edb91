SPECIFICATION FairSpec
CONSTANTS
    Idents = {a}
    NoRecord = {}
    PendingMax = 1
    QueueLen = 1
    RoundsMax = 1
    MaxToken = 5
    MaxSample = 2
    MaxTrigger = 2
    MaxRestart = 0
INVARIANTS
    SlotAvailable
PROPERTIES
    BackfillSettles
CHECK_DEADLOCK FALSE
