SPECIFICATION Spec
CONSTANTS
    Steps <- StandThenWork
    Cycles = 1
    Modes = {"single"}
    Limit = 1
    MaxSession = 2
    MaxRound = 2
    MaxRestart = 1
INVARIANT NoStepSkipped
CHECK_DEADLOCK FALSE
