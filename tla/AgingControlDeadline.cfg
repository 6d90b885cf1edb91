SPECIFICATION Spec
CONSTANTS
    Steps <- StandTwice
    Cycles = 1
    Modes = {"single"}
    Limit = 1
    MaxSession = 2
    MaxRound = 1
    MaxRestart = 1
INVARIANT StandingOwnDeadline
CHECK_DEADLOCK FALSE
