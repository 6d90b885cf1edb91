SPECIFICATION Spec
CONSTANTS
    ProbeOk = 1
    ProbeFail = 2
    DisconnectMax = 2
    Scenarios <- MCScenarios
    SoftResetMax = 1
    HealMax = 2
    FailThreshold = 2
    TrialMax = 2
INVARIANTS
    AppliedRoute
    PausedStaysAway
PROPERTIES
    RouteSettles
    RestartPromise
    LostChildActs
    TrialEnds
CHECK_DEADLOCK FALSE
