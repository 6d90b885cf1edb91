SPECIFICATION Spec
CONSTANTS
    Scenarios <- MCScenarios
    Capacity = 3
    NormalLimit = 2
    DisconnectMax = 2
INVARIANTS RouteFresh
PROPERTIES RelaySpec EventsAfterOnline ClientInUse SwitchCompletes EventsArrive
CHECK_DEADLOCK FALSE
