SPECIFICATION Spec
CONSTANTS
    PNs = {p1, p2}
    NoPN = none
    EarlyCommands = FALSE
    MaxFail = 0
    MaxRestart = 1
INVARIANT StopCancelsReady
SYMMETRY Scans
