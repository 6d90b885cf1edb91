SPECIFICATION Spec
CONSTANTS
    PNs = {p1, p2}
    NoPN = none
    EarlyCommands = TRUE
    MaxFail = 0
    MaxRestart = 1
INVARIANT RunningExcludesReady
SYMMETRY Scans
