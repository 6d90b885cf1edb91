SPECIFICATION Spec
CONSTANTS
    PNs = {p1, p2, p3}
    NoPN = none
    EarlyCommands = FALSE
    MaxFail = 2
    MaxRestart = 2
INVARIANTS
    SessionKeepsItsPn
    RecordedRoundRecoverable
    AckedPnInNvs
    EndedRoundStaysEnded
SYMMETRY Scans
