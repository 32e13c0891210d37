SPECIFICATION SessionFairSpec
CONSTANTS
    NTargets = 1
    MaxCmds = 3
INVARIANTS
    SessionInv
    ReturnsAlone
PROPERTIES
    ExitEndsSession
