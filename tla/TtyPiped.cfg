SPECIFICATION FairSpec
CONSTANTS
    PipeTheUart = TRUE
    MaxCmds = 3
INVARIANTS
    HandedOverOnce
    DrivesAlone
    PipingInv
PROPERTIES
    JobsFinish
