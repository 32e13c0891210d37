SPECIFICATION CallsSpec
CONSTANTS
    NTargets = 3
    PipeTheUart = TRUE
INVARIANTS
    CallsInv
