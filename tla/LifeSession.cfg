SPECIFICATION FairSpec
CONSTANTS
    LimitResend = 2
    LimitSsh = 2
    Interrupts = 2
INVARIANTS
    CallInv
    OrderlyEnd
PROPERTIES
    SessionEnds
