SPECIFICATION McSpec
CONSTANTS
    Client = {"c1", "c2", "c3"}
    NameOf <- McNameOf
    HSTATIC_MAX_CLIENTS = 2
    MaxRequests = 6
    MaxConnects = 3
    MaxSignals = 1
INVARIANTS
    ServerInv
    UpdatesAreWhole
PROPERTIES
    Answered
CHECK_DEADLOCK FALSE
