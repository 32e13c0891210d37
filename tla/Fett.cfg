SPECIFICATION McSpec
CONSTANTS
    Clients = {"c1", "c2"}
    Files = {"page", "stop", "large", "forged"}
    Blocks <- McBlocks
    EndsEmpty = {"forged"}
    BufferBlocks = 3
    ipconfigTFTP_MAX_RETRIES = 3
    MaxTries = 1
    MaxFaults = 2
    Browsers = {"b1", "b2"}
    Stop = {"stop"}
    Updates = {"page"}
    Pieces = 2
    MaxFiles = 2
    MaxGets = 3
INVARIANTS
    ServersInv
PROPERTIES
    WholeOrNothing
    AckedIsKept
    TransferEnds
    StopEnds
CHECK_DEADLOCK FALSE
