SPECIFICATION McSpec
CONSTANTS
    Inputs <- McInputs
    Lengths = {9, 14, 15}
    IIC_RESET_ERROR_THRESHOLD = 2
    QuietLimit = 2
    MaxMoves = 1
    MaxFaults = 1
    MaxMessages = 2
INVARIANTS
    EcuInv
PROPERTIES
    NotificationHeld
    BusRecovers
    Settles
CHECK_DEADLOCK FALSE
