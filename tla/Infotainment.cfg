SPECIFICATION FairSpec
CONSTANTS
    Server = {s1, s2}
    Dim = {"CAR_X"}
    ButtonIds = {"STATION_3", "VOLUME_UP", "VOLUME_DOWN"}
    Pos = {0, 1}
    MAX_VOLUME = 2
    DEFAULT_VOLUME = 1
    MaxSent = 3
    MaxInbox = 2
    MaxInterrupts = 1
INVARIANTS
    RelayInv
    QuietMeansAgreement
PROPERTIES
    StopEnds
CHECK_DEADLOCK FALSE
