SPECIFICATION McSpec
CONSTANTS
    Heads <- McHeads
    Tails <- McTails
    StrayHead <- McStrayHead
    StrayTail <- McStrayTail
    RearLights = TRUE
    SilenceLimit = 2
    MaxRecords = 2
    Speeds = {0, 45, 120}
    Travel = 1100
    MaxX = 1
INVARIANTS
    ClusterInv
    SpeedometerInv
PROPERTIES
    SilenceHeals
    NeedleSettles
CHECK_DEADLOCK FALSE
