SPECIFICATION FairSpec
CONSTANTS
    Target = {t1, t2}
    Board = {b1, b2, b3}
    Nobody = Nobody
    NoBoard = NoBoard
    Mode = "flashProgramAndBoot"
    Saved = {b1, b2}
    ProgramOnReset = FALSE
    BootCheck = FALSE
    NetworkCheck = FALSE
    StartRetriesMax = 3
    ProgAttempts = 3
    BootAttemptsMax = 1
    NtkRetriesMax = 1
    SpawnFails = TRUE
    MaxResets = 0
INVARIANTS
    NeverSelfLocks
    StartsAfterPowerCycle
PROPERTIES
    AllComeUp
