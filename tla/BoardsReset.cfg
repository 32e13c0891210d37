SPECIFICATION FairSpec
CONSTANTS
    Target = {t1, t2}
    Board = {b1, b2}
    Nobody = Nobody
    NoBoard = NoBoard
    Mode = "nonPersistent"
    Saved = {b1}
    ProgramOnReset = TRUE
    BootCheck = TRUE
    NetworkCheck = TRUE
    StartRetriesMax = 1
    ProgAttempts = 1
    BootAttemptsMax = 2
    NtkRetriesMax = 2
    SpawnFails = TRUE
    MaxResets = 1
INVARIANTS
    OwnBoardOwnUart
    LockProtects
PROPERTIES
    AllComeUp
