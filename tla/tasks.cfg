\* The tasks against the supervisor and the watchdog.
SPECIFICATION BoardSpec
CONSTANTS
    Scenes = {"stall", "watchdog"}
    Bits = {1, 2}
    kPersistedSet = {1}
    kRecords = 3
    DualBank = TRUE
    EraseTears = FALSE
    FlashFails = FALSE
INVARIANTS
    TasksBounded
