\* The latch journal, with and without flash errors, and the CAN inbox.
SPECIFICATION BoardSpec
CONSTANTS
    Scenes = {"store", "errors", "inbox"}
    Bits = {1, 2}
    kPersistedSet = {1}
    kRecords = 3
    DualBank = TRUE
    EraseTears = FALSE
    FlashFails = FALSE
PROPERTIES
    ImplementsRegister
    SaveTakes
    InboxIsQueue
    BoardDelivers
