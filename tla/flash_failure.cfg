SPECIFICATION Spec
CONSTANTS
  Bits = {1, 2}
  kPersistedSet = {1}
  kRecords = 3
  DualBank = TRUE
  EraseTears = FALSE
  FlashFails = TRUE
INVARIANT KeptAcrossPowerCycle
