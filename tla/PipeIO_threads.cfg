CONSTANTS
  Capacity = 2
  WriteSizes <- MCWriteSizes
  ReadSizes <- MCReadSizes
  MaxBytes = 3
  GIL = TRUE
SPECIFICATION ConsumedSpec
INVARIANTS TypeOK IInv InOrder NoLostWakeup EndIsComplete
PROPERTIES StreamSpec WritesFinish DataArrives EndArrives CloseReleasesReader
