CONSTANTS
  Lengths = {0, 3}
  MaxUnits = 2
  Block = 2
  MaxLinks = 2
  MaxRequests = 1
  Unreliable = TRUE
SPECIFICATION FairClientSpec
INVARIANTS ArrivesWhole NeverEarly ClientTypeOK NoStrayLink LinkIsUsable
PROPERTIES FirstAnswered ServerThreadsEnd
CHECK_DEADLOCK FALSE
