CONSTANTS
  Lengths = {0, 3}
  MaxUnits = 2
  Block = 2
  MaxLinks = 1
  MaxRequests = 2
  Unreliable = FALSE
SPECIFICATION FairClientSpec
PROPERTIES EveryRequestAnswered
CHECK_DEADLOCK FALSE
