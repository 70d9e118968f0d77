CONSTANTS
  Lengths = {0, 1, 3}
  MaxUnits = 4
  Block = 2
SPECIFICATION Spec
INVARIANTS EndIsSent
CHECK_DEADLOCK FALSE
