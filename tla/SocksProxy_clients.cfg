CONSTANTS
  a = a
  b = b
  Clients <- Both
  Talks <- All
  Length <- Lengths
  Leaving = {a, b}
  PipeUnits = 1
  Failures = TRUE
SPECIFICATION Spec
INVARIANTS SocksTypeOK WholeResponse
PROPERTIES ClientsReleased
CHECK_DEADLOCK FALSE
