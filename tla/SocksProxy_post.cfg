CONSTANTS
  a = a
  b = b
  Clients <- Both
  Talks <- Posts
  Length <- Lengths
  Leaving = {}
  PipeUnits = 2
  Failures = FALSE
SPECIFICATION Spec
PROPERTIES LoopGoesOn
CHECK_DEADLOCK FALSE
