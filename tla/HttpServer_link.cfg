CONSTANTS
  handler = handler
  feeder = feeder
  Apps <- Threads1
  Reader = handler
  Feeder = feeder
  Message <- Post
  Operations <- Calls
  ReadSizes <- Sizes
  Capacity = 3
  LinkCloses = TRUE
  Outcomes = {"none", "bad_params", "function", "generator"}
  SendFails = TRUE
  ResponseLength = 2
  PipeCapacity = 1
SPECIFICATION FairServerSpec
CHECK_DEADLOCK FALSE
INVARIANTS ServerTypeOK AnswersWhenClosed OneAnswer NoFalseRefusal FunctionsSeeTheRequest
PROPERTIES Answered TransportFreed
