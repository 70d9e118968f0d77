CONSTANTS
  handler = handler
  feeder = feeder
  Apps <- Threads1
  Reader = handler
  Feeder = feeder
  Message <- Post
  Operations <- Calls
  ReadSizes <- Sizes
  Capacity = 3
  LinkCloses = FALSE
  Outcomes = {"generator"}
  SendFails = FALSE
  ResponseLength = 1
  PipeCapacity = 1
SPECIFICATION FairServerSpec
CHECK_DEADLOCK FALSE
INVARIANTS HandlersSeeTheBody
