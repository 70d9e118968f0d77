CONSTANTS
  app = app
  waiter = waiter
  feeder = feeder
  Apps <- Two
  Reader = app
  Feeder = feeder
  Message <- Post
  Operations <- Mixed
  ReadSizes <- AllSizes
  Capacity = 2
  LinkCloses = TRUE
SPECIFICATION SealedSpec
INVARIANTS TypeOK BodyInOrder EndIsComplete SizeAgrees WholeUntilClosed
PROPERTY MessageIsStream
CHECK_DEADLOCK FALSE
