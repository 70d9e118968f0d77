CONSTANTS
  app = app
  waiter = waiter
  feeder = feeder
  Apps <- Two
  Reader = app
  Feeder = feeder
  Message <- Chunked
  Operations <- Apart
  ReadSizes <- AllSizes
  Capacity = 2
  LinkCloses = TRUE
SPECIFICATION FairSpec
PROPERTIES ReadsToTheEnd LinkEndReleases
CHECK_DEADLOCK FALSE
