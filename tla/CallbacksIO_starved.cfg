CONSTANTS
  app = app
  waiter = waiter
  feeder = feeder
  Apps <- Two
  Reader = app
  Feeder = feeder
  Message <- Post
  Operations <- ApartOnRequest
  ReadSizes <- AllSizes
  Capacity = 4
  LinkCloses = FALSE
SPECIFICATION FairSpec
PROPERTIES AppsReturn
CHECK_DEADLOCK FALSE
