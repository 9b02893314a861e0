SPECIFICATION FairSpec
CONSTANTS
  SQLiteBatch = 2
  ElasticBatch = 2
  QueueCapacity = 2
  MaxMsgs = 2
  MaxWindows = 1
INVARIANTS
  TypeOK
  StopLosesOne
  StopCountsDocuments
PROPERTIES
  MessageReachesStore
  StopEnds
CHECK_DEADLOCK FALSE
