SPECIFICATION Spec
CONSTANTS
  BatchSize = 3
  MaxMsgs = 5
  MaxBuf = 5
  MaxLives = 2
INVARIANTS
  Conservation
  FullBatchOnlyAfterFailure
PROPERTIES
  StoreIsChatLog
CHECK_DEADLOCK FALSE
