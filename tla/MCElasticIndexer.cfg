SPECIFICATION FairSpec
CONSTANTS
  BatchSize = 2
  QueueCapacity = 2
  MaxDocs = 2
INVARIANTS
  Accounted
  PostedOnce
PROPERTIES
  IndexerIsDocumentLog
  QueuedIsPosted
CHECK_DEADLOCK FALSE
