SPECIFICATION Spec
CONSTANTS
  BatchSize = 2
  QueueCapacity = 2
  MaxDocs = 2
INVARIANTS
  ClosedIsFlushed
CHECK_DEADLOCK FALSE
