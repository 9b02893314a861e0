SPECIFICATION FairSpec
CONSTANTS
  Channels = {c1, c2}
  BatchInterval = 2
  MaxSkew = 1
  Offsets <- MCOffsets
  ClockSteps <- MCClockSteps
  MaxClock = 4
  MaxMsgs = 2
  None = None
  LowerOf <- MCLowerOf
INVARIANTS
  Conservation
  WindowsInOrder
  HypeWordsRecognised
  WindowFeaturesRight
PROPERTIES
  WindowsCollect
  MessageFlushed
CHECK_DEADLOCK FALSE
