SPECIFICATION FairSpec
CONSTANTS
  Names = {c1, c2}
  Broadcasters = {c1, c2}
  BroadcasterOf <- MCOwn
  ClipCooldown = 2
  AckWait = 2
  WallSteps <- MCWallSteps
  MaxClock = 3
  MaxWindows = 2
  None = None
INVARIANTS
  AttemptsSpaced
  RefusedAfterAttempt
  AckedWereDecided
  DecidedOnce
PROPERTIES
  StatusNeverGoesBack
  WindowsDelivered
  WindowAcked
CHECK_DEADLOCK FALSE
