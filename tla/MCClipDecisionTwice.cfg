SPECIFICATION MCSpecInWaits
CONSTANTS
  Names = {c1, c2}
  Broadcasters = {c1, c2}
  BroadcasterOf <- MCOwn
  ClipCooldown = 2
  AckWait = 2
  WallSteps <- MCNoSteps
  MaxClock = 5
  MaxWindows = 2
  None = None
INVARIANTS
  OneClipPerWindow
CHECK_DEADLOCK FALSE
