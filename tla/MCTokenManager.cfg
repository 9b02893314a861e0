SPECIFICATION FairSpec
CONSTANTS
  Callers = {c1, c2}
  Accounts = {a1}
  MaxPairs = 3
  None = None
INVARIANTS
  RefreshedOnce
  FileNotBehind
PROPERTIES
  TokenNeverGoesBack
  CallReturns
CHECK_DEADLOCK FALSE
