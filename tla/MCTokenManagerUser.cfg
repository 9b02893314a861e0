SPECIFICATION Spec
CONSTANTS
  Callers = {c1, c2}
  Accounts = {a1, a2}
  MaxPairs = 3
  None = None
INVARIANTS
  UserIsOwner
CHECK_DEADLOCK FALSE
