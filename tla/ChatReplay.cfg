SPECIFICATION ChatSpec
CONSTANTS
  SessionIds = {s1}
  Calls = {c1}
  MaxLog = 4
  None = None
INVARIANTS
  NeverDoubleRendered
CHECK_DEADLOCK FALSE
