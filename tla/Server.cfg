SPECIFICATION ServerSpec
CONSTANTS
  b1 = b1
  b2 = b2
  Backends = {b1, b2}
  None = None
  SessionIds = {s1, s2}
  Queries = {q1}
  Branches = {n1}
  Configs <- MCConfigs
INVARIANTS
  ServerTypeOK
  DefaultIsAdvertised
  VettedSessionsStart
  VettedSessionsIsolated
  PoolsReleased
  CloseIsTried
PROPERTIES
  BranchIsNamed
CHECK_DEADLOCK FALSE
