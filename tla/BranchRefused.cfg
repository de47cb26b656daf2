SPECIFICATION QuietSpec
CONSTANTS
  SessionIds = {s1, s2}
  GroupIds = {}
  VersionIds = {v1}
  QueryIds = {}
  Backends = {}
  Titles = {t1}
  Statuses = {"active"}
  Kinds = {"turn", "agent_turn"}
  MaxSeq = 1
  Requests = {r1}
  None = None
SYMMETRY Symmetry
INVARIANTS
  BranchFromThisTurn
CHECK_DEADLOCK FALSE
