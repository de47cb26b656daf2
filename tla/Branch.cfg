SPECIFICATION BranchSpec
CONSTANTS
  SessionIds = {s1, s2}
  GroupIds = {g1}
  VersionIds = {v1, v2}
  QueryIds = {}
  Backends = {}
  Titles = {t1}
  Statuses = {"active"}
  Kinds = {"turn", "agent_turn"}
  MaxSeq = 1
  Requests = {r1}
  None = None
SYMMETRY Symmetry
INVARIANTS
  BranchForksAtEnd
  LogGapless
  VersionHoldsItsTurns
  VersionHasBlob
PROPERTIES
  Spec
  HistoryWriteOnce
CONSTRAINT FewOrphans
CHECK_DEADLOCK FALSE
