SPECIFICATION GraphSpec
CONSTANTS
  SessionIds = {s1, s2, s3}
  GroupIds = {g1}
  VersionIds = {v1, v2}
  QueryIds = {q1}
  Backends = {b1}
  Titles = {t1}
  Statuses = {"active"}
  Kinds = {}
  MaxSeq = 1
  None = None
  Readers = {r1}
SYMMETRY Symmetry
CONSTRAINT QueriesEarly
INVARIANTS
  GraphTypeOK
  ForkDagWellFounded
  ForkPointInVersion
  PinnedForksStayPinned
  GroupRefsPresent
  EdgesJoinNodes
  SessionGraphIsTree
  ChainIsLineage
PROPERTIES
  LineageImmutable
CHECK_DEADLOCK FALSE
