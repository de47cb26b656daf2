SPECIFICATION PgSpec
CONSTANTS
  SessionIds = {s1,s2}
  GroupIds = {g1}
  VersionIds = {v1}
  QueryIds = {q1}
  Backends = {b1}
  Titles = {t1}
  Statuses = {"active"}
  Kinds = {"turn"}
  MaxSeq = 0
  None = None
  Txns = {x1,x2}
SYMMETRY PgSymmetry
INVARIANTS
  PgTypeOK
  AppendNeverCollides
  DeadlockNeedsDelete
PROPERTIES
  ImplementsStore
\* A transaction whose rows are gone can always be rolled back; used-up ids stop nothing.
CHECK_DEADLOCK FALSE
