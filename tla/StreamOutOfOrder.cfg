SPECIFICATION Spec
CONSTANTS
  Appenders = {a1, a2}
  Conns = {c1}
  QueueMax = 2
  MaxLog = 3
  None = None
  Resync = Resync
SYMMETRY Symmetry
INVARIANTS
  NoSilentGap
CHECK_DEADLOCK FALSE
