SPECIFICATION FairSpec
CONSTANTS
  Appenders = {a1}
  Conns = {c1}
  QueueMax = 1
  MaxLog = 2
  None = None
  Resync = Resync
PROPERTIES
  ForwardedOrClosed
CHECK_DEADLOCK FALSE
