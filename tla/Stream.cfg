SPECIFICATION FairSpec
CONSTANTS
  Appenders = {a1}
  Conns = {c1}
  QueueMax = 2
  MaxLog = 5
  None = None
  Resync = Resync
INVARIANTS
  TypeOK
  CaughtUpWhenIdle
PROPERTIES
  ImplementsFeed
  FollowerCatchesUp
  SentinelCloses
CHECK_DEADLOCK FALSE
