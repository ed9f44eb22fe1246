SPECIFICATION FairSpec
CONSTANTS
  NoOne = NoOne
  x1 = x1
  u1 = u1
  u2 = u2
  Callers = {x1}
  Users = {u1, u2}
  Reentrant = FALSE
  MaxConns = 1
  MaxRetries = 2
  MaxStart = 2
  MaxPool = 4
  Careful = TRUE
CHECK_DEADLOCK FALSE
INVARIANTS
  TypeOK
  PoolIsLive
  NoLostPool
  StoppedHasNoPool
PROPERTIES
  CallsReturn
