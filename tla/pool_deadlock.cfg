SPECIFICATION FairSpec
CONSTANTS
  NoOne = NoOne
  x1 = x1
  u1 = u1
  u2 = u2
  Callers = {x1}
  Users = {u1}
  Reentrant = TRUE
  MaxConns = 2
  MaxRetries = 2
  MaxStart = 1
  MaxPool = 2
  Careful = TRUE
CHECK_DEADLOCK FALSE
PROPERTIES
  StopReturns
