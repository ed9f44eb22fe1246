SPECIFICATION FairSpec
CONSTANTS
  x1 = x1
  x2 = x2
  Callers = {x1}
  u1 = u1
  u2 = u2
  Users = {u1, u2}
  j1 = j1
  Subjects = {j1}
  MaxStart = 2
  MaxSub = 4
  Careful = TRUE
  Patient = TRUE
INVARIANTS TypeOK NoLostHandler EntryIsLive NoLostConnection NoDoubleClose
PROPERTIES CancelEndsAll
CHECK_DEADLOCK FALSE
