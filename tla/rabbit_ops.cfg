SPECIFICATION FairSpec
CONSTANTS
  m1 = m1
  m2 = m2
  p1 = p1
  w1 = w1
  w2 = w2
  NoOne = NoOne
  Messages = {m1, m2}
  Publishers = {p1}
  Workers = {w1, w2}
  MaxChan = 2
  MaxFault = 1
  MaxRequeue = 1
CHECK_DEADLOCK FALSE
INVARIANTS
  TypeOK
  NoMessageLost
PROPERTIES
  Drains
