SPECIFICATION Spec
CONSTANTS
  NoOne = NoOne
  s1 = s1
  w1 = w1
  p1 = p1
  Subs = {s1, s2}
  Workers = {w1, w2}
  Publishers = {p1, p2}
  Users = {u1}
  BufferSize = 1
  MaxPublish = 1
SYMMETRY Symmetry
CHECK_DEADLOCK FALSE
INVARIANTS
  TypeOK
  NoSendOnClosed
  QuietAfterUnsubscribe
  NoOrphanAfterCancel
  AtMostOnce
PROPERTIES
  PublishReachesAll
  RefinesFanOut
