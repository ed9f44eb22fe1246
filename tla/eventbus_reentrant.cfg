SPECIFICATION FairSpec
CONSTANTS
  NoOne = NoOne
  s1 = s1
  w1 = w1
  p1 = p1
  Subs = {s1}
  Workers = {w1}
  Publishers <- ReentrantPublishers
  Users = {}
  BufferSize = 1
  MaxPublish = 2
CHECK_DEADLOCK FALSE
PROPERTIES
  CancelUnsubscribesAll
