SPECIFICATION WorkerSpec
CONSTANTS
  NoOne = NoOne
  x1 = x1
  x2 = x2
  h1 = h1
  p1 = p1
  m1 = m1
  m2 = m2
  Callers = {x1, x2}
  Users = {h1}
  Handlers = {h1}
  Publishers = {p1}
  Messages = {m1, m2}
  MaxRetries = 2
  MaxStart = 2
  MaxHandle = 2
SYMMETRY Symmetry
INVARIANTS
  WorkerTypeOK
  SpansEnd
  TracesJoin
