SPECIFICATION FairSpec
CONSTANTS
  Callers = {u1}
  MaxStart = 2
  MaxFault = 0
  MaxConn = 4
  MaxChan = 4
  Patient = FALSE
CHECK_DEADLOCK FALSE
PROPERTIES
  LoopsEnd
