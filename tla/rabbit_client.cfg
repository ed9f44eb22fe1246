SPECIFICATION FairSpec
CONSTANTS
  Callers = {u1}
  MaxStart = 2
  MaxFault = 1
  MaxConn = 5
  MaxChan = 5
  Patient = TRUE
CHECK_DEADLOCK FALSE
INVARIANTS
  TypeOK
  NothingLeaks
  ChannelOnConn
PROPERTIES
  Reconnects
  LoopsEnd
  RefinesLife
