SPECIFICATION FairSpec
CONSTANTS
  SrcId = src
  Batches = 1
  MaxSeq = 0
  Conns = {c1, c2}
  NoConn = none
  OutCap = 2
  NetCap = 1
  MaxFaults = 0
CHECK_DEADLOCK FALSE
PROPERTIES SyncAnswered
