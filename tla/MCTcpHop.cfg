SPECIFICATION FairSpec
CONSTANTS
  SrcId = src
  Batches = 2
  MaxSeq = 1
  Conns = {c1, c2}
  NoConn = none
  OutCap = 2
  NetCap = 1
  MaxFaults = 1
CHECK_DEADLOCK FALSE
INVARIANTS NothingMisattributed DiodeLosesOnlyToFaults ErrorNotOvertaken
PROPERTIES ErrorHandlingEnds
