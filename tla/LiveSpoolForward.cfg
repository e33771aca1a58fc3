CONSTANTS
  SrcId = "src"
  MaxFile = 2
  MaxTime = 2
  MaxSeq = 0
  MaxKills = 0
  MaxCreateFaults = 1
  Capacity = 2
  HeaderSize = 1
  RecordSize = 1
  BufferRecs = 1
  ControlChans <- MCEnds
  Unended = FALSE
  Synced = TRUE
  SpaceAnswers <- MCRoom
  NoDelete = FALSE
  MaxFaults = 0
  MaxRestarts = 1
  MaxNext = 5
SPECIFICATION FairSpec
CHECK_DEADLOCK FALSE
PROPERTIES
  TimelyDelivered
  SpoolReleased
