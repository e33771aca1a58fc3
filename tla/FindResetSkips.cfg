CONSTANTS
  SrcId = "src"
  MaxFile = 2
  MaxTime = 2
  MaxSeq = 1
  MaxKills = 0
  MaxCreateFaults = 0
  Capacity = 2
  HeaderSize = 1
  RecordSize = 1
  BufferRecs = 2
  ControlChans <- MCNone
  Unended = FALSE
  Synced = FALSE
  SpaceAnswers <- MCRoom
  NoDelete = FALSE
  MaxFaults = 1
  MaxRestarts = 0
  MaxNext = 5
SPECIFICATION SSpec
CHECK_DEADLOCK FALSE
INVARIANT ReadsOldest
