CONSTANTS
  SrcId = "src"
  MaxFile = 2
  MaxTime = 2
  MaxSeq = 1
  MaxKills = 1
  MaxCreateFaults = 0
  Capacity = 2
  HeaderSize = 1
  RecordSize = 1
  BufferRecs = 1
  ControlChans <- MCNone
  Unended = TRUE
  Synced = FALSE
  SpaceAnswers <- MCRoom
  NoDelete = FALSE
  MaxFaults = 1
  MaxRestarts = 1
  MaxNext = 5
SPECIFICATION SSpec
CHECK_DEADLOCK FALSE
INVARIANTS
  NoTimelyLoss
  SpoolInv
  NothingMisattributed
  ForwardNeverStuck
  NumbersNeverReused
  SelfContained
  NoHoles
PROPERTIES
  ImplementsTransfer
