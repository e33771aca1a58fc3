SPECIFICATION FairCapture
CONSTANTS
  host = host
  SrcId = host
  s1 = s1
  s2 = s2
  Sources <- TwoSources
  WriteFaults = TRUE
  MaxEvents = 2
  MaxSessions = 2
PROPERTIES ShutdownCompletes EventsSigned
INVARIANTS
  CaptureInv
  ChainUnbroken
  SignaturesFollow
  StreamAccepted
  CapturesUntilSignal
CHECK_DEADLOCK FALSE
