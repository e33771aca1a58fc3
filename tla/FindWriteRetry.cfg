SPECIFICATION CaptureSpec
CONSTANTS
  host = host
  SrcId = host
  s1 = s1
  s2 = s2
  Sources <- TwoSources
  WriteFaults = TRUE
  MaxEvents = 3
  MaxSessions = 2
INVARIANT WritesRetried
CHECK_DEADLOCK FALSE
