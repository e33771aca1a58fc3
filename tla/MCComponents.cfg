SPECIFICATION CheckedSpec
CONSTANTS
  PageSize = 3
  FrameSize = 1
  Capacity = 6
  MaxPackets = 9
  Truncated = {2, 5}
  Junk = {0, 3}
  Wrap = 16
  MaxStamps = 2
  EndOfTime = 11
  Lateness = 1
  Uncleared = {0}
  Assocs = {3}
  Unquoted = {3}
  ListTries = 2
  Rounds = 2
  Payloads <- MCPayloads
  FixedDigits = 2
  PortLimit = 16
  UsualPort = 7
  MaxReads = 2
  MaxFaults = 1
  BufSize = 4
  KernelRoom = 3
  Sizes = {1, 3}
  MaxGiven = 7
  MaxWaits = 1
  OctetBits = 3
  WordOctets = 3
  IntBits = 6
  NsecOctets = 1
  NsecLimit = 6
  Samples <- MCSamples
  MaxAttributes = 2
  MaxOctets = 5
  Groups = 3
  Spellings <- MCSpellings
  MaxRest = 1
  MaskBits = 2
  JumpSize = 16
  Blocks4 <- MCBlocks4
  Blocks6 <- MCBlocks6
  Addresses6 <- MCAddresses6
  MaxBlocks = 2
  Datagrams <- MCDatagrams
  Captors = {"c1", "c2", "c3"}
  SrcId = "src"
  Sources <- MCSources
  Times <- MCTimes
  Defs <- MCDefs
  MaxSeq = 1
CHECK_DEADLOCK FALSE
INVARIANTS
  NothingUnaccounted
  ContentStable
  LossReportedInTime
  LeapSecondExact
  PeersSound
  VariablesExact
  FaithfulStream
  WrittenIsRead
  ReadIsExact
  ParsedExactly
  FilterExact
  Reconstructible
  CapturingIsHeard
  ReplyCoversHandledEvents
