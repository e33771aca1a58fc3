SPECIFICATION StreamSpec
CONSTANTS
  BufSize = 4
  KernelRoom = 3
  Sizes = {1, 3}
  MaxGiven = 7
  MaxWaits = 1
CHECK_DEADLOCK FALSE
INVARIANT WaitsFaithfully
