SPECIFICATION FairSpec
CONSTANTS
  Procs = {p1, p2}
  Sources = {s1}
  MaxStarts = 3
CHECK_DEADLOCK FALSE
INVARIANTS LockExclusive
