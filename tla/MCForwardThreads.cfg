SPECIFICATION FairSpec
CONSTANTS
  Procs = {p1, p2}
  Sources = {s1}
  MaxStarts = 2
CHECK_DEADLOCK FALSE
INVARIANTS ExclusiveThroughKills AcceptedOnce
PROPERTIES CleanExit EverySourceServed StopCompletes
