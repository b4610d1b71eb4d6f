CONSTANTS
  p1 = p1
  p2 = p2
  w1 = w1
  w2 = w2
  NoWorker = NoWorker
  Runs <- MCRuns
  Workers <- MCOneWorker
  Slots = 1
  MaxSessions = 2
SPECIFICATION FairSpec
PROPERTIES
  EveryRunEnds
CHECK_DEADLOCK FALSE
