CONSTANTS
  p1 = p1
  p2 = p2
  w1 = w1
  w2 = w2
  NoWorker = NoWorker
  Runs <- MCOneRun
  Workers <- MCWorkers
  Slots = 1
  MaxSessions = 2
SPECIFICATION FairSpec
INVARIANTS
  RetriedSessionSucceeds
CHECK_DEADLOCK FALSE
