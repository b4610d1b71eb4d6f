CONSTANTS
  p1 = p1
  p2 = p2
  w1 = w1
  w2 = w2
  NoWorker = NoWorker
  Runs <- MCOneRun
  Workers <- MCWorkers
  Slots = 1
  MaxSessions = 5
SPECIFICATION FairSpec
INVARIANTS
  DownloadsAreRemoved
  SuccessIsEarned
  ResultSpansSessions
PROPERTIES
  RunsMoveOn
CHECK_DEADLOCK FALSE
