CONSTANTS
  s1 = s1
  Sips <- MCSips
  MaxAttempts = 3
  MaxSessions = 2
SPECIFICATION FairSpec
INVARIANTS
  TypeOK
  AtMostOneImport
  ImportsAreAuthorised
  SuccessMeansImported
  OrphansAreBounded
  NoPollIsInVain
PROPERTIES
  KeepsContracts
  IngestsMoveOn
  EveryIngestEnds
CHECK_DEADLOCK FALSE
