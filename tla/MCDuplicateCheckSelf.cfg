CONSTANTS
  s1 = s1
  s2 = s2
  c1 = c1
  c2 = c2
  Nobody = Nobody
  Sips <- MCSips
  Checksums <- MCChecksums
  MaxAttempts = 2
  MaxCrashes = 1
SPECIFICATION FairSpec
INVARIANT RefusedForAnother
CHECK_DEADLOCK FALSE
