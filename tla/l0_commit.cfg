SPECIFICATION FairSpec
CONSTANTS
  e1 = e1
  e2 = e2
  Exposures <- TwoExposures
  MaxDay = 2
  MaxFrames = 3
  MaxFailures = 2
INVARIANTS
  L0TypeOK
  FinalNeverTorn
  CommittedMatchesRegistered
  DigestMatchesFile
PROPERTIES
  FileIsImmutable
  OrphanIsRegisteredOrDoubled
CHECK_DEADLOCK FALSE
