SPECIFICATION FairSpec
CONSTANTS
  Runners = {r1}
  NoRunner = NoRunner
  MaxToken = 1
  SeqCount = 1
  Expected <- OneExposure
  ModeOf <- OneMode
  MaxAttempt = 1
  FaultKinds = {}
  Disturbances = {}
PROPERTIES
  StopRequestsSettle
