SPECIFICATION Spec
CONSTANTS
  Runners = {r1}
  NoRunner = NoRunner
  MaxToken = 1
  SeqCount = 1
  Expected <- TwoExposures
  ModeOf <- OneMode
  MaxAttempt = 1
  FaultKinds = {}
  Disturbances = {}
INVARIANTS
  HealthyNeverFaults
