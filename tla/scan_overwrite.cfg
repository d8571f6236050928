SPECIFICATION Spec
CONSTANTS
  Runners = {r1}
  NoRunner = NoRunner
  MaxToken = 1
  SeqCount = 1
  Expected <- OneExposure
  ModeOf <- OneMode
  MaxAttempt = 2
  FaultKinds = {"STORAGE"}
  Disturbances = {"scan", "agent_down"}
PROPERTIES
  CommittedExposureFinal
