SPECIFICATION Spec
CONSTANTS
  Runners = {r1}
  NoRunner = NoRunner
  MaxToken = 1
  SeqCount = 1
  Expected <- TwoExposures
  ModeOf <- OneMode
  MaxAttempt = 2
  FaultKinds = {"STORAGE", "REPLY_LOST"}
  Disturbances = {"stop", "expire", "scan", "agent_restart", "agent_down"}
INVARIANTS
  SuccessMeansEveryFrame
PROPERTIES
  EndIsFinal
  KeepsLease
