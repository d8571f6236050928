SPECIFICATION FairSpec
CONSTANTS
  Runners = {r1}
  NoRunner = NoRunner
  MaxToken = 1
  SeqCount = 2
  Expected <- ShortSequences
  ModeOf <- TwoModes
  MaxAttempt = 1
  FaultKinds = {"CCD_READOUT", "GUIDER_LOST", "INTERLOCK_OPEN"}
  Disturbances = {}
PROPERTIES
  QueuedIsServed
  RunSettles
