SPECIFICATION Spec
CONSTANTS
  Runners = {r1}
  NoRunner = NoRunner
  MaxToken = 1
  SeqCount = 2
  Expected <- ShortSequences
  ModeOf <- TwoModes
  MaxAttempt = 1
  FaultKinds = {}
  Disturbances = {}
PROPERTIES
  PreparedForItsMode
