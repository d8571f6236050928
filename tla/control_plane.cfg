SPECIFICATION Spec
CONSTANTS
  Runners = {r1}
  NoRunner = NoRunner
  MaxToken = 1
  SeqCount = 2
  Expected <- ShortSequences
  ModeOf <- TwoModes
  MaxAttempt = 2
  FaultKinds = {"CCD_READOUT"}
  Disturbances = {}
INVARIANTS
  TypeOK
  SuccessMeansEveryFrame
  CompletedMatchesCommitted
  OneFramePerOrdinal
  ExposureUnderControl
  ExposingIsAttended
PROPERTIES
  CommittedExposureFinal
  SafeFaultLatched
  KeepsContract
