SPECIFICATION Spec
CONSTANTS
  s1 = s1
  s2 = s2
  s3 = s3
  c1 = c1
  w1 = w1
  w2 = w2
  p1 = p1
  NoCal = NoCal
  Sequences <- OneOfEachKind
  Kind <- KindOf
  MaxSequences = 1
  Asked <- WithTheSet
  CalSets <- OneSet
  Workers <- TwoWorkers
  Parameters <- OneParameter
  Default = p1
  Expected <- ExpectedOf
  GroupSize = 2
  Variants = 1
  MaxSends = 2
  MaxRetries = 1
  MaxFaults = 1
INVARIANTS
  ProcessingTypeOK
  FilesMatchUnlessOverlapped
  OverlapHasACause
  StagesAgree
  WorkIsNeverLost
  CompletionIsNoticed
PROPERTIES
  KeepsReductionContract
  SuccessIsFinal
SYMMETRY Symmetry
CHECK_DEADLOCK FALSE
