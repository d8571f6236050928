SPECIFICATION Spec
CONSTANTS
  i1 = i1
  i2 = i2
  b1 = b1
  b2 = b2
  k1 = k1
  q1 = q1
  w1 = w1
  w2 = w2
  x1 = x1
  x2 = x2
  Paths <- ThreePaths
  Start <- OneNight
  Directories <- AllOrFlats
  Frames <- AllFrames
  Absent = "absent"
  Role <- RoleOf
  Group <- GroupOf
  Sub <- SubOf
  Night <- NightOf
  SubExposures = 2
  InspectionKeys <- TwoInspections
  ImportKeys <- TwoImports
  MaxChanges = 1
  MaxSends = 2
  MaxRetries = 1
  CalKeys <- OneCalKey
  RequiredCounts <- OneFlat
  Recommended = 2
  Builders <- TwoBuilders
  MaxFaults = 1
  PubKeys <- OnePubKey
  Clients <- TwoClients
  Simulated = Simulated
  MaxReductions = 1
INVARIANTS
  ArchiveTypeOK
  PublishedIsTraceable
  FrameImportedOnce
  BuildIsNeverLost
PROPERTIES
  ApprovedSetIsFixed
  OneChangePerKey
SYMMETRY Symmetry
CHECK_DEADLOCK FALSE
