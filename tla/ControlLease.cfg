SPECIFICATION LeaseSpec
CONSTANTS
  Runners = {r1, r2, r3}
  NoRunner = NoRunner
  MaxToken = 4
INVARIANTS
  LeaseTypeOK
  TokenUnique
  FencedByTheLeader
PROPERTY TokensOnlyGrow
CHECK_DEADLOCK FALSE
