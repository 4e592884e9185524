SPECIFICATION FairSpec
CONSTANTS
  Requesters = {r1, r2}
  Receivers = {v1, v2}
  MaxCalls = 3
  None = None
INVARIANTS
  OwnAnswer
  NoLeak
  TimeoutMeansNoAnswer
  InversionNeedsTimeout
PROPERTIES
  ReturnsUnlessInverted
CHECK_DEADLOCK FALSE
