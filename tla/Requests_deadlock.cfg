SPECIFICATION FairSpec
CONSTANTS
  Requesters = {r1, r2}
  Receivers = {v1}
  MaxCalls = 2
  None = None
PROPERTIES
  RequestReturns
CHECK_DEADLOCK FALSE
