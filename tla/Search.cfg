SPECIFICATION FairSpec
CONSTANTS
  Orders <- ActionOrders
  Frontiers = {0, 1, 2}
  Marks = {m}
  MaxReward = 2
  StallFrameLimit = 2
  MaxSearchedNodeCount = 3
  StopAfterBestFrontier = 2
  VelocityThreshold = 2
INVARIANTS
  StackRestorable
  ClosedLossProved
  PlanOfTheBest
PROPERTY
  SearchEnds
\* a search that is over stays over
CHECK_DEADLOCK FALSE
