CONSTANTS
  w1 = w1
  w2 = w2
  t1 = t1
  t2 = t2
  t3 = t3
  None = None
  Workers = {w1, w2}
  Tasks <- TwoTasks
  Batches <- PairBatch
  Passes = 1
  MaxOverrides = 0
SPECIFICATION FairSpec
PROPERTIES StopReturns
CHECK_DEADLOCK FALSE
