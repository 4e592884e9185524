CONSTANTS
  w1 = w1
  w2 = w2
  t1 = t1
  t2 = t2
  t3 = t3
  None = None
  Workers = {w1, w2}
  Tasks <- ThreeTasks
  Batches <- OneBatch
  Passes = 2
  MaxOverrides = 1
SPECIFICATION Spec
INVARIANTS TypeOK ExactlyOnce AssertsHold NoDanglingRunner FreshConfig
PROPERTIES ConcurrencyRespected ConfigNeverReverts ImplementsPool
SYMMETRY WorkerSymmetry
CHECK_DEADLOCK FALSE
