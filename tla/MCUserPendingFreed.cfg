SPECIFICATION Spec
CONSTANTS
  t1 = t1
  t2 = t2
  t3 = t3
  Threads <- TwoThreads
  NoThread = NoThread
  N = 1
  MaxExecs = 3
INVARIANT StoredNotFreed
CHECK_DEADLOCK FALSE
