SPECIFICATION Spec
CONSTANTS
  t1 = t1
  t2 = t2
  t3 = t3
  Threads <- ThreeThreads
  NoThread = NoThread
  N = 2
  MaxExecs = 4
INVARIANTS TypeOK SlotsExclusive
PROPERTY ImplementsThreadMap
CHECK_DEADLOCK FALSE
SYMMETRY MCSymmetry
