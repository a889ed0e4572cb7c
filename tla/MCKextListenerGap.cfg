SPECIFICATION Spec
CONSTANTS
  k1 = k1
  k2 = k2
  Ids <- MCIds
  RequestLists <- TwoKexts
  Faults <- NoFaults
  MaxLoads = 1
  MaxAttempts = 0
INVARIANT NoLoadedKextMissed
CHECK_DEADLOCK FALSE
