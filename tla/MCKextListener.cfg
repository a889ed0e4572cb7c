SPECIFICATION Spec
CONSTANTS
  k1 = k1
  k2 = k2
  Ids <- MCIds
  RequestLists <- TwoInfos
  Faults <- AllFaults
  MaxLoads = 2
  MaxAttempts = 1
INVARIANTS HandlersExclusive BigSurHandlersIndexed HandledOnce EarlyKextsServed LateKextsServed
CHECK_DEADLOCK FALSE
