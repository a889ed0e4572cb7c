SPECIFICATION FairSpec
CONSTANTS
  p1 = p1
  p2 = p2
  c1 = c1
  c2 = c2
  Plugins <- MCOnePlugin
  Callers <- MCCallers
  Worker = Worker
  NoOne = NoOne
  Faults <- AllFaults
  MaxFailures = 2
PROPERTIES HookReturns EventuallyActive PluginServed
CHECK_DEADLOCK FALSE
