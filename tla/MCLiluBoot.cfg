SPECIFICATION Spec
CONSTANTS
  p1 = p1
  p2 = p2
  c1 = c1
  c2 = c2
  Plugins <- MCPlugins
  Callers <- MCCallers
  Worker = Worker
  NoOne = NoOne
  Faults <- AllFaults
  MaxFailures = 2
INVARIANTS OneInitialiser NoPluginInside PatcherUp ActivatedAfterCallbacks NothingDangling
PROPERTY NoReinit
CHECK_DEADLOCK FALSE
SYMMETRY MCSymmetry
