SPECIFICATION Spec
CONSTANTS
  f1 = f1
  f2 = f2
  r1 = r1
  r2 = r2
  r3 = r3
  Routables <- TwoFunctions
  RouteIds <- ThreeRoutes
  Original = Original
  Null = Null
  MaxSlots = 2
  RouteFaults <- AllRouteFaults
INVARIANTS TypeOK ChainComplete DeinitRestores
PROPERTY NeverGrows
CHECK_DEADLOCK FALSE
SYMMETRY MCSymmetry
