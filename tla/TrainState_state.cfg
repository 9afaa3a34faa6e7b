\* A journey over two sections, one stop skipped or none, and back.
SPECIFICATION Spec
CONSTANTS
  Dist <- MCDist
  Time <- MCTime
  Near = 12
  Slip = 2
  Part = 2
  Speeds <- MCSpeeds
  MaxPos = 56
  Plans <- MCPlans
INVARIANTS
  PositionHeld
  ArrivalIsOfNext
PROPERTIES
  KnowsNextStop
  DepartureIsReal
