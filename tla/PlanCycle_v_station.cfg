\* define.h:114
SPECIFICATION Spec
CONSTANTS
  s1 = s1
  s2 = s2
  can = can
  Solvers = {s1, s2}
  Feeders = {can}
  Can = can
  Links = {}
  Stations = 3
  Dist <- MCDist
  Near = 1
  LineLength = 2
  MaxDis = 1
  Readings <- MCReadings
  Plans <- MCSkipping
  NoOwner = NoOwner
INVARIANT
  CurveOfStation
