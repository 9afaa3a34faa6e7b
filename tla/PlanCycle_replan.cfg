\* The APP changes the stopping plan while the train is planned for.
SPECIFICATION Spec
CONSTANTS
  s1 = s1
  can = can
  Solvers = {s1}
  Feeders = {can}
  Can = can
  Links = {}
  Stations = 3
  Dist <- MCDist
  Near = 1
  LineLength = 2
  MaxDis = 1
  Readings <- MCReadings
  Plans <- MCPlans
  NoOwner = NoOwner
INVARIANTS
  SearchIsValidated
  BaseIsInterval
  UnsentIsFlagged
