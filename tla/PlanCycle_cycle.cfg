\* Two search threads, and a TCP client that joins and leaves while the train is planned for.
SPECIFICATION Spec
CONSTANTS
  s1 = s1
  s2 = s2
  can = can
  Solvers = {s1, s2}
  Feeders = {can}
  Can = can
  l1 = l1
  Links = {l1}
  Stations = 2
  Dist <- MCShortDist
  Near = 1
  LineLength = 1
  MaxDis = 0
  Readings <- MCReadings
  Plans <- MCShortPlans
  NoOwner = NoOwner
SYMMETRY SolverSymmetry
INVARIANTS
  SoleSearch
  StageHasSearch
  SearchOwnsWork
PROPERTY IsPlanService
