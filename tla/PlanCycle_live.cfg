\* Progress, with a TCP client that may come and go.
SPECIFICATION FairSpec
CONSTANTS
  s1 = s1
  can = can
  Solvers = {s1}
  Feeders = {can}
  Can = can
  l1 = l1
  Links = {l1}
  Stations = 2
  Dist <- MCShortDist
  Near = 1
  LineLength = 1
  MaxDis = 0
  Readings <- MCReadings
  Plans <- MCShortPlans
  NoOwner = NoOwner
PROPERTIES
  PlansEventually
  SendsEventually
