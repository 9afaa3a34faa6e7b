\* Lines with up to three limits and two slopes, four sections, both ways; beside
\* them three wolves, three rounds, the last two with a factor of 0, every cost.
SPECIFICATION HalvesSpec
CONSTANTS
  Blank = Blank
  BasicParam <- MCBasicParam
  Dynamics <- MCDynamics
  Station <- MCStation
  CurveFile <- MCCurveFile
  Optimize <- MCOptimize
  Sample = 2
  Cms = 1
  Kmh = 2
  Margin = 1
  Short = 4
  Wide = 8
  Long = 34
  CurveFactor = 300
  HeadRows = 2
  Word = 1000
  LimitZones <- MCLimitZones
  SlopeZones <- MCSlopeZones
  Sections <- MCSections
  Row = 4
  Grid = 6
  TrainPosts = {5, 16, 26, 34}
  AnySpeed = {0, 7}
  Last = 2
  Top = 2
  Worst = 3
  Limit = 1
  Iterations = 3
  Half = 1
  NaN = NaN
  None = None
CHECK_DEADLOCK FALSE
INVARIANTS
  TargetHeld
  Brakeable
  LevelInRange
  AdviceOrdered
  AdviceIsNext
  ShownIsTarget
  LostOnlyUnled
  OnTimeOrStored
PROPERTIES
  AdviceAdvances
  PackContracts
