\* Any frame may be lost, and two look like headers.
SPECIFICATION Spec
CONSTANTS
  N = 4
  Alike <- MCAlike
  MaxMessage = 4
  Empty = Empty
  Mixed = Mixed
PROPERTIES
  NoMixture
  CompleteIsTaken
  IsTelegrams
