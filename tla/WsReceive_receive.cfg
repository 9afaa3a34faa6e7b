\* A handshake and two packages, cut in and around their headers.
SPECIFICATION FairSpec
CONSTANTS
  Try = 14
  Size = 102416
  KeyName = 140
  KeyAt = 142
  KeyEnd = 166
  HelloLen = 230
  Packages <- MCPackages
  Garbled <- MCGarbled
  Cuts = {1, 3, 8, 14, 20, 141, 150}
  MaxSent = 2
CHECK_DEADLOCK FALSE
INVARIANTS
  InOrder
  BufferHolds
  HandshakeAnswered
PROPERTY
  WholeIsHanded
