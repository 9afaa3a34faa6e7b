\* One slot and one descriptor, which are used again and run out.
SPECIFICATION FairSpec
CONSTANTS
  Clients = {c1, c2}
  Fds = {f1}
  Slots = {s1}
  Requests = {"hello", "wrong", "text", "bye", "part"}
  Rounds = 1
  Nobody = Nobody
  NoFd = NoFd
INVARIANTS
  SlotsHaveConnections
  EventsOfTheSlot
PROPERTIES
  QueuedIsAccepted
  LoginOrOut
