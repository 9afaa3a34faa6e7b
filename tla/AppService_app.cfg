\* All a client may send, with two slots and one descriptor; the curve is written twice.
SPECIFICATION FairSpec
CONSTANTS
  Clients = {c1}
  Fds = {f1}
  Slots = 2
  Posts <- MCPosts
  Near = 2
  Fixes = {11}
  MaxCurves = 2
  Requests = {"offer", "end", "serve", "plan", "wrong"}
  Nobody = Nobody
  NoFd = NoFd
INVARIANT
  FreshIfServed
PROPERTY
  IsSession
