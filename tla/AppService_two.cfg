\* Two clients that come, log in, ask, read or do not, and leave.
SPECIFICATION TwoSpec
CONSTANTS
  Clients = {c1, c2}
  Fds = {1, 2}
  Slots = 2
  Posts <- MCPosts
  Near = 2
  Fixes = {11}
  MaxCurves = 2
  Requests = {"offer", "end", "serve"}
  Nobody = Nobody
  NoFd = 0
PROPERTIES
  ServedIsPushed
  CurveReachesAll
