\* Clients leave or quit; the manager's sleep is long enough.
SPECIFICATION Spec
CONSTANTS
  Clients = {c1, c2, c3}
  Fds = {1, 2, 3}
  MAX_NUM_CLIENT = 2
  Prompt = TRUE
  Nobody = Nobody
SYMMETRY MCClients
CHECK_DEADLOCK FALSE
INVARIANTS
  ServesOwn
  ServedAreListed
