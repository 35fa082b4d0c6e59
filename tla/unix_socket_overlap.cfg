SPECIFICATION Spec
CONSTANTS
  Servers = {p1, p2}
  Overlap = TRUE
INVARIANTS
  ServingIsReachable
CHECK_DEADLOCK FALSE
