CONSTANTS
  c1 = c1  r1 = r1  r2 = r2
  Clients = {c1}
  Requests = {r1, r2}
  Limit = 2
  Window = 2
  Timeout = 1
  MaxTime = 5
  MaxArrivals = 6
  MaxFaults = 1
SPECIFICATION Spec
INVARIANTS WindowsAreBounded RefusalsAreFair
SYMMETRY RequestSymmetry
CHECK_DEADLOCK FALSE
