CONSTANTS
  Starts = {p1, p2, p3}
  Stops = {}
  None = None
  Apart = "returned"
  MayFail = TRUE
  MaySlow = FALSE
SPECIFICATION Spec
INVARIANT OneDaemon
CHECK_DEADLOCK FALSE
