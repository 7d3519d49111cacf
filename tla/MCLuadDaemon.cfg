CONSTANTS
  Starts = {p1, p2, p3}
  Stops = {q1, q2}
  None = None
  Apart = "ended"
  MayFail = TRUE
  MaySlow = TRUE
SPECIFICATION Spec
INVARIANT TypeOK
INVARIANT CodeIsTrue
INVARIANT RunningIsNamed
PROPERTY StopLeavesNone
CHECK_DEADLOCK FALSE
