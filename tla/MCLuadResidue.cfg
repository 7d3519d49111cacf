CONSTANTS
  Restarts = 2
  Window = 8
  Clocks = {8}
  Residues = {0, 1}
  MaxUptime = 18
SPECIFICATION Spec
INVARIANT StopsOnlyOnBurst
CHECK_DEADLOCK FALSE
