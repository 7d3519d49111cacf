CONSTANTS
  Restarts = 2
  Window = 8
  Clocks <- MCClocks
  Residues <- MCResidues
  MaxUptime = 18
SPECIFICATION FairSpec
INVARIANT TypeOK
INVARIANT GivesUpOnlyOnBurst
PROPERTY BurstEndsLoop
PROPERTY CrashLoopStops
CHECK_DEADLOCK FALSE
