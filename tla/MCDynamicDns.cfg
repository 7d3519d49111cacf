SPECIFICATION Spec
CONSTANTS
  Starts = 3
  Addresses <- MCAddresses
  MaxChanges = 1
  MaxFailures = 1
  Serial = TRUE
INVARIANTS
  TypeOK
  OneUpdater
  KnowsRecord
PROPERTIES
  Converges
CHECK_DEADLOCK FALSE
