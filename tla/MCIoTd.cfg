CONSTANTS
  Sensors = {s1, s2}
  Configs <- MCConfigs
  Interval = 2
  FileSize = 2
  RecordSizes = {1, 2}
  TtySize = 1
  MaxLines = 3
  MaxTime = 3
  MaxSets = 1
  MaxFaults = 1
SPECIFICATION Spec
SYMMETRY MCSymmetry
INVARIANT TypeOK
INVARIANT UploadsGetNewer
INVARIANT RateLimited
INVARIANT NewestReadingKept
INVARIANT RecordsInOrder
CHECK_DEADLOCK FALSE
