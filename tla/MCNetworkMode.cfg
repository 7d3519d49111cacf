SPECIFICATION Spec
CONSTANTS
  MaxCuts = 2
INVARIANTS
  TypeOK
  FilesWhole
  NetworkIsUp
PROPERTIES
  ToggleComplete
  IdentityKept
