SPECIFICATION Spec
CONSTANTS
  MaxCuts = 0
INVARIANTS
  ModesAgree
