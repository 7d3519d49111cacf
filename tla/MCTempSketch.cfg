SPECIFICATION Spec
CONSTANTS
  Width = 3
  Family = 1
  Codes <- MCCodes
  Delivered <- MCDelivered
  DS18S20 <- MCDS18S20
  MayShort = TRUE
  MaxChanges = 2
INVARIANTS
  TypeOK
  AllFound
  TurnComplete
  SetupComplete
PROPERTIES
  NextIsNew
  TurnsEnd
