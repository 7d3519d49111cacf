CONSTANTS
  Byte <- MCByte
  Size = 3
  WordSize = 8
  Ok = 9
SPECIFICATION Spec
INVARIANT TypeOK
PROPERTY IsFifo
