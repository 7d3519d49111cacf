CONSTANTS
  Letters <- MCLetters
  Messages <- MCMessages
  BoardInfo <- MCBoardInfo
  Invalid <- MCInvalid
  UartChars = 5
  RxSize = 2
  TxSize = 4
  MaxRead = 8
  Retries = 2
  Pace = 3
  CharTime = 2
  MaxCalls = 1
  MaxFaults = 0
SPECIFICATION Spec
INVARIANT DummyIgnored
CHECK_DEADLOCK FALSE
