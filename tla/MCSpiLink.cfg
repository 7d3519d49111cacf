CONSTANTS
  Letters <- MCLetters
  Messages <- MCMessages
  BoardInfo <- MCBoardInfo
  Invalid <- MCInvalid
  UartChars = 5
  RxSize = 2
  TxSize = 4
  MaxRead = 8
  Retries = 2
  Pace = 3
  CharTime = 2
  MaxCalls = 4
  MaxFaults = 1
SPECIFICATION FairSpec
INVARIANT TypeOK
INVARIANT AnswerComplete
INVARIANT AnswerWhole
INVARIANT OneCommandPerAnswer
PROPERTY CallReturns
CHECK_DEADLOCK FALSE
