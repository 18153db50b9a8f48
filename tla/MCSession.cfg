SPECIFICATION FairSpec
CONSTANTS
  MaxOut = 4
  MaxIn = 3
  TtyCap = 2
  Window = 1
INVARIANTS
  TypeOK
  OutputBeforeClose
  CloseIsLast
  InputBeforeEOF
PROPERTY ExitedIsReaped
CHECK_DEADLOCK FALSE
