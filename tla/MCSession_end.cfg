SPECIFICATION FairSpec
CONSTANTS
  MaxOut = 4
  MaxIn = 3
  TtyCap = 2
  Window = 1
PROPERTY SessionsEnd
CHECK_DEADLOCK FALSE
