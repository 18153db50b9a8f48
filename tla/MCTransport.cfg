SPECIFICATION FairSpec
CONSTANTS
  Writers = {loop, w1, w2}
  Loop = loop
  Takers = {w1}
  Nobody = Nobody
  Cap = 1
  QueueCap = 1
  MaxFlight = 1
  MaxKex = 3
INVARIANTS TypeOK ExchangeIsAlone
PROPERTIES WritersEnd ExchangesEnd
CHECK_DEADLOCK FALSE
