SPECIFICATION FairPoolSpec
CONSTANTS
  Conns = {c1, c2, c3}
  MaxRequests = 3
  NoConn = NoConn
  MaxIdle = 1
  MaxBusy = 1
INVARIANTS TypeOK DeletedWhole FailuresLeaveNothing LostOnlyInOpenTransaction
PROPERTY RequestsEnd
CHECK_DEADLOCK FALSE
