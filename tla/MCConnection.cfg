SPECIFICATION FairSpec
CONSTANTS
  Ids = {k1, k2}
  Kinds = {"pty_req"}
  QueueCap = 1
  MaxChans = 2
  MaxReqs = 2
  MaxAll = 3
  MaxUnread = 1
INVARIANTS
  TypeOK
  PacketsReachTheirChannel
  QueuesCloseOnce
  AnsweredInOrder
PROPERTY LoopGoesOn
CHECK_DEADLOCK FALSE
