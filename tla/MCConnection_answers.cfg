SPECIFICATION Spec
CONSTANTS
  Ids = {k1}
  Kinds = {"pty_req", "exec"}
  QueueCap = 1
  MaxChans = 1
  MaxReqs = 2
  MaxAll = 3
  MaxUnread = 1
INVARIANT AnswersMatch
CHECK_DEADLOCK FALSE
