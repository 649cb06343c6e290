\* Two publishers compete for a channel of one frame; goroutines are fair.
SPECIFICATION FairSpec
CONSTANTS
  u1 = u1
  u2 = u2
  c1 = c1
  c2 = c2
  p1 = p1
  p2 = p2
  NoUser = NoUser
  NoConn = NoConn
  Users = {u1}
  Conns = {c1}
  UserOf <- OneConn
  Callers = {p1, p2}
  QueueSize = 1
  MaxPublish = 1
INVARIANTS SentAccounted PublishersNeverWait
PROPERTIES DeadConnectionsLeave Delivered CallsReturn
CHECK_DEADLOCK FALSE
