\* A publication races with the unregistration of its target.
SPECIFICATION Spec
CONSTANTS
  u1 = u1
  u2 = u2
  c1 = c1
  c2 = c2
  p1 = p1
  p2 = p2
  NoUser = NoUser
  NoConn = NoConn
  Users = {u1}
  Conns = {c1}
  UserOf <- OneConn
  Callers = {p1}
  QueueSize = 1
  MaxPublish = 1
INVARIANT NoCrash
CHECK_DEADLOCK FALSE
