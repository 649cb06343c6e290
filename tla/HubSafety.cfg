\* Two connections of one user, publications for two users, DELETE among them.
SPECIFICATION Spec
CONSTANTS
  u1 = u1
  u2 = u2
  c1 = c1
  c2 = c2
  p1 = p1
  p2 = p2
  NoUser = NoUser
  NoConn = NoConn
  Users = {u1, u2}
  Conns = {c1, c2}
  UserOf <- TwoConns
  Callers = {p1}
  QueueSize = 2
  MaxPublish = 2
INVARIANTS TypeOK HubConsistent InOrder
PROPERTY IsMailboxes
SYMMETRY Twins
CHECK_DEADLOCK FALSE
