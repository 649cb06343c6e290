\* Three users that come and go, and one goroutine more than users.
SPECIFICATION FairSpec
CONSTANTS
  u1 = u1
  u2 = u2
  u3 = u3
  g1 = g1
  g2 = g2
  g3 = g3
  g4 = g4
  Uids = {u1, u2, u3}
  Loops = {g1, g2, g3, g4}
  NoUid = NoUid
  NoLoop = NoLoop
INVARIANTS TypeOK OneLoopPerUser
PROPERTIES SteadyUsersKept LoopsFollowUsers
CHECK_DEADLOCK FALSE
