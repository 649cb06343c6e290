\* Two connections of a session; traffic may stop on either.
SPECIFICATION FairSpec
CONSTANTS
  r1 = r1
  r2 = r2
  r3 = r3
  r4 = r4
  r5 = r5
  v1 = v1
  v2 = v2
  NoUid = NoUid
  Never = Never
  Uids = {v1}
  Requests = {r1, r2, r3, r4}
  KindOf <- Connected
  Idle = 1
PROPERTY IdleConnectionsClose
CHECK_DEADLOCK FALSE
