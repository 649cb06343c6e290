\* A connection lives through a deletion and a second configuration.
SPECIFICATION Spec
CONSTANTS
  r1 = r1
  r2 = r2
  r3 = r3
  r4 = r4
  r5 = r5
  v1 = v1
  v2 = v2
  NoUid = NoUid
  Never = Never
  Uids = {v1, v2}
  Requests = {r1, r2, r3, r4, r5}
  KindOf <- Everything
  Idle = 1
INVARIANTS TypeOK RowsConsistent
PROPERTY IsUserLife
CHECK_DEADLOCK FALSE
