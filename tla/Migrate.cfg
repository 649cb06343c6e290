\* Two processes start on a new database or on one made by hand, and may crash.
SPECIFICATION Spec
CONSTANTS
  a = a
  b = b
  Procs = {a, b}
  ByHand = {0, 4, 5}
  MaxCrashes = 2
INVARIANTS TypeOK UpIsComplete RecordedInOrder
PROPERTY EventuallyUp
CHECK_DEADLOCK FALSE
