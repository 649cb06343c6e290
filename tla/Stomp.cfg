\* Two subscriptions and three events, alone or two in a message.
SPECIFICATION FairSpec
CONSTANTS
  s1 = s1
  s2 = s2
  Stations = {s1, s2}
  MaxSent = 3
  MaxInbox = 2
INVARIANTS TypeOK OneWriter
PROPERTIES ConsumerReturns GoroutinesEnd IsEventStream
CHECK_DEADLOCK FALSE
