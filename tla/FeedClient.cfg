\* A status changes while a client connects and the session starts.
SPECIFICATION FairSpec
CONSTANTS
  k1 = k1
  i1 = i1
  LowerCase <- Names1
  Catalogue <- OneStation
  Ids = {1}
  Statuses = {"free", "busy"}
  Blank = ""
  Unreported = Unreported
  Nothing = Nothing
  Pollers = {k1}
  Snapshots = {i1}
  MaxWire = 1
PROPERTY StatusReachesClient
