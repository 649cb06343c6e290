\* Two stations that come and go, a connector that reports, the polls of
\* two sessions; goroutines are fair.
SPECIFICATION FairFeedSpec
CONSTANTS
  k1 = k1
  k2 = k2
  LowerCase <- Names1
  Catalogue <- TwoStations
  Ids = {1}
  Statuses = {"free"}
  Blank = ""
  Unreported = Unreported
  Nothing = Nothing
  Pollers = {k1, k2}
  MaxWire = 1
INVARIANTS TypeOK OnePoller BaselineMatchesLive
PROPERTIES InventoryFollowed LoopStops
