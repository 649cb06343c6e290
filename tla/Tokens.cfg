\* Two fetchers and two configurations of a user that may be deleted.
SPECIFICATION FairSpec
CONSTANTS
  f1 = f1
  f2 = f2
  c1 = c1
  c2 = c2
  Fetchers = {f1, f2}
  Configs = {c1, c2}
  MaxAttempts = 2
  Life = 2
  Margin = 1
  NoRow = NoRow
  NoToken = NoToken
INVARIANTS TypeOK ConfigurationKept TokenOfRow
PROPERTIES LoginsEnd ListsAgain RenewalCatchesUp
CHECK_DEADLOCK FALSE
