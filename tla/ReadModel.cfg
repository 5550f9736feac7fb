\* Two servers project one object's events, with repeats, failures and a crash.
SPECIFICATION FairSpec
CONSTANTS
  s1 = s1
  s2 = s2
  name = name
  Servers = {s1, s2}
  Fields = {name}
  Object = Object
  Prefetch = 2
  Histories <- RaceHistories
  MaxWaiting = 1
  MaxTroubles = 1
CHECK_DEADLOCK FALSE
INVARIANTS
  NothingLost
  ConsumedShows
PROPERTIES
  RowNeverGoesBack
  EveryEventConsumed
