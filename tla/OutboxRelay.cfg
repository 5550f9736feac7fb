\* Two servers drain the events of two aggregates.
SPECIFICATION FairSpec
CONSTANTS
  a = a
  b = b
  r1 = r1
  r2 = r2
  Aggregates = {a, b}
  Relays = {r1, r2}
  BatchSize = 2
  MaxRetries = 1
  MaxEvents = 2
  MaxLosses = 2
INVARIANTS
  NothingOvertaken
  PublishedWasSent
  DuplicatesExplained
PROPERTIES
  EveryEventLeaves
CHECK_DEADLOCK FALSE
