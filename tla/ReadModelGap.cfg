\* A new object's field event overtakes its ObjectCreated; nothing fails.
SPECIFICATION Spec
CONSTANTS
  s1 = s1
  s2 = s2
  name = name
  Servers = {s1}
  Fields = {name}
  Object = Object
  Histories <- CreatedHistory
  Prefetch = 1
  MaxWaiting = 1
  MaxTroubles = 0
CHECK_DEADLOCK FALSE
INVARIANTS
  CaughtUp
