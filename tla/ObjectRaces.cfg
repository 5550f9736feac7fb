\* Two threads race for two objects, their fields and their unique values.
SPECIFICATION FairSpec
CONSTANTS
  o1 = o1
  o2 = o2
  name = name
  cost = cost
  x = x
  y = y
  v1 = v1
  v2 = v2
  k1 = k1
  k2 = k2
  k3 = k3
  k4 = k4
  t1 = t1
  t2 = t2
  Null = Null
  Absent = Absent
  Threads = {t1, t2}
  Objects = {o1, o2}
  Fields = {name, cost}
  RequiredFields = {name}
  UniqueFields = {name, cost}
  Text = {x, y}
  Value = {v1, v2}
  Jsonb <- JsonbXY
  Keys = {k1, k2, k3, k4}
  Commands <- RaceCommands
INVARIANTS
  CheckedStaysValid
  EventsTellTheState
  RepliesAreHonest
  UniqueValues
PROPERTIES
  LedgerSpec
  EveryDeliveryAnswered
