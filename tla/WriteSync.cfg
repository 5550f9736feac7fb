\* Edits, creations, deletions and relations of one user, with another user.
SPECIFICATION FairSpec
CONSTANTS
  None = None
  Servers = {"s1", "s2"}
  Temps = {"n1"}
  Links = {"l1"}
  TempLinks = {"m1"}
  Fields = {"f"}
  Values = {0, 1, 2, 3, 10}
  Loaded = {"s1"}
  Sessions <- SyncSessions
  OtherValues = {10}
INVARIANTS
  TypeOK
  NewIdsAreSent
  NoTempIsLeft
  SyncedIsShown
  DeletedStaysGone
PROPERTIES
  EveryWriteEnds
CHECK_DEADLOCK FALSE
