\* Two threads confirm and reject two sets that change the same objects.
SPECIFICATION FairSpec
CONSTANTS
  None = None
  NewObject = NewObject
  Sets = {"s1", "s2"}
  Objects = {"a", "b"}
  Targets <- CrossedTargets
  Requests <- CrossedRequests
  Threads = {t1, t2}
  MaxOthers = 1
INVARIANTS
  TypeOK
  ItemsTellWhatIsWritten
  DecidedIsSettled
  AnswersTellWhatIsWritten
PROPERTIES
  WrittenWhileOpen
  EveryCommandAnswered
