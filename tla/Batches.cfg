\* Batches that share objects and keys, with retries, failures and crashes.
SPECIFICATION FairSpec
CONSTANTS
  None = None
  NewObject = NewObject
  Objects = {"a", "b"}
  Requests <- CrossedBatches
  Threads = {t1, t2}
INVARIANTS
  NothingTwice
  AllOrNothing
  AnswersTellWhatIsWritten
PROPERTIES
  EveryBatchAnswered
