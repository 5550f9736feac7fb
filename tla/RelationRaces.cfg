\* Relations made, moved and ended while their objects go away.
SPECIFICATION FairSpec
CONSTANTS
  t1 = t1
  t2 = t2
  Absent = Absent
  Threads = {t1, t2}
  Objects = {1, 2, 3}
  Relations = {11, 12}
  OneToMany = TRUE
  Hierarchical = FALSE
  Commands <- RaceCommands
INVARIANTS
  TypeOK
  ValidatedHolds
  DecidedStaysValid
  
PROPERTIES
  ActsOnGraph
  EveryCommandEnds
