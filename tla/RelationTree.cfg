\* A hierarchy changed by one command at a time.
SPECIFICATION Spec
CONSTANTS
  t1 = t1
  t2 = t2
  Absent = Absent
  Threads = {t1}
  Objects = {1, 2, 3, 4}
  Relations = {11, 12, 13}
  OneToMany = TRUE
  Hierarchical = TRUE
  Commands <- TreeCommands
INVARIANTS
  HierarchyKept
