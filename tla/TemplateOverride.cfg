\* An upgrade puts a field over one an object has a value of.
SPECIFICATION Spec
CONSTANTS
  None = None
  Versions = {1, 2}
  Types = {1, 2}
  MaxLimit = 1
  Definitions <- RelaxableFields
  MaxEdits = 1
INVARIANTS
  ChangesAreStored
