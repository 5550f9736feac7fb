\* Two versions of a template with two types, a workspace and an object.
SPECIFICATION Spec
CONSTANTS
  None = None
  Versions = {1, 2}
  Types = {1, 2}
  MaxLimit = 1
  Definitions <- RelaxableFields
  MaxEdits = 1
INVARIANTS
  TypeOK
  ObjectsStayValid
  RuntimeIsVersion
