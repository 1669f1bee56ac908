SPECIFICATION Spec
CONSTANTS
  Kinds = {"ia32", "pae", "amd64"}
  Fan = 2
  Frames = {0, 1, 2, 3}
  Images <- MCImages
  None = None
INVARIANTS
  TypeOK
  SameWay
PROPERTY
  ListsMapped
CHECK_DEADLOCK FALSE
