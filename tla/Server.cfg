\* The table may be empty and the bound on rows reached.
CHECK_DEADLOCK FALSE
CONSTANTS
  Clients = {c1, c2}
  Names = {a, b}
  Bytes = {x}
  OneMount = TRUE
  MaxDepth = 2
  MaxSize = 2
  MaxRows = 3
SPECIFICATION Spec
SYMMETRY Symmetry
INVARIANTS
  TypeOK
  TreeComplete
  DirLinks
  KeysDiffer
