\* Every thread may be beyond a use of a freed link target.
CHECK_DEADLOCK FALSE
CONSTANTS
  Procs = {p1, p2}
  Mounts = {m1}
  Names = {a, b}
  MaxEntries = 5
  MaxIno = 1003
SPECIFICATION Spec
SYMMETRY Symmetry
INVARIANTS
  TypeOK
  UniqueNames
  WellFormedTree
  InoDiscipline
  LinkCounts
  DirLinkCounts
  LivePointers
  DeleteIsSafe
PROPERTIES
  NumbersFresh
  ImplementsNamespace
