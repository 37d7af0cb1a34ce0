CONSTANTS
  Procs = {p1, p2}
  Names = {a}
  Bytes = {x, y}
  Faults = TRUE
  MaxSent = 2
  MaxSize = 3
SPECIFICATION Spec
SYMMETRY Symmetry
INVARIANTS
  TypeOK
  
  DentriesKnow
PROPERTIES
  
  EchoHarmless
