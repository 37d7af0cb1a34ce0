CONSTANTS
  Procs = {p1}
  Names = {a}
  Bytes = {x, y}
  Faults = FALSE
  MaxSent = 2
  MaxSize = 2
SPECIFICATION Spec
INVARIANT FilesMirrored
