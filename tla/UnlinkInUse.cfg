CHECK_DEADLOCK FALSE
CONSTANTS
  Procs = {p1, p2}
  Bytes = {x, y}
  MaxFileSize = 2
  MinCapacity = 1
  MaxLen = 1
  MaxNames = 3
  MaxBuffers = 2
SPECIFICATION Spec
INVARIANT EntryLive
