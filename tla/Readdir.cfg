CONSTANTS
  Readers = {r1}
  Names = {a, b, c, d}
  MaxRoom = 3
  MaxCount = 3
SPECIFICATION Spec
INVARIANTS
  TypeOK
  WalkStandsOnLive
  MissedAtMostRemoved
  RepeatedAtMostAdded
PROPERTY ListingEnds
