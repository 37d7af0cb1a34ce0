CONSTANTS
  Names = {a, b}
  MaxEntries = 4
  MaxIno = 1010
  LinkValues = 16
SYMMETRY Symmetry
SPECIFICATION Spec
INVARIANTS
  TypeOK
  NothingLeft
  DentriesLive
  CountsAgree
  UnlinksCovered
