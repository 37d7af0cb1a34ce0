CONSTANTS
  Bytes <- ByteSet
  UrlSize = 12
  ResponseSize = 24
  Radix = 3
  MaxLen = 6
SPECIFICATION Spec
INVARIANTS
  TypeOK
  ReadAllOrNothing
  StatTrue
  SentIsPrefix
  EncodedFits
