SPECIFICATION Spec
CONSTANTS
  Chars <- AllChars
  MaxLength = 4
INVARIANTS
  NothingLost
  LongestMatch
  PositionsTrue
PROPERTY ScanningEnds
