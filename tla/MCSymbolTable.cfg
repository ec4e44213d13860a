SPECIFICATION Spec
CONSTANTS
  Names = {"i", "j", "k"}
  Symbols = {variable, function}
  NULL = NULL
  Buckets = {0, 1, 2}
  Hash <- SomeHash
  MaxScopes = 2
INVARIANTS
  TypeOK
  WalkMeetsEachNameOnce
PROPERTY
  Implements
