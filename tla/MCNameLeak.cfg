SPECIFICATION Spec
CONSTANTS
  Names = {x, y}
  NoName = NoName
  Ops <- ScopingOps
  WithNames <- Nothing
  MaxNamed = 5
SYMMETRY NameSymmetry
INVARIANT CodeUsesNearestDeclaration
