SPECIFICATION Spec
CONSTANTS
  Names = {x, y}
  NoName = NoName
  Ops <- AllOps
  WithNames <- AnyName
  MaxNamed = 4
SYMMETRY NameSymmetry
INVARIANTS
  DuplicatesReported
  
  
  
