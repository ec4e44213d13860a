SPECIFICATION Spec
CONSTANT
  Inputs <- SomeInputs
INVARIANTS
  DeclarationsStartCalm
  NoErrorTwice
  AcceptedIsNested
PROPERTY
  ParsingEnds
