SPECIFICATION Spec
CONSTANTS
  MaxItems = 3
  MaxUses = 2
INVARIANTS
  TypeOK
  OperandsResolve
  InitializersPrinted
  EveryNameDefinedOnce
