SPECIFICATION Spec
CHECK_DEADLOCK FALSE
CONSTANTS
  Vars <- VarNames
  SemOf <- VarTypes
  IrOf <- VarIrTypes
  Funcs <- FuncNames
  ParamsOf <- FuncParams
  ResultOf <- FuncResults
  Declared <- DeclaredTypes
  StringSize = 2
  MaxNodes = 5
  MaxCalls = 2
  MaxDepth = 3
INVARIANTS
  TypesAgree
  LoweredUnlessUnsupported
  CallsAsWritten
  WellTypedUnlessNoted
