SPECIFICATION Spec
CONSTANTS
  MaxItems = 6
  MaxDepth = 2
  MayFail = FALSE
  ForHeaders <- FewForHeaders
INVARIANTS
  DefaultReturnUnused
  UnreachableNeverRuns
  JumpsHaveTargets
  StrayJumpsReported
PROPERTY CompiledRunsAsWritten
