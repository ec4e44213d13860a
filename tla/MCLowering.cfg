SPECIFICATION LoweringSpec
CONSTANTS
  MaxItems = 6
  MayFail = TRUE
  ForHeaders <- FewForHeaders
INVARIANTS
  LoweringTypeOK
  BranchTargetsExist
  EveryBlockTerminated
  LoweringInd
  LoopTargetsMatchLoops
