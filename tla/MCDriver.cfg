SPECIFICATION Spec
CONSTANTS
  Sources <- Versions
  StageOf <- Refused
  NoFile = NoFile
INVARIANTS
  UpToDateMeansCurrent
PROPERTIES
  SuccessMeansWhole
  FailureLeavesNoFragment
