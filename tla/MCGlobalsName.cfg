SPECIFICATION Spec
CONSTANTS
  MaxItems = 3
  MaxUses = 2
INVARIANT GlobalsKeepTheirName
