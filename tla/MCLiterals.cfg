SPECIFICATION Spec
CONSTANTS
  Characters <- SomeCharacters
  MaxElements = 4
  Digits <- SomeDigits
  MaxWhole = 4
  MaxFraction = 2
  Decimals = 1
  IntMax = 127
  LongMax = 2047
  Mantissa = 7
CHECK_DEADLOCK FALSE
INVARIANTS
  TextReadsBack
  SizesDifferAsExplained
  IntegersPrinted
  FloatsSurvive
