CONSTANTS
  Cases <- MCCases
  IntBits = 8
SPECIFICATION Spec
INVARIANTS
  TextIsKept
  NumberingIsNotMixed
  CheckedStringsFormat
  SpecsAreRead
