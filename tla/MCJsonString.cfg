SPECIFICATION Spec
CONSTANTS
  Inputs <- MCInputs
  maxStringBytes = 5
  MaxPieces = 3
INVARIANTS
  AcceptsStrings
  ErrorLocated
  BoundJustified
  WrittenReadsBack
