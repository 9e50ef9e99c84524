SPECIFICATION Convert
CONSTANTS
  Inputs <- MCInputs
  maxNumberChars = 7
  Finite <- MCFinite
  Nonzero <- MCNonzero
  MantBits = 4
  ExpBits = 6
  WordBits = 12
  ExactPower = 10
  DivisiblePower = 4
  FixedDigits = 7
  SmallZeros = 6
  pow10Table <- MCPow10Table
  ParseFloat <- MCParseFloat
INVARIANTS
  TakesLongest
  FailsFast
  RoundTrips
  NoTrailingZeros
PROPERTY
  ImplementsToString
