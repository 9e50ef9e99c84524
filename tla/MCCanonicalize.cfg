SPECIFICATION CallTwice
CONSTANTS
  Inputs <- MCInputs
  Scalars <- MCScalars
  Strings <- MCStrings
  BadScalars <- MCBadScalars
  BadStrings = {}
  Keys <- MCKeys
  NoKey = NoKey
  Decode <- MCDecode
  Fault <- MCFault
  Width <- MCWidth
  Options <- MCOptions
  Defaults <- MCDefaults
  KeyText <- MCKeyText
  ScalarKind <- MCScalarKind
  Literal <- MCLiteral
  PlainString <- MCPlainString
  PlainScalar <- MCPlainScalar
INVARIANTS
  ParsedIsSerializable
  OutputIsAccepted
  Idempotent
  OutputMeansInput
