SPECIFICATION FairSpec
CONSTANTS
  MaxShort = 4
  Limits <- MCLimits
  Inputs <- MCInputs
  Scalars <- MCScalars
  Strings <- MCStrings
  BadScalars <- MCBadScalars
  BadStrings <- MCBadStrings
  Keys <- MCKeys
  NoKey = NoKey
  Decode <- MCDecode
  Fault <- MCFault
  Width <- MCWidth
  Options <- MCOptions
  Defaults <- MCDefaults
INVARIANTS
  UniqueKeys
  DepthBalanced
  ValueCountExact
  ChildrenBounded
  TreeSpellsInput
  GrammarErrorLocated
  BoundErrorJustified
  DuplicateLocated
PROPERTY
  ImplementsDomain
