SPECIFICATION FairSpec
CONSTANTS
  Trees <- MCTrees
  Options <- MCOptions
  Defaults <- MCDefaults
INVARIANTS
  OrderIsTotal
PROPERTY
  ImplementsCanonicalForm
