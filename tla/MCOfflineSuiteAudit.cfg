SPECIFICATION Spec
CONSTANTS
  Dirs <- MCDirs
  Versions = {"v1", "v2"}
  Malformed = "malformed"
  Trees = {"c1", "c1 changed", "c2"}
  Commits = {"c1", "c2"}
  CommitOf <- MCCommitOf
  Aggregates = {"d1", "d2"}
  None = None
  FirstDir = "x86_64"
  SecondDir = "arm64"
  EarlierFiles <- MCNoEarlierFiles
  EarlierReports <- MCNoEarlierReports
  MaxEdits = 0
INVARIANTS
  PassConditionsMeanPassed
