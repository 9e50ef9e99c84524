SPECIFICATION FairSpec
CONSTANTS
  matrix <- MCMatrix
  profile <- MCProfile
  Channels <- MCChannels
  Digests <- MCDigests
  Reports <- MCReports
INVARIANTS
  SuccessIsComplete
  SuccessRanEverything
  CleanupFollowsReplay
PROPERTIES
  ReplaysAreCold
  ReturnsUnlessPipeHeld
