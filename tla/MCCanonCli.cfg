SPECIFICATION FairSpec
CONSTANTS
  ArgLists <- MCArgLists
  Paths <- MCPaths
  Streams <- MCStreams
  Texts <- MCTexts
  Judgement <- MCJudgement
  Canonical <- MCCanonical
  MaxInput <- MCMaxInput
INVARIANTS
  SuccessIsComplete
  RejectionIsReported
  InternalMeansEnvironment
  OversizeIsBound
  LostOutputIsInternal
PROPERTIES
  Terminates
