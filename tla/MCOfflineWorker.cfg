SPECIFICATION Spec
CONSTANTS
  Sources <- MCSources
  Replacements <- MCReplacements
  Outputs <- MCOutputs
  Diagnostics <- MCDiagnostics
  ExitCodes <- MCExitCodes
  Classes <- MCClasses
  None = None
INVARIANTS
  CreatedIsAccepted
  RunsOnlyIntact
  EvidenceSpellsVectors
