SPECIFICATION Spec
CONSTANTS
  MaxToolCalls = 1
  CheckpointInterval = 2
  MaxCalls = 1
  MaxTurns = 2
  MaxFaults = 1
  MaxResumes = 1
  MaxCompactions = 1
INVARIANTS LedgerIsStored ViewIsRebuild RequestSeesTurn CheckpointCovers
