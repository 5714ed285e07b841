SPECIFICATION FairSpec
CONSTANTS
  MaxToolCalls = 1
  CheckpointInterval = 1
  MaxCalls = 3
  MaxTurns = 1
  MaxFaults = 1
  MaxResumes = 1
  MaxCompactions = 2
INVARIANTS TypeOK CallsAnswered LastEventMatchesOutcome AnswerIsKept ToolLimit
PROPERTIES EveryTurnEnds
