SPECIFICATION FairSpec
CONSTANTS
  Capacity = 2
  JoinsEarly = FALSE
  MaxTurns = 2
  MaxEvents = 4
  MaxResumes = 1
INVARIANTS SequenceIncreases
CHECK_DEADLOCK FALSE
