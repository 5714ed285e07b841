SPECIFICATION FairSpec
CONSTANTS
  Capacity = 2
  JoinsEarly = TRUE
  MaxTurns = 2
  MaxEvents = 4
  MaxResumes = 0
PROPERTIES JoinGetsOutcome
CHECK_DEADLOCK FALSE
