SPECIFICATION Spec
CONSTANTS
  Calls = {c1, c2}
  Sessions = {s1, s2}
  Turns = {t1, t2}
  NoCall = NoCall
  NoSession = NoSession
  NoTurn = NoTurn
  HasStorage = TRUE
  CallersMayDrop = FALSE
SYMMETRY Symmetry
PROPERTIES
  ActiveSessionNotDeleted
