SPECIFICATION Spec
CONSTANTS
  Calls = {c1, c2, c3}
  Sessions = {s1, s2}
  Turns = {t1, t2}
  NoCall = NoCall
  NoSession = NoSession
  NoTurn = NoTurn
  HasStorage = TRUE
  CallersMayDrop = TRUE
SYMMETRY Symmetry
INVARIANTS
  TypeOK
  SingleLiveTurn
  LiveTurnInSlot
  QuietClose
  ExclusiveClose
  PluginsOutliveService
PROPERTIES
  SlotOwnership
  ImplementsSingleSession
