SPECIFICATION Spec
CONSTANTS
  mine = mine
  other = other
  Namespaces <- MCNamespaces
  Mine = mine
  MaxItems = 2
  MaxMemories = 4
  MaxOperations = 2
  MaxSeq = 6
  MaxWrites = 1
  MaxFaults = 1
INVARIANTS
  TypeOK
  NothingForgotten
  CopiesBounded
  DeletedStaysDeleted
  TurnMemoriesFit
PROPERTIES
  NamespaceIsolation
