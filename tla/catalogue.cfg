SPECIFICATION Spec
CHECK_DEADLOCK FALSE
CONSTANTS
  n1 = n1
  n2 = n2
  n3 = n3
  n4 = n4
  Ids <- ThreeIds
  Nodes <- FourNodes
  FirstTables <- Tables
  MaxEdits = 2
  MaxFaults = 1
INVARIANTS TypeOK QuietIsFresh KeepsForest ScopeInherited CopiesAreForests TakenApart
PROPERTIES EventuallyFresh WorkShrinks TreesEnd
