SPECIFICATION SessionSpec
CHECK_DEADLOCK FALSE
CONSTANTS
  Tabs = {"t1", "t2"}
  Events = {"e1", "e2"}
  CurrentEvents = {"e1", "no event"}
  Retries = 1
  MaxChanges = 2
  MaxFaults = 1
INVARIANTS SessionTypeOK ShownIsSession FaultsEndNothing
PROPERTIES ShownAgain
