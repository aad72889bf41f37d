SPECIFICATION Spec
CHECK_DEADLOCK FALSE
CONSTANTS
  o1 = o1
  o2 = o2
  Objects <- TwoObjects
  NeedsSignature = {o1}
  Users = {u1}
  MaxTags = 2
  Lists <- SomeLists
  MaxClicks = 2
  ElsewhereTo = {"InStock", "Deleted"}
  MaxElsewhere = 1
  MaxLostAnswers = 1
  ItemPrefixes = {"A", "B", "A&B"}
  ReceivedAs <- CutAtAmpersand
  BatchSize = 1
  MaxNumber = 4
  MaxLookups = 2
  MaxTyped = 2
  MaxBatches = 2
  MaxLostBatches = 1
  MaxDrafts = 3
  MaxSent = 3
  MaxLosses = 1
  Ids = {"i1", "i2"}
  MaxEvents = 3
  MaxVersions = 2
INVARIANTS TypeOK SentAsNamed ReportIsTrue UnsignedRefusalIsStale SendingIsFlow  OneRequest AcceptedOnce HalvesAgree ShowsSelected SelectedIsCurrent
PROPERTIES KeptUntilAccepted FlagsFreed JumpsOnlyOnChange
