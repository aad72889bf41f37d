SPECIFICATION Spec
SYMMETRY Interchangeable
CHECK_DEADLOCK FALSE
CONSTANTS
  Objects = {o1, o2}
  Types = {}
  Requests = {r1}
  Slots = {0}
  Targets = {"Out", "Deleted"}
  Connections = {c1, c2}
  QueueSize = 1
  MaxChanges = 1
  MaxMessages = 2
  MaxGetFailures = 1
  Events <- Messages
INVARIANTS ReplicaTypeOK Unbroken NeverInvented RefreshCoversGap
