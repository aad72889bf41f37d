SPECIFICATION Spec
CHECK_DEADLOCK FALSE
CONSTANTS
  Objects = {o1}
  Types = {}
  Requests = {r1}
  Slots = {0}
  Targets = {"Out", "Deleted"}
  Connections = {c1}
  QueueSize = 1
  MaxChanges = 1
  MaxMessages = 1
  MaxGetFailures = 1
  Events <- Messages
PROPERTY Converges
