SPECIFICATION Spec
CHECK_DEADLOCK FALSE
CONSTANTS
  Objects = {o1}
  Types = {t1}
  Requests = {r1}
  Slots = {0}
  Targets = {"Out", "Deleted"}
  Connections = {c1}
  QueueSize = 1
  MaxChanges = 2
  MaxMessages = 2
  MaxGetFailures = 0
  Events <- Messages
PROPERTY Converges
