SPECIFICATION Spec
CONSTANTS
  User = {u1}
  Registered = {"Admin", "Operator", "Viewer"}
  AccessExpiry = 0
  RefreshExpiry = 1
  MaxTime = 1
  Conn = {c1}
  Pipelining = {}
  Threads = 1
PROPERTIES RightsAreEnough
CHECK_DEADLOCK FALSE
