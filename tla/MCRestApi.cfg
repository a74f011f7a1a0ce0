SPECIFICATION Spec
CONSTANTS
  User = {u1}
  Registered = {"Admin", "Viewer"}
  AccessExpiry = 0
  RefreshExpiry = 1
  MaxTime = 1
  Conn = {c1, c2}
  Pipelining = {c2}
  Threads = 2
INVARIANTS TypeOK LoggedOutNeverServed OnlyPipelinedIsLost
PROPERTIES FreshTokenWorks StopReturns
CHECK_DEADLOCK FALSE
