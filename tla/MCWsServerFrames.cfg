SPECIFICATION Spec
CONSTANTS
  Conn = {c1}
  Topic = {t1}
  MaxMsg = 3
  SockCap = 1
INVARIANT FramesIntact
CHECK_DEADLOCK FALSE
