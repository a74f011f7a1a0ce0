SPECIFICATION FairSpec
CONSTANTS
  Conn = {c1}
  Topic = {t1, t2}
  MaxMsg = 3
  SockCap = 1
INVARIANTS TypeOK SingleWriter NoLostWakeup TablesHaveReader
PROPERTIES NothingQueuedAfterRemoval ChannelSpec QueuedIsSent BrokenIsForgotten
CHECK_DEADLOCK FALSE
