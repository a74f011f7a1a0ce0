SPECIFICATION Spec
CONSTANTS
  Topic = {t1}
  CleanSession = FALSE
  MaxLinks = 1
  MaxCommands = 1
INVARIANT ConnectedAfterConnect
CHECK_DEADLOCK FALSE
