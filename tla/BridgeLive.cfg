SPECIFICATION FairSpec
CONSTANTS
  None = None
  v1 = v1
  v2 = v2
  Windows = {v1, v2}
  MaxSockets = 2
  MaxRequests = 0
  MaxExpired = 1
  MaxAttempts = 1
  MaxEvents = 1
  MaxCommands = 2
INVARIANTS ErrorIsReal
PROPERTIES StaysConnected
CHECK_DEADLOCK FALSE
