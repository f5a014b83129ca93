SPECIFICATION Spec
CONSTANTS
  None = None
  v1 = v1
  v2 = v2
  Windows = {v1}
  MaxSockets = 2
  MaxRequests = 2
  MaxExpired = 0
  MaxAttempts = 1
  MaxEvents = 0
  MaxCommands = 0
INVARIANTS OpenedInOrder
CHECK_DEADLOCK FALSE
