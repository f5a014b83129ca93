SPECIFICATION Spec
CONSTANTS
  None = None
  v1 = v1
  v2 = v2
  Windows = {v1}
  MaxSockets = 2
  MaxRequests = 2
  MaxExpired = 1
  MaxAttempts = 1
  MaxEvents = 1
  MaxCommands = 2
INVARIANTS SessionSurvives NobodyWaitsInVain OnlyTrusted
CHECK_DEADLOCK FALSE
