SPECIFICATION FairClientSpec
CONSTANTS
  Callers = {c1, c2}
  RetrySafe = {c1}
  Refreshers = {refresher}
  Opener = opener
  MaxAttempts = 2
  MaxInFlight = 1
  MaxConnections = 5
CHECK_DEADLOCK FALSE
INVARIANTS ClientTypeOK OneConnection ClosedForGood Reconnects
PROPERTIES DispatchedValidated CallersEnd CloseCompletes
