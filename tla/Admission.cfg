SPECIFICATION Spec
CONSTANTS
  r1 = r1
  r2 = r2
  s1 = s1
  s2 = s2
  k1 = k1
  k2 = k2
  NoSession = NoSession
  NoRun = NoRun
  Runs = {r1, r2}
  Sessions = {s1}
  CallKeys = {k1, k2}
  Executions = {1, 2, 3, 4}
  MaxAttempts = 1
  MaxObservations = 1
  ReportKinds <- AllKinds
  MaxSteps = 2
  MaxCalls = 2
  MaxBatch = 2
  Calls <- SafeOnly
  Disturbances = {"cancel", "crash"}
  MaxFailures = 0
  MaxRestarts = 1
SYMMETRY Symmetry
CHECK_DEADLOCK FALSE
INVARIANTS NeverRejected TaskStateCurrent ContextWellFormed HistoryFaithful
