SPECIFICATION Spec
CONSTANTS
  r1 = r1
  r2 = r2
  s1 = s1
  s2 = s2
  k1 = k1
  k2 = k2
  NoSession = NoSession
  NoRun = NoRun
  Runs = {r1}
  Sessions = {s1}
  CallKeys = {k1, k2}
  Executions = {1, 2}
  MaxAttempts = 2
  MaxObservations = 1
  ReportKinds <- AllKinds
  MaxSteps = 2
  MaxCalls = 1
  MaxBatch = 1
  Calls <- SafeOnly
  Disturbances = {"cancel", "failure", "crash"}
  MaxFailures = 0
  MaxRestarts = 1
CHECK_DEADLOCK FALSE
INVARIANT MarkerHonest
