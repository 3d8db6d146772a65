SPECIFICATION Spec
CONSTANTS
  r1 = r1
  r2 = r2
  s1 = s1
  s2 = s2
  k1 = k1
  k2 = k2
  NoSession = NoSession
  NoRun = NoRun
  Runs = {r1, r2}
  Sessions = {s1, s2}
  CallKeys = {k1, k2}
  Executions = {1, 2}
  MaxAttempts = 1
  MaxObservations = 1
  ReportKinds <- AllKinds
  MaxSteps = 2
  MaxCalls = 1
  MaxBatch = 1
  Calls <- UnsafeOnly
  Disturbances = {"failure", "crash"}
  MaxFailures = 1
  MaxRestarts = 1
SYMMETRY Symmetry
CHECK_DEADLOCK FALSE
PROPERTY NoBlindReplay
