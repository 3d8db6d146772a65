SPECIFICATION Spec
CONSTANTS
  r1 = r1
  r2 = r2
  s1 = s1
  s2 = s2
  k1 = k1
  k2 = k2
  NoSession = NoSession
  NoRun = NoRun
  Runs = {r1}
  Sessions = {s1}
  CallKeys = {k1, k2}
  Executions = {1}
  MaxAttempts = 1
  MaxObservations = 1
  ReportKinds <- AllKinds
  MaxSteps = 1
  MaxCalls = 0
  MaxBatch = 0
  Calls <- UnsafeOnly
  Disturbances = {"shutdown", "force"}
  MaxFailures = 0
  MaxRestarts = 0
CHECK_DEADLOCK FALSE
INVARIANT UsageMatchesLog
