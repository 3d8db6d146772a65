SPECIFICATION StoreSpec
CONSTANTS
  r1 = r1
  r2 = r2
  s1 = s1
  k1 = k1
  NoSession = NoSession
  NoRun = NoRun
  Runs = {r1, r2}
  Sessions = {s1}
  CallKeys = {k1}
  Executions = {1}
  MaxAttempts = 1
  MaxObservations = 1
  ReportKinds = {"run_started", "run_cancel_requested",
                 "tool_execution_completed", "run_completed"}
  MaxEvents = 6
  MaxMessages = 3
  MaxRows = 2
CONSTRAINT Bounded
SYMMETRY Symmetry
INVARIANTS TypeOK OneActiveRun EndedOnce CancelWins OneUnresolved LogClosed
PROPERTIES EndedRowFrozen ImplementsLedger
