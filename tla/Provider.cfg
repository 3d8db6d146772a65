SPECIFICATION FairProviderSpec
CONSTANTS
  MaxRequests = 2
  Deadlines = {0, 1, 2, 4, 7, NoDeadline}
  NoDeadline = NoDeadline
  RequestTimeout = 3
  RetryDelay = 1
  Hints = {0, 2, 4, NoHint}
  NoHint = NoHint
CHECK_DEADLOCK FALSE
INVARIANTS ProviderTypeOK WithinDeadline
PROPERTIES RequestsJustified ImplementsExchange GenerateEnds
