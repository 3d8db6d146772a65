SPECIFICATION ObserverSpec
CONSTANTS
  Runs = {r1, r2}
  NoRun = NoRun
  Clients = {"browser", "console"}
  PageSize = 1
  MaxEvents = 2
  MaxStarts = 3
CHECK_DEADLOCK FALSE
INVARIANTS ShownInOrder HistoryComplete StatusWatched
PROPERTY WatchEnds
