SPECIFICATION ManagerSpec
CONSTANTS
  n1 = n1
  n2 = n2
  d1 = d1
  d2 = d2
  NoFeed = NoFeed
  Names = {n1, n2}
  Aging = {}
  Feeds <- MCFeeds
  Configs <- Edits
  RemoveFails = {n1}
  MaxItems = 1
  MaxHandles = 3
  MaxRefreshes = 0
INVARIANTS
  ManagerTypeOK
  EveryWorkerOwned
  Reconciled
  UnchangedKeptRunning
  DownIsQuiet
PROPERTIES
  NoResurrection
  WorkerSpec
CHECK_DEADLOCK FALSE
