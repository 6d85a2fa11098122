SPECIFICATION WorkerSpec
CONSTANTS
  n1 = n1
  d1 = d1
  NoFeed = NoFeed
  Names = {n1}
  Aging = {n1}
  Feeds <- OneFeed
  MaxItems = 1
  MaxHandles = 3
  MaxRefreshes = 2
INVARIANTS
  StatusMatchesDisk
  NoLeftoverTemp
  EveryRefreshCounted
PROPERTIES
  EmptyOnlyWhenStale
  NoOverwriteByOlder
CHECK_DEADLOCK FALSE
