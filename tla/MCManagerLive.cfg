SPECIFICATION LiveSpec
CONSTANTS
  n1 = n1
  n2 = n2
  d1 = d1
  d2 = d2
  NoFeed = NoFeed
  Names = {n1, n2}
  Aging = {n1}
  Feeds <- MCFeeds
  Configs <- Growth
  RemoveFails = {}
  MaxItems = 1
  MaxHandles = 2
  MaxRefreshes = 0
PROPERTIES
  SignalEnds
  AddedIsRefreshed
CHECK_DEADLOCK FALSE
