SPECIFICATION ServiceSpec
CONSTANTS
  n1 = n1
  n2 = n2
  d0 = d0
  d1 = d1
  d2 = d2
  NoFeed = NoFeed
  Names = {n1, n2}
  Aging = {}
  Feeds <- MCFeeds
  Configs <- Changes
  RemoveFails = {n1}
  MaxItems = 1
  MaxHandles = 2
  MaxRefreshes = 0
  MaxLives = 2
  Readers = {r1}
  ListName = feeds
INVARIANTS
  PublishOrder
  ReconciledButLost
  NeverBack
PROPERTIES
  CrashLeaksLittle
SYMMETRY Symmetry
CHECK_DEADLOCK FALSE
