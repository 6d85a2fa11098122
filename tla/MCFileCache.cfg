SPECIFICATION LiveSpec
CONSTANTS
  Keys = {k1, k2}
  Fetchers = {p1, p2}
  Janitor = Janitor
  NoKey = NoKey
  MaxSets = 2
  MaxCrashes = 1
INVARIANTS
  HitWasFresh
  NoStrayTemp
PROPERTIES
  PurgeIsComplete
  LossNeedsRace
  ImplementsCache
  OrphansAreSwept
CHECK_DEADLOCK FALSE
