SPECIFICATION LiveSpec
CONSTANTS
  old = old
  new = new
  half = half
  Lists <- AllLists
  Saves <- SavedLists
  Partial <- HalfReads
  Broken = Broken
  NoList = NoList
  MaxStamp = 4
  EarlyEdits = TRUE
  ReadErrors = FALSE
PROPERTIES
  EveryChangePickedUp
CHECK_DEADLOCK FALSE
