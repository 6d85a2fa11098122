SPECIFICATION LiveSpec
CONSTANTS
  old = old
  new = new
  half = half
  Lists <- AllLists
  Saves <- SavedLists
  Partial <- HalfReads
  Broken = Broken
  NoList = NoList
  MaxStamp = 5
  EarlyEdits = FALSE
  ReadErrors = FALSE
INVARIANTS
  OnlySavedApplied
CHECK_DEADLOCK FALSE
