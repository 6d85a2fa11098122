SPECIFICATION LiveSpec
CONSTANTS
  old = old
  new = new
  half = half
  Lists <- AllLists
  Saves <- SavedLists
  Partial <- HalfReads
  Broken = Broken
  NoList = NoList
  MaxStamp = 6
  EarlyEdits = TRUE
  ReadErrors = TRUE
INVARIANTS
  TypeOK
  UpToDate
  OneReadPerWrite
PROPERTIES
  ChangesPickedUp
CHECK_DEADLOCK FALSE
