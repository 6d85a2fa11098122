SPECIFICATION LiveSpec
CONSTANTS
  Writers = {w1, w2}
  Scrapers = {s1}
  Shared = Shared
  Nobody = Nobody
  MaxRounds = 2
INVARIANTS
  ReportFits
PROPERTIES
  RecordReturns
CHECK_DEADLOCK FALSE
