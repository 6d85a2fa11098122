SPECIFICATION LiveSpec
CONSTANTS
  u1 = u1
  u2 = u2
  bad = bad
  None = None
  NoURL = NoURL
  Keys = {u1, u2, bad}
  Bad = {bad}
  Callers = {c1, c2}
  Entries <- AllEntries
  Large <- HugeBody
  Part = Part
  Leads <- SomeLeads
  Fails <- SomeFails
  Links <- FourLinks
INVARIANTS
  EntriesEarned
  OutcomeHonest
  RightArticle
PROPERTIES
  
  PublishedWhole
  PublishedInTheEnd
