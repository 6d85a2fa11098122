SPECIFICATION SimplifySpec
CONSTANTS
  Tags <- MCTags
  Articles <- MCArticles
  MaxDepth = 5
INVARIANTS
  ContentsKept
  TidyInTheEnd
PROPERTIES
  LoopEnds
CHECK_DEADLOCK FALSE
