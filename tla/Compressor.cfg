SPECIFICATION Spec
CONSTANTS
  Pieces <- MCPieces
  MaxPieces = 4
  Ends = 1
  MaxHits = 1
  MaxFrames = 1
  MaxTokens = 2
  HeaderBytes = 3
  Spelling <- MCSpelling
INVARIANT RedactionIsExact
 
INVARIANT LeavesOutTheLeast
INVARIANT SignalsPointHome
INVARIANT SummaryFits
CHECK_DEADLOCK FALSE
