SPECIFICATION Spec

CONSTANTS
  MaxLines = 2
  MaxWrites = 2
  MaxOutput = 1
  MaxText = 2

INVARIANTS
  McpTypeOK
  RepliesInOrder
  ReceiptsAreTrue

PROPERTY EveryRequestAnswered
