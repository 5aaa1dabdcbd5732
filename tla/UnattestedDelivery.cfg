SPECIFICATION Spec

CONSTANTS
  MaxLines = 1
  MaxWrites = 1
  MaxOutput = 1
  MaxText = 2

INVARIANT DeliveredReachesAgent
