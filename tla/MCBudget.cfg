SPECIFICATION Spec
CONSTANTS
  MaxCalls = 4  MaxRequests = 8  MaxTokens = 3
  MaxRecords = 4  MaxDepth = 2  FanIn = 3  MergeCost = 1  FinalCost = 1
  NoUsage = NoUsage
  MaxBatches = 2  MaxUsage = 2  MaxRuns = 2
INVARIANTS CountersMatch WithinBudget CompletionAffordable
PROPERTY StopStands
CONSTRAINT Small
CHECK_DEADLOCK FALSE
