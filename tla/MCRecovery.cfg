CONSTANTS
  Runs = {r1, r2}
  PageCount = 2
  Texts = {0, 1}
  MaxCalls = 1
  MaxCrashes = 1
  None = None
  Order <- MCOrder
  Format <- MCFormat
  Base <- MCBase
  Responses <- MCResponses
SPECIFICATION FairSpec
INVARIANTS DecisionIsFirstComplete ExportIsWhole NoDeadEnd SearchOrderIsComplete
PROPERTIES RecoveryEnds
