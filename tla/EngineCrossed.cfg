CONSTANTS
  r1 = r1
  r2 = r2
  Requests = {r1, r2}
  Prompt <- PromptOf
  Budget <- BudgetOf
  Width = 3
  PrefillBatch = 2
  MaxSeqs = 2
  DeferMax = 1
  MaxOwed = 1
  Cost <- CostOfSheds
  MaxTrouble = 2
  MaxCloses = 0
SPECIFICATION SpecShared
CHECK_DEADLOCK FALSE
INVARIANT
  FailedIsTold
