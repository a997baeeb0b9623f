CONSTANTS
  r1 = r1
  r2 = r2
  Requests = {r1, r2}
  Prompt <- PromptOf
  Budget <- BudgetOf
  Width = 3
  PrefillBatch = 2
  MaxSeqs = 2
  DeferMax = 1
  MaxOwed = 1
  Cost <- CostOf
  MaxTrouble = 3
  MaxCloses = 1
SPECIFICATION Spec
CHECK_DEADLOCK FALSE
INVARIANTS
  TypeOK
  OneRowEach
  ActiveIsHeld
  NoOrphanRow
  LedgerIsDelivered
  CancelHasACloser
PROPERTIES
  ImplementsReplyStream
  EveryRequestEnds
