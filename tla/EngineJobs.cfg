CONSTANTS
  j1 = j1
  j2 = j2
  c1 = c1
  None = None
  Jobs = {j1, j2}
  Chats = {c1}
  Steps <- StepsOf
  Deadlines = {j2}
  MaxSeqs = 1
SPECIFICATION Spec
CHECK_DEADLOCK FALSE
INVARIANTS
  TypeOK
  AnswerEndsJob
PROPERTIES
  EveryCallerEnds
