\* Two agents, one asks while the other works.
SPECIFICATION Spec
CONSTANTS
  a1 = a1
  a2 = a2
  c1 = c1
  u1 = u1
  Agents <- TwoAgents
  Subs <- NoSlots
  Unknown <- NoSlots
  Costs <- Two
  Budget = 3
  MaxIterations = 2
  MaxParallel = 2
  SummarizeEvery = 0
  CarryAt = 9
  MaxMessages = 9
  HistoryWindow = 1
  Attempts = 1
  MaxTurns = 1
  MaxLost = 0
  MaxDbErrors = 0
\* A conversation rests once no further message comes.
CHECK_DEADLOCK FALSE
INVARIANTS AnswerUnblocks
