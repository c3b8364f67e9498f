\* The transcript over two messages; a lost attempt is the last one.
SPECIFICATION Spec
CONSTANTS
  a1 = a1
  a2 = a2
  c1 = c1
  u1 = u1
  Agents <- OneAgent
  Subs <- OneSub
  Unknown <- OneUnknown
  Costs <- One
  Budget = 9
  MaxIterations = 1
  MaxParallel = 1
  SummarizeEvery = 0
  CarryAt = 3
  MaxMessages = 9
  HistoryWindow = 1
  Attempts = 1
  MaxTurns = 2
  MaxLost = 2
  MaxDbErrors = 1
\* A conversation rests once no further message comes.
CHECK_DEADLOCK FALSE
INVARIANT PlannerInputPaired
