\* Fan-out, replies, cancellation, carry and budget over one message.
SPECIFICATION FairSpec
CONSTANTS
  a1 = a1
  a2 = a2
  c1 = c1
  u1 = u1
  Agents <- TwoAgents
  Subs <- NoSlots
  Unknown <- NoSlots
  Costs <- Two
  Budget = 5
  MaxIterations = 4
  MaxParallel = 2
  SummarizeEvery = 2
  CarryAt = 2
  MaxMessages = 9
  HistoryWindow = 1
  Attempts = 2
  MaxTurns = 1
  MaxLost = 1
  MaxDbErrors = 0
\* A conversation rests once no further message comes.
CHECK_DEADLOCK FALSE
INVARIANTS PlannerInputPaired RolesBySeq BudgetBound RunsSettled
PROPERTIES Terminates
