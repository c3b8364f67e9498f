\* One lost result of a planning turn.
SPECIFICATION Spec
CONSTANTS
  a1 = a1
  a2 = a2
  c1 = c1
  u1 = u1
  Agents <- OneAgent
  Subs <- NoSlots
  Unknown <- NoSlots
  Costs <- Two
  Budget = 3
  MaxIterations = 2
  MaxParallel = 2
  SummarizeEvery = 0
  CarryAt = 9
  MaxMessages = 9
  HistoryWindow = 1
  Attempts = 2
  MaxTurns = 1
  MaxLost = 1
  MaxDbErrors = 0
\* A conversation rests once no further message comes.
CHECK_DEADLOCK FALSE
INVARIANTS StoredAsPlanned
