SPECIFICATION Spec
CONSTANTS
  c1 = c1
  agent = agent
  None = None
  Calls = {c1}
  Agents = {agent}
  Requests <- MCRequests
  Chains <- MCChains
  Chunks = 2
  MaxAttempts = 1
  Budget = 0
INVARIANTS RecordedWhole
CHECK_DEADLOCK FALSE
