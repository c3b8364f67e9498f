SPECIFICATION Spec
CONSTANTS
  c1 = c1
  agent = agent
  None = None
  Calls = {c1}
  Agents = {agent}
  Requests <- MCRequests
  Chains <- MCChains
  Chunks = 2
  MaxAttempts = 3
  Budget = 2
INVARIANTS PolledWhole RowsAgree GuardHeld ActiveMeansRunning WiringHolds
PROPERTIES CallsEnd
CHECK_DEADLOCK FALSE
