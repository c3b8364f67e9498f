\* A second client joins the workflow of the first, or finds it failing to load.
SPECIFICATION FairSpec
CONSTANTS
  c1 = c1
  c2 = c2
  Clients = {c1, c2}
  Transports <- MCTransports
  MaxRuns = 2
  MaxTokens = 1
  MaxTroubles = 1
\* Everybody may have left.
CHECK_DEADLOCK FALSE
PROPERTY AlwaysTold
