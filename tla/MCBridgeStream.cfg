\* Two clients share a conversation; a failure, a stop or a second run.
SPECIFICATION FairSpec
CONSTANTS
  c1 = c1
  c2 = c2
  Clients = {c1, c2}
  Transports <- MCTransports
  MaxRuns = 2
  MaxTokens = 1
  MaxTroubles = 1
\* Everybody may have left.
CHECK_DEADLOCK FALSE
INVARIANTS DoneIsTrue NoWastedRun
PROPERTIES SeesAnEventStream StreamingEnds
