\* Two pushes, a cancel request and the reaper race the owner.
SPECIFICATION FairSpec
CONSTANTS
  owner = owner
  reaper = reaper
  c1 = c1
  p1 = p1
  p2 = p2
  Owner <- owner
  Reaper <- reaper
  Cancels <- OneCancel
  Pushes <- TwoPushes
  Reported <- SomeStates
  MaxFaults = 1
\* Every session may have done its work.
CHECK_DEADLOCK FALSE
INVARIANT OwnerSettles
PROPERTIES LatecomersNeverUndo ReapedForGood
