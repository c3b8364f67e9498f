\* A cancel request races the owner.
SPECIFICATION Spec
CONSTANTS
  owner = owner
  reaper = reaper
  c1 = c1
  p1 = p1
  p2 = p2
  Owner <- owner
  Reaper <- reaper
  Cancels <- OneCancel
  Pushes <- NoPush
  Reported <- SomeStates
  MaxFaults = 0
\* Every session may have done its work.
CHECK_DEADLOCK FALSE
PROPERTIES Guarded
