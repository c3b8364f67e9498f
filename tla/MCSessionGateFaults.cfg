CONSTANTS
  s1 = s1
  s2 = s2
  s3 = s3
  d1 = d1
  p1 = p1
  p2 = p2
  u1 = u1
  u2 = u2
  Sessions = {s1, s2}
  Direct = {}
  Blocked = {s1}
  Pods = {p1, p2}
  Users = {u1, u2}
  PodOf <- MCPodOf
  UserOf <- MCUserOf
  EPCap = 1
  AppCap = 1
  AppRate = 9
  UserRate = 2
  Queueing = TRUE
  MaxPolls = 1
  MaxFaults = 1
  MaxAdmin = 1
  MaxHours = 1
SPECIFICATION FairSpec
PROPERTY Settles
PROPERTY DeliveredTerminates
CHECK_DEADLOCK FALSE
