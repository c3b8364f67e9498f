CONSTANTS
  s1 = s1
  s2 = s2
  s3 = s3
  d1 = d1
  p1 = p1
  p2 = p2
  u1 = u1
  u2 = u2
  Sessions = {s1, s2}
  Direct = {}
  Blocked = {}
  Pods = {p1, p2}
  Users = {u1, u2}
  PodOf <- MCPodOf
  UserOf <- MCUserOf
  EPCap = 1
  AppCap = 9
  AppRate = 9
  UserRate = 9
  Queueing = FALSE
  MaxPolls = 0
  MaxFaults = 0
  MaxAdmin = 0
  MaxHours = 0
SPECIFICATION FairSpec
PROPERTY CrashedLeavesApp
CHECK_DEADLOCK FALSE
