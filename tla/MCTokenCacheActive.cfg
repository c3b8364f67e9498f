\* Redis and the authentication service answer, and the user is active.
SPECIFICATION TokenSpec
CONSTANTS
  p1 = p1
  p2 = p2
  l1 = l1
  l2 = l2
  Pods <- TwoPods
  Lookups <- TwoLookups
  Tokens = {t1}
  TTL = 2
  UserTTL = 1
  Delay = 1
  Replies = {"row"}
  RedisFails = FALSE
  MaxEdits = 3
PROPERTY ActiveUserAccepted
