\* A token of which two pods keep copies is disabled, deleted, or loses its user.
SPECIFICATION TokenSpec
CONSTANTS
  p1 = p1
  p2 = p2
  l1 = l1
  l2 = l2
  Pods <- TwoPods
  Lookups <- TwoLookups
  Tokens = {t1}
  TTL = 2
  UserTTL = 1
  Delay = 1
  Replies = {"row", "none"}
  RedisFails = TRUE
  MaxEdits = 3
SYMMETRY Symmetry
PROPERTIES RevokedStaysOut DeactivatedStaysOut
