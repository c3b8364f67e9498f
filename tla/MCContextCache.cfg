\* Two summarisers, no fault and no push: the race alone.
SPECIFICATION Spec
CONSTANTS
  s1 = s1
  s2 = s2
  Summarisers <- TwoSummarisers
  TTL = 2
  SummaryTTL = 3
  Delay = 1
  MaxArtifacts = 3
  MaxPushes = 0
  MaxFaults = 0
  MaxTime = 5
\* The clock and the artifacts run out.
CHECK_DEADLOCK FALSE
INVARIANTS CacheConsistent
